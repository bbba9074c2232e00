------------------------ MODULE BuildVersionsProofs ------------------------
(***************************************************************************)
(* Theorems about BuildVersions for any number of requests and any bounds. *)
(***************************************************************************)
EXTENDS BuildVersions, SequenceTheorems, TLAPS

(* What IInv says of one request, where the counter is c and the builds b.    *)
Good(q, c, b) ==
  /\ q \in Request
  /\ q.version <= c
  /\ q.known <= Len(b)
  /\ q.kind = "build" => \A i \in 1..Len(b) : i <= q.known =>
       /\ q.at = "number" => b[i].version < c
       /\ q.at = "insert" => b[i].version < q.version
  /\ q.at = "release" =>
       \E k \in 1..Len(b) : b[k].version = q.version /\ b[k].status = "succeeded"
  /\ q.at \in {"increment", "number"} => q.kind = "build"
  /\ q.at = "unfailed" => q.kind = "rerun"
  /\ q.at = "insert" => q.kind \in {"build", "rerun"}

(* IInv, read as a statement about the builds, the releases and each request. *)
Parts ==
  /\ counter \in Numbers
  /\ builds \in Seq(Build)
  /\ req \in [Requests -> Request]
  /\ releases \subseteq Numbers
  /\ \A k \in 1..Len(builds) : builds[k].version <= counter
  /\ \A k \in 1..Len(builds) : builds[k].known < k
  /\ LaterIsHigher
  /\ ReleasesSucceeded
  /\ \A r \in Requests : Good(req[r], counter, builds)

LEMMA IInvByRequest == (IInv <=> Parts) /\ (IInv' <=> Parts')
  <1>1. IInv <=> Parts
    BY DEF Parts, IInv, TypeOK, Shape, Issued, KnownStored, AboveKnown, Looked, Good, HasSucceeded, With
  <1>. QED  BY <1>1, PTL

(* A stored build has well-formed fields.                                    *)
LEMMA BuildFields ==
  ASSUME builds \in Seq(Build), NEW k \in 1..Len(builds)
  PROVE  /\ builds[k] \in Build
         /\ builds[k].version \in Numbers /\ builds[k].known \in Nat
         /\ builds[k].status \in Table!Status
  <1>1. builds[k] \in Build
    BY ElementOfSeq
  <1>. QED  BY <1>1 DEF Build

(* The fields of a request.                                                  *)
LEMMA RequestFields ==
  ASSUME NEW q \in Request
  PROVE  q.version \in Numbers /\ q.known \in Nat
  BY DEF Request

(* Numbers are integers, and an idle request is in order.                    *)
LEMMA NumbersAreNat == NumberBound \in Nat /\ BuildBound \in Nat /\ Numbers \subseteq Nat /\ 0 \in Numbers
  BY BoundsAssumption DEF Numbers

LEMMA IdleGood ==
  ASSUME counter \in Numbers, builds \in Seq(Build)
  PROVE  Good(Idle, counter, builds)
  <1>1. Len(builds) \in Nat
    BY LenProperties
  <1>2. Idle \in Request
    BY NumbersAreNat DEF Idle, Request
  <1>3. 0 <= counter /\ 0 <= Len(builds)
    BY <1>1, NumbersAreNat
  <1>. QED  BY <1>2, <1>3 DEF Good, Idle

(* A request stays in order when the counter grows.                          *)
LEMMA GoodMonotone ==
  ASSUME NEW q, NEW c \in Nat, NEW d \in Nat, c <= d, NEW b, Good(q, c, b),
         \A i \in 1..Len(b) : b[i].version \in Nat
  PROVE  Good(q, d, b)
  <1>1. q.version \in Nat
    BY RequestFields, NumbersAreNat DEF Good
  <1>. QED  BY <1>1 DEF Good

(* A step of one request that stores nothing.                                *)
LEMMA RequestStep ==
  ASSUME IInv, NEW r \in Requests, NEW q, req' = [req EXCEPT ![r] = q],
         UNCHANGED <<builds, releases>>, counter' \in Numbers, counter' >= counter,
         Good(q, counter', builds)
  PROVE  IInv'
  <1>1. Parts
    BY IInvByRequest
  <1>2. req' \in [Requests -> Request]
    BY <1>1 DEF Parts, Good
  <1>3. \A i \in 1..Len(builds) : builds[i].version \in Nat
    BY <1>1, BuildFields, NumbersAreNat DEF Parts
  <1>4. counter \in Nat /\ counter' \in Nat /\ counter <= counter'
    BY <1>1, NumbersAreNat DEF Parts
  <1>5. \A k \in 1..Len(builds) : builds[k].version <= counter'
    BY <1>1, <1>3, <1>4 DEF Parts
  <1>6. \A p \in Requests : Good(req'[p], counter', builds)
    <2> TAKE p \in Requests
    <2>1. Good(req[p], counter', builds)
      BY <1>1, <1>3, <1>4, GoodMonotone DEF Parts
    <2>. QED  BY <1>1, <2>1 DEF Parts
  <1>7. LaterIsHigher' /\ ReleasesSucceeded'
    BY <1>1 DEF Parts, LaterIsHigher, ReleasesSucceeded, HasSucceeded, With
  <1>8. Parts'
    BY <1>1, <1>2, <1>5, <1>6, <1>7 DEF Parts
  <1>. QED  BY <1>8, IInvByRequest

(* The facts every step starts from.                                         *)
LEMMA Basics ==
  ASSUME IInv
  PROVE  /\ Parts
         /\ Len(builds) \in Nat /\ counter \in Nat /\ counter \in Numbers
         /\ \A i \in 1..Len(builds) :
              /\ builds[i] \in Build
              /\ builds[i].version \in Numbers /\ builds[i].version \in Nat /\ builds[i].version <= counter
              /\ builds[i].status \in Table!Status
              /\ builds[i].known \in Nat /\ builds[i].known < i
         /\ \A r \in Requests : Good(req[r], counter, builds)
         /\ Good(Idle, counter, builds)
  BY IInvByRequest, LenProperties, BuildFields, NumbersAreNat, IdleGood DEF Parts

(* A step of one request that only changes the request.                      *)
LEMMA Advance ==
  ASSUME IInv, NEW r \in Requests, NEW n, req' = [req EXCEPT ![r] = n],
         UNCHANGED <<counter, builds, releases>>, Good(n, counter, builds)
  PROVE  IInv'
  <1>1. counter' \in Numbers /\ counter' >= counter
    BY Basics
  <1>. QED  BY <1>1, RequestStep

(* A request comes.                                                          *)
LEMMA ComesPreserves ==
  ASSUME IInv, NEW r \in Requests, NEW at, NEW kind, NEW v \in Numbers, NEW n \in Nat,
         Comes(r, at, kind, v, n), n <= Len(builds), v <= counter,
         \/ at = "increment" /\ kind = "build"
         \/ at = "unfailed" /\ kind = "rerun"
         \/ at = "release" /\ kind = "release" /\ \E k \in With(v) : builds[k].status = "succeeded"
  PROVE  IInv'
  <1>. DEFINE q == [at |-> at, kind |-> kind, version |-> v, known |-> n]
  <1>1. Good(q, counter, builds)
    BY DEF Good, Request, With
  <1>. QED  BY <1>1, Advance DEF Comes

LEMMA NewBuildPreserves ==
  ASSUME IInv, NEW r \in Requests, NewBuild(r)
  PROVE  IInv'
  <1>1. Len(builds) \in Nat /\ 0 <= counter /\ 0 \in Numbers /\ Len(builds) <= Len(builds)
    BY Basics, NumbersAreNat
  <1>. QED  BY <1>1, ComesPreserves DEF NewBuild

LEMMA FoundPreserves ==
  ASSUME IInv, NEW r \in Requests, NEW v \in Numbers, Rerun(r, v) \/ FindSucceeded(r, v)
  PROVE  IInv'
  <1>1. 0 \in Nat /\ 0 <= Len(builds) /\ v <= counter
    BY Basics DEF Rerun, FindSucceeded, With
  <1>2. CASE Rerun(r, v)
    BY <1>1, <1>2, ComesPreserves DEF Rerun
  <1>3. CASE FindSucceeded(r, v)
    BY <1>1, <1>3, ComesPreserves DEF FindSucceeded
  <1>. QED  BY <1>2, <1>3

(* A request goes on.                                                        *)
LEMMA GoesOn ==
  ASSUME IInv, NEW r \in Requests, CheckUnfailed(r) \/ ReadNumber(r) \/ Fail(r)
  PROVE  IInv'
  <1>. DEFINE q == req[r]
  <1>1. Good(q, counter, builds) /\ Good(Idle, counter, builds) /\ q \in Request
    BY Basics DEF Good
  <1>2. CASE Fail(r)
    BY <1>1, <1>2, Advance DEF Fail
  <1>3. CASE CheckUnfailed(r)
    <2>. DEFINE n == [q EXCEPT !.at = "insert"]
    <2>1. n \in Request /\ q.at = "unfailed"
      BY <1>1, <1>3 DEF Request, CheckUnfailed
    <2>2. n.at = "insert" /\ n.kind = q.kind /\ n.version = q.version /\ n.known = q.known
      BY <1>1 DEF Request
    <2>3. Good(n, counter, builds)
      BY <1>1, <2>1, <2>2 DEF Good
    <2>4. req \in [Requests -> Request]
      BY Basics DEF Parts
    <2>5. req' = [req EXCEPT ![r] = n] \/ req' = [req EXCEPT ![r] = Idle]
      BY <1>3, <2>4 DEF CheckUnfailed
    <2>6. UNCHANGED <<counter, builds, releases>>
      BY <1>3 DEF CheckUnfailed
    <2>. QED  BY <1>1, <2>3, <2>5, <2>6, Advance
  <1>4. CASE ReadNumber(r)
    <2>. DEFINE n == [q EXCEPT !.at = "insert", !.version = counter]
    <2>1. counter \in Numbers /\ counter \in Nat /\ q.at = "number"
      BY <1>4, Basics DEF ReadNumber
    <2>2. n \in Request
      BY <1>1, <2>1 DEF Request
    <2>3. n.at = "insert" /\ n.version = counter /\ n.kind = q.kind /\ n.known = q.known
      BY <1>1 DEF Request
    <2>4. Good(n, counter, builds)
      BY <1>1, <2>1, <2>2, <2>3 DEF Good
    <2>. QED  BY <1>4, <2>4, Advance DEF ReadNumber
  <1>. QED  BY <1>2, <1>3, <1>4

(* The counter is incremented: no stored build has the new number.           *)
LEMMA IncrementPreserves ==
  ASSUME IInv, NEW r \in Requests, Increment(r)
  PROVE  IInv'
  <1>. DEFINE q == req[r]
              n == [q EXCEPT !.at = "number"]
  <1>1. /\ counter \in Nat /\ counter' \in Numbers /\ counter' = counter + 1
        /\ Good(q, counter, builds) /\ q \in Request /\ q.at = "increment"
    BY Basics, NumbersAreNat DEF Increment, Numbers, Good
  <1>2. q.version \in Nat /\ n \in Request
    BY <1>1, RequestFields, NumbersAreNat DEF Request
  <1>3. /\ n.at = "number" /\ n.version = q.version
        /\ n.kind = q.kind /\ n.known = q.known
    BY <1>1 DEF Request
  <1>4. \A i \in 1..Len(builds) : builds[i].version \in Nat /\ builds[i].version <= counter
    BY Basics
  <1>5. Good(n, counter', builds)
    BY <1>1, <1>2, <1>3, <1>4 DEF Good
  <1>6. counter' >= counter
    BY <1>1
  <1>7. req' = [req EXCEPT ![r] = n] /\ UNCHANGED <<builds, releases>>
    BY DEF Increment, Goto
  <1>. QED  BY <1>1, <1>5, <1>6, <1>7, RequestStep

(* A build is stored: it is above every build its request knew.              *)
LEMMA InsertPreserves ==
  ASSUME IInv, NEW r \in Requests, Insert(r)
  PROVE  IInv'
  <1>. DEFINE q == req[r]
              N == Len(builds)
  <1>1. PICK e : /\ builds' = Append(builds, e) /\ e \in Build
                 /\ e.version = q.version /\ e.kind = q.kind /\ e.known = q.known
    <2>1. PICK s \in {"pending", "failed"} :
            builds' = Append(builds, [version |-> q.version, status |-> s, kind |-> q.kind, known |-> q.known])
      BY DEF Insert
    <2>2. q.version \in Numbers /\ q.known \in Nat /\ q.kind \in {"build", "rerun"}
      BY Basics, RequestFields DEF Good, Insert
    <2>3. s \in Table!Status
      BY DEF Table!Status, Table!Live, Table!Terminal
    <2>. QED  BY <2>1, <2>2, <2>3 DEF Build
  <1>2. /\ builds \in Seq(Build) /\ N \in Nat /\ builds' \in Seq(Build) /\ Len(builds') = N + 1
        /\ builds'[N+1] = e /\ \A i \in 1..N : builds'[i] = builds[i]
    BY <1>1, Basics DEF Parts
  <1>3. Good(q, counter, builds) /\ q.at = "insert" /\ q.known \in Nat /\ q.known <= N /\ q.version <= counter
    BY Basics, RequestFields DEF Good, Insert
  <1>5. req' \in [Requests -> Request] /\ releases' \subseteq Numbers /\ counter' = counter /\ counter \in Numbers
    BY Basics DEF Insert, Parts, Good
  <1>6. \A k \in 1..Len(builds') : builds'[k].version <= counter /\ builds'[k].known < k
    <2> TAKE k \in 1..Len(builds')
    <2>1. CASE k \in 1..N
      BY <1>2, <2>1, Basics
    <2>2. CASE k = N + 1
      BY <1>1, <1>2, <1>3, <2>2
    <2>. QED  BY <1>2, <2>1, <2>2
  <1>7. LaterIsHigher'
    <2> SUFFICES ASSUME NEW k \in 1..N+1, builds'[k].kind = "build", NEW i \in 1..N+1, i <= builds'[k].known
                 PROVE  builds'[i].version < builds'[k].version
      BY <1>2 DEF LaterIsHigher
    <2>1. CASE k \in 1..N
      <3>1. builds[k].known < k /\ builds[k].known \in Nat
        BY <2>1, Basics
      <3>2. i \in 1..N
        BY <1>2, <2>1, <3>1
      <3>. QED  BY <1>2, <2>1, <3>2, Basics DEF Parts, LaterIsHigher
    <2>2. CASE k = N + 1
      <3>1. i \in 1..N /\ i <= q.known /\ q.kind = "build"
        BY <1>1, <1>2, <1>3, <2>2
      <3>. QED  BY <1>1, <1>2, <1>3, <2>2, <3>1 DEF Good
    <2>. QED  BY <1>2, <2>1, <2>2
  <1>8. ReleasesSucceeded'
    BY <1>2, Basics DEF Parts, ReleasesSucceeded, HasSucceeded, With, Insert
  <1>9. \A p \in Requests : Good(req'[p], counter, builds')
    <2> TAKE p \in Requests
    <2>1. CASE p = r
      <3>1. req'[p] = Idle
        BY <2>1, Basics DEF Insert, Parts
      <3>2. Good(Idle, counter, builds')
        BY <1>2, Basics DEF Good, Idle
      <3>. QED  BY <3>1, <3>2
    <2>2. CASE p # r
      <3>1. req'[p] = req[p] /\ Good(req[p], counter, builds)
        BY <2>2, Basics DEF Insert, Parts
      <3>2. req[p] \in Request /\ req[p].known \in Nat
        BY <3>1, RequestFields DEF Good
      <3>. QED  BY <1>2, <3>1, <3>2 DEF Good
    <2>. QED  BY <2>1, <2>2
  <1>10. Parts'
    BY <1>2, <1>5, <1>6, <1>7, <1>8, <1>9 DEF Parts
  <1>. QED  BY <1>10, IInvByRequest

(* A build that succeeded stays so, and no status changes a version.         *)
LEMMA ProgressPreserves ==
  ASSUME IInv, NEW k \in 1..Len(builds), NEW s \in Table!Status, Progress(k, s)
  PROVE  IInv'
  <1>. DEFINE e == [builds[k] EXCEPT !.status = s]
  <1>1. builds[k].status # "succeeded"
    BY DEF Progress, Table!AllowedFrom, Table!Status, Table!Live, Table!Terminal
  <1>2. /\ builds \in Seq(Build) /\ Len(builds) \in Nat /\ builds' = [builds EXCEPT ![k] = e]
        /\ e \in Build /\ e.version = builds[k].version /\ e.kind = builds[k].kind /\ e.known = builds[k].known
    BY Basics DEF Progress, Parts, Build
  <1>3. builds' \in Seq(Build) /\ Len(builds') = Len(builds)
    BY <1>2, ExceptSeq
  <1>4. \A i \in 1..Len(builds) :
          /\ builds'[i].version = builds[i].version /\ builds'[i].kind = builds[i].kind
          /\ builds'[i].known = builds[i].known
          /\ builds[i].status = "succeeded" => builds'[i].status = "succeeded"
    <2> TAKE i \in 1..Len(builds)
    <2>1. builds'[i] = IF i = k THEN e ELSE builds[i]
      BY <1>2, ExceptSeq
    <2>. QED  BY <1>1, <1>2, <2>1
  <1>5. UNCHANGED <<counter, req, releases>>
    BY DEF Progress
  <1>6. LaterIsHigher'
    <2>1. LaterIsHigher
      BY Basics DEF Parts
    <2>. QED  BY <1>3, <1>4, <2>1 DEF LaterIsHigher
  <1>7. ReleasesSucceeded'
    <2>1. \A v : HasSucceeded(v) => HasSucceeded(v)'
      BY <1>3, <1>4 DEF HasSucceeded, With
    <2>. QED  BY <1>5, <2>1, Basics DEF Parts, ReleasesSucceeded
  <1>8. \A p \in Requests : Good(req[p], counter, builds')
    <2> TAKE p \in Requests
    <2>1. Good(req[p], counter, builds)
      BY Basics
    <2>. QED  BY <1>3, <1>4, <2>1 DEF Good
  <1>9. Parts'
    BY <1>3, <1>4, <1>5, <1>6, <1>7, <1>8, Basics DEF Parts
  <1>. QED  BY <1>9, IInvByRequest

(* A release is created of a version that was looked up.                     *)
LEMMA CreateReleasePreserves ==
  ASSUME IInv, NEW r \in Requests, CreateRelease(r)
  PROVE  IInv'
  <1>. DEFINE q == req[r]
  <1>1. Good(q, counter, builds) /\ q.at = "release" /\ q.version \in Numbers
    BY Basics, RequestFields DEF Good, CreateRelease
  <1>2. HasSucceeded(q.version)
    BY <1>1 DEF Good, HasSucceeded, With
  <1>3. releases' = releases \cup {q.version} /\ req' = [req EXCEPT ![r] = Idle] /\ UNCHANGED <<counter, builds>>
    BY DEF CreateRelease
  <1>4. ReleasesSucceeded' /\ LaterIsHigher'
    BY <1>2, <1>3, Basics DEF Parts, ReleasesSucceeded, HasSucceeded, With, LaterIsHigher
  <1>5. req' \in [Requests -> Request] /\ \A p \in Requests : Good(req'[p], counter, builds)
    BY <1>3, Basics DEF Parts, Good
  <1>6. Parts'
    BY <1>1, <1>3, <1>4, <1>5, Basics DEF Parts
  <1>. QED  BY <1>6, IInvByRequest

(* Every step preserves the invariant.                                       *)
LEMMA NextIInv ==
  ASSUME IInv, [Next]_vars
  PROVE  IInv'
  <1>1. CASE UNCHANGED vars
    <2>1. Parts'
      BY <1>1, Basics DEF vars, Parts, LaterIsHigher, ReleasesSucceeded, HasSucceeded, With
    <2>. QED  BY <2>1, IInvByRequest
  <1>2. ASSUME NEW r \in Requests, RequestNext(r)
        PROVE  IInv'
    BY <1>2, NewBuildPreserves, FoundPreserves, GoesOn, IncrementPreserves, InsertPreserves,
       CreateReleasePreserves DEF RequestNext
  <1>3. ASSUME NEW k \in 1..Len(builds), NEW s \in Table!Status, Progress(k, s)
        PROVE  IInv'
    BY <1>3, ProgressPreserves
  <1>. QED  BY <1>1, <1>2, <1>3 DEF Next

(* The invariant holds always: a version is above those its request knew,    *)
(* however many requests, reruns and releases overlap.                       *)
THEOREM VersionsSafety == Spec => []IInv
  <1>1. Init => IInv
    <2> SUFFICES ASSUME Init PROVE Parts
      BY IInvByRequest
    <2>1. builds \in Seq(Build) /\ Len(builds) = 0
      BY EmptySeq DEF Init
    <2>2. counter \in Numbers
      BY NumbersAreNat DEF Init
    <2>3. Good(Idle, counter, builds) /\ Idle \in Request
      BY <2>1, <2>2, IdleGood DEF Good
    <2>. QED  BY <2>1, <2>2, <2>3 DEF Init, Parts, LaterIsHigher, ReleasesSucceeded
  <1>2. IInv /\ [Next]_vars => IInv'
    BY NextIInv
  <1>. QED  BY <1>1, <1>2, PTL DEF Spec

(* A new build has a higher version than every build that was stored before  *)
(* its request came.                                                         *)
THEOREM VersionsIncrease == Spec => []LaterIsHigher
  BY VersionsSafety, PTL DEF IInv

(* A version that is released has a build that succeeded.                    *)
THEOREM ReleasedHasSucceeded == Spec => []ReleasesSucceeded
  BY VersionsSafety, PTL DEF IInv

-----------------------------------------------------------------------------
(* One request at a time                                                     *)

(* What Unchanged says of one request, where the builds are b.               *)
Serial(q, b) ==
  /\ q.kind = "build" => q.known = Len(b)
  /\ q.kind = "rerun" => \E k \in 1..Len(b) : b[k].version = q.version
  /\ q.kind = "rerun" /\ q.at = "insert" =>
       \A k \in 1..Len(b) : b[k].version = q.version => b[k].status \in Unsuccessful

LEMMA SerialByRequest ==
  /\ Unchanged <=> \A r \in Requests : Serial(req[r], builds)
  /\ Unchanged' <=> \A r \in Requests : Serial(req'[r], builds')
  BY DEF Unchanged, Serial, With

LEMMA SerialIdle == \A b : Serial(Idle, b)
  BY DEF Serial, Idle

(* A request that goes on stays serial: nothing was stored meanwhile.        *)
LEMMA SerialRequest ==
  ASSUME IInv, Unchanged, NEW r \in Requests, RequestNext(r), UNCHANGED builds
  PROVE  Unchanged'
  <1>. DEFINE q == req[r]
  <1>1. /\ req \in [Requests -> Request] /\ q \in Request
        /\ Len(builds) \in Nat /\ Serial(q, builds) /\ Serial(Idle, builds)
    BY Basics, SerialByRequest, SerialIdle DEF Parts
  <1>2. PICK n : req' = [req EXCEPT ![r] = n] /\ Serial(n, builds)
    <2>1. ASSUME NEW at, NEW kind, NEW v, NEW n, Comes(r, at, kind, v, n),
                 \/ kind = "build" /\ n = Len(builds)
                 \/ kind = "rerun" /\ at = "unfailed" /\ With(v) # {}
                 \/ kind = "release"
          PROVE  \E m : req' = [req EXCEPT ![r] = m] /\ Serial(m, builds)
      <3>. DEFINE m == [at |-> at, kind |-> kind, version |-> v, known |-> n]
      <3>1. Serial(m, builds)
        BY <2>1 DEF Serial, With
      <3>. QED  BY <2>1, <3>1 DEF Comes
    <2>2. ASSUME NEW v \in Numbers, NewBuild(r) \/ Rerun(r, v) \/ FindSucceeded(r, v)
          PROVE  \E m : req' = [req EXCEPT ![r] = m] /\ Serial(m, builds)
      <3>1. CASE NewBuild(r)
        BY <2>1, <3>1 DEF NewBuild
      <3>2. CASE Rerun(r, v)
        BY <2>1, <3>2 DEF Rerun
      <3>3. CASE FindSucceeded(r, v)
        BY <2>1, <3>3 DEF FindSucceeded
      <3>. QED  BY <2>2, <3>1, <3>2, <3>3
    <2>3. ASSUME CheckUnfailed(r)
          PROVE  \E n : req' = [req EXCEPT ![r] = n] /\ Serial(n, builds)
      <3>. DEFINE n == [q EXCEPT !.at = "insert"]
      <3>1. n.at = "insert" /\ n.kind = q.kind /\ n.version = q.version /\ n.known = q.known
        BY <1>1 DEF Request
      <3>2. CASE \A k \in With(q.version) : builds[k].status \in Unsuccessful
        <4>1. req' = [req EXCEPT ![r] = n]
          BY <1>1, <2>3, <3>2 DEF CheckUnfailed
        <4>2. Serial(n, builds)
          BY <1>1, <3>1, <3>2 DEF Serial, With
        <4>. QED  BY <4>1, <4>2
      <3>3. CASE ~ \A k \in With(q.version) : builds[k].status \in Unsuccessful
        <4>1. req' = [req EXCEPT ![r] = Idle]
          BY <1>1, <2>3, <3>3 DEF CheckUnfailed
        <4>. QED  BY <1>1, <4>1
      <3>. QED  BY <3>2, <3>3
    <2>4. ASSUME Increment(r) \/ ReadNumber(r)
          PROVE  \E n : req' = [req EXCEPT ![r] = n] /\ Serial(n, builds)
      <3>1. PICK n : req' = [req EXCEPT ![r] = n] /\ n.kind = q.kind /\ n.known = q.known
        <4>1. CASE Increment(r)
          <5>. DEFINE n == [q EXCEPT !.at = "number"]
          <5>1. n.kind = q.kind /\ n.known = q.known
            BY <1>1 DEF Request
          <5>. QED  BY <4>1, <5>1 DEF Increment, Goto
        <4>2. CASE ReadNumber(r)
          <5>. DEFINE n == [q EXCEPT !.at = "insert", !.version = counter]
          <5>1. n.kind = q.kind /\ n.known = q.known
            BY <1>1 DEF Request
          <5>. QED  BY <4>2, <5>1 DEF ReadNumber
        <4>. QED  BY <2>4, <4>1, <4>2
      <3>2. q.kind = "build"
        BY <2>4, Basics DEF Increment, ReadNumber, Good
      <3>. QED  BY <1>1, <3>1, <3>2 DEF Serial
    <2>7. ASSUME Insert(r) \/ CreateRelease(r) \/ Fail(r)
          PROVE  \E n : req' = [req EXCEPT ![r] = n] /\ Serial(n, builds)
      BY <1>1, <2>7 DEF Insert, CreateRelease, Fail
    <2>. QED  BY <2>2, <2>3, <2>4, <2>7, NumbersAreNat DEF RequestNext
  <1>. QED  BY <1>1, <1>2, SerialByRequest

(* Only an INSERT stores a build.                                            *)
LEMMA StoresNothing ==
  ASSUME NEW r \in Requests, RequestNext(r), ~ Insert(r)
  PROVE  UNCHANGED builds
  BY DEF RequestNext, Comes, NewBuild, Rerun, FindSucceeded, CheckUnfailed, Increment, ReadNumber,
         CreateRelease, Fail

(* A terminal status stays, versions and the number of builds do not change. *)
LEMMA ProgressKeeps ==
  ASSUME IInv, NEW k \in 1..Len(builds), NEW s \in Table!Status, Progress(k, s)
  PROVE  /\ Len(builds') = Len(builds) /\ s # "pending" /\ s # "none"
         /\ builds[k].status \notin Unsuccessful \cup {"succeeded"}
         /\ builds' = [builds EXCEPT ![k] = [@ EXCEPT !.status = s]]
         /\ \A i \in 1..Len(builds) :
              /\ builds'[i].version = builds[i].version /\ builds'[i].kind = builds[i].kind
              /\ builds'[i].status = IF i = k THEN s ELSE builds[i].status
  <1>. DEFINE e == [builds[k] EXCEPT !.status = s]
  <1>1. /\ builds \in Seq(Build) /\ builds' = [builds EXCEPT ![k] = e]
        /\ e \in Build /\ e.version = builds[k].version /\ e.kind = builds[k].kind /\ e.status = s
    BY Basics DEF Progress, Parts, Build
  <1>2. Len(builds') = Len(builds) /\ \A i \in 1..Len(builds) : builds'[i] = IF i = k THEN e ELSE builds[i]
    BY <1>1, ExceptSeq
  <1>3. /\ s # "pending" /\ s # "none"
        /\ builds[k].status \notin Unsuccessful \cup {"succeeded"}
    BY DEF Progress, Unsuccessful, Table!AllowedFrom, Table!Status, Table!Live, Table!Terminal
  <1>. QED  BY <1>1, <1>2, <1>3 DEF Progress

(* Requests that overlapped once stay known as such.                         *)
LEMMA StillAlone ==
  ASSUME [Next]_vars, ~overlapped'
  PROVE  ~overlapped
  BY DEF Next, vars, RequestNext, Comes, NewBuild, Rerun, FindSucceeded, CheckUnfailed, Increment,
         ReadNumber, Insert, CreateRelease, Fail, Progress

(* When a request takes a step and none overlaps it, the others are idle.    *)
LEMMA OthersIdle ==
  ASSUME IInv, Alone, NEW r \in Requests, RequestNext(r), ~overlapped'
  PROVE  \A p \in Requests \ {r} : req[p] = Idle /\ req'[p] = Idle
  <1>1. req \in [Requests -> Request]
    BY Basics DEF Parts
  <1>2. ASSUME NEW at, NEW kind, NEW v, NEW n, Comes(r, at, kind, v, n)
        PROVE  \A p \in Requests : req[p] = Idle
    BY <1>2 DEF Comes
  <1>3. CASE \E v \in Numbers : NewBuild(r) \/ Rerun(r, v) \/ FindSucceeded(r, v)
    <2>1. \A p \in Requests : req[p] = Idle
      BY <1>2, <1>3 DEF NewBuild, Rerun, FindSucceeded
    <2>2. \E n : req' = [req EXCEPT ![r] = n]
      BY <1>3 DEF NewBuild, Rerun, FindSucceeded, Comes
    <2>. QED  BY <1>1, <2>1, <2>2
  <1>4. CASE Increment(r) \/ ReadNumber(r) \/ CheckUnfailed(r) \/ Insert(r) \/ CreateRelease(r) \/ Fail(r)
    <2>1. req[r] # Idle
      BY <1>4 DEF Increment, ReadNumber, CheckUnfailed, Insert, CreateRelease, Fail, Idle
    <2>2. \E n : req' = [req EXCEPT ![r] = n]
      BY <1>4 DEF Increment, ReadNumber, CheckUnfailed, Insert, CreateRelease, Fail, Goto
    <2>. QED  BY <1>1, <2>1, <2>2 DEF Alone
  <1>. QED  BY <1>3, <1>4, NumbersAreNat DEF RequestNext

(* A build that is stored again finds only unsuccessful ones of its version. *)
LEMMA InsertKeepsOne ==
  ASSUME IInv, Unchanged, OneBuildAtATime, ~overlapped, NEW r \in Requests, Insert(r)
  PROVE  OneBuildAtATime'
  <1>. DEFINE q == req[r]
              N == Len(builds)
  <1>1. /\ builds \in Seq(Build) /\ N \in Nat /\ q.at = "insert" /\ Serial(q, builds)
    BY Basics, SerialByRequest DEF Insert, Parts
  <1>2. PICK e : builds' = Append(builds, e) /\ e.version = q.version /\ e.kind = q.kind
    BY DEF Insert
  <1>3. Len(builds') = N + 1 /\ builds'[N + 1] = e /\ \A i \in 1..N : builds'[i] = builds[i]
    <2>1. builds \in [1..N -> Build]
      BY <1>1, LenProperties
    <2>. QED  BY <1>1, <1>2, <2>1
  <1>4. ASSUME NEW i \in 1..N + 1, NEW k \in 1..N + 1,
               i < k, builds'[k].kind = "rerun", builds'[i].version = builds'[k].version
        PROVE  builds'[i].status \in Unsuccessful \/ builds'[k].status \in Unsuccessful
    <2>1. i \in 1..N
      BY <1>1, <1>4
    <2>2. CASE k \in 1..N
      BY <1>3, <1>4, <2>1, <2>2 DEF OneBuildAtATime
    <2>3. CASE k = N + 1
      BY <1>1, <1>2, <1>3, <1>4, <2>1, <2>3 DEF Serial
    <2>. QED  BY <1>1, <2>2, <2>3
  <1>. QED  BY <1>3, <1>4 DEF OneBuildAtATime

(* As long as requests come one at a time, what one has seen of the builds   *)
(* stays.                                                                    *)
LEMMA NextSerial ==
  ASSUME IInv, SerialInv, [Next]_vars
  PROVE  SerialInv'
  <1> SUFFICES ASSUME ~overlapped' PROVE Alone' /\ Unchanged' /\ OneBuildAtATime'
    BY DEF SerialInv, OneBuildAtATime
  <1>. ~overlapped /\ Alone /\ Unchanged /\ OneBuildAtATime
    BY StillAlone DEF SerialInv
  <1>1. CASE UNCHANGED vars
    BY <1>1 DEF vars, Alone, Unchanged, OneBuildAtATime, With
  <1>2. ASSUME NEW r \in Requests, RequestNext(r)
        PROVE  Alone' /\ Unchanged' /\ OneBuildAtATime'
    <2>0. Alone'
      BY <1>2, OthersIdle DEF Alone
    <2>1. CASE Insert(r)
      <3>1. \A p \in Requests : req'[p] = Idle
        BY <1>2, <2>1, OthersIdle, Basics DEF Insert, Parts
      <3>. QED  BY <2>0, <2>1, <3>1, SerialByRequest, SerialIdle, InsertKeepsOne
    <2>2. CASE ~Insert(r)
      <3>1. builds' = builds
        BY <1>2, <2>2, StoresNothing
      <3>2. Unchanged'
        BY <1>2, <3>1, SerialRequest
      <3>3. OneBuildAtATime'
        BY <3>1 DEF OneBuildAtATime
      <3>. QED  BY <2>0, <3>2, <3>3
    <2>. QED  BY <2>1, <2>2
  <1>3. ASSUME NEW k \in 1..Len(builds), NEW s \in Table!Status, Progress(k, s)
        PROVE  Alone' /\ Unchanged' /\ OneBuildAtATime'
    <2>1. Alone' /\ req' = req
      BY <1>3 DEF Progress, Alone
    <2>2. ASSUME NEW r \in Requests PROVE Serial(req[r], builds')
      <3>1. Serial(req[r], builds)
        BY SerialByRequest
      <3>. QED  BY <1>3, <3>1, ProgressKeeps DEF Serial
    <2>3. OneBuildAtATime'
      BY <1>3, ProgressKeeps DEF OneBuildAtATime
    <2>. QED  BY <2>1, <2>2, <2>3, SerialByRequest
  <1>. QED  BY <1>1, <1>2, <1>3 DEF Next

(* The entries of the ledger are a sequence as long as the builds.           *)
Entry == [version : Numbers, status : Table!Status]

EntriesFit ==
  builds \in Seq(Build) =>
    /\ Entries \in Seq(Entry)
    /\ Len(Entries) = Len(builds)
    /\ \A i \in 1..Len(builds) :
         /\ Entries[i] = [version |-> builds[i].version, status |-> builds[i].status]
         /\ Entries[i].version = builds[i].version
         /\ Entries[i].status = builds[i].status

LEMMA EntriesAreSeq == EntriesFit /\ EntriesFit'
  <1>1. ASSUME builds \in Seq(Build)
        PROVE  EntriesFit
    <2>1. Len(builds) \in Nat
      BY <1>1, LenProperties
    <2>2. Entries \in [1..Len(builds) -> Entry]
      BY <1>1, BuildFields DEF Entries, Entry
    <2>3. Entries \in Seq(Entry)
      BY <2>1, <2>2, SeqDef
    <2>4. Len(Entries) \in Nat /\ 1..Len(Entries) = 1..Len(builds)
      BY <2>2, <2>3, LenProperties
    <2>5. Len(Entries) = Len(builds)
      BY <2>1, <2>4
    <2>. QED  BY <2>3, <2>5 DEF Entries, EntriesFit
  <1>2. EntriesFit
    BY <1>1 DEF EntriesFit
  <1>. QED  BY <1>2, PTL

(* As long as requests come one at a time, each step is a step of the        *)
(* ledger, or none.                                                          *)
LEMMA LedgerStep ==
  ASSUME IInv, Unchanged, [Next]_vars, IInv'
  PROVE  [Ledger!Next]_Entries
  <1>1. /\ builds \in Seq(Build) /\ builds' \in Seq(Build) /\ Len(builds) \in Nat
        /\ Entries \in Seq(Entry) /\ Len(Entries) = Len(builds)
        /\ \A i \in 1..Len(builds) : Entries[i] = [version |-> builds[i].version, status |-> builds[i].status]
        /\ \A i \in 1..Len(builds) :
             Entries[i].version = builds[i].version /\ Entries[i].status = builds[i].status
        /\ Entries' \in Seq(Entry) /\ Len(Entries') = Len(builds')
        /\ \A i \in 1..Len(builds') : Entries'[i] = [version |-> builds'[i].version, status |-> builds'[i].status]
    <2>1. builds \in Seq(Build) /\ builds' \in Seq(Build) /\ Len(builds) \in Nat
      BY Basics, IInvByRequest DEF Parts
    <2>. QED  BY <2>1, EntriesAreSeq DEF EntriesFit
  <1>2. UNCHANGED builds => UNCHANGED Entries
    BY DEF Entries
  <1>3. ASSUME NEW r \in Requests, Insert(r)
        PROVE  Ledger!Next
    <2>. DEFINE q == req[r]
                N == Len(builds)
    <2>1. PICK s, e :
            /\ s \in {"pending", "failed"}
            /\ builds' = Append(builds, e) /\ e.version = q.version /\ e.status = s
      BY <1>3 DEF Insert
    <2>2. /\ Good(q, counter, builds) /\ Serial(q, builds) /\ q.at = "insert" /\ q.kind \in {"build", "rerun"}
          /\ q.version \in Numbers
      BY <1>3, Basics, SerialByRequest, RequestFields DEF Insert, Good
    <2>3. /\ Len(builds') = N + 1 /\ builds'[N+1] = e /\ \A i \in 1..N : builds'[i] = builds[i]
      <3>1. builds \in [1..N -> Build]
        BY <1>1, LenProperties
      <3>. QED  BY <1>1, <2>1, <3>1
    <2>4. Ledger!Enter(q.version)
      <3>. DEFINE x == [version |-> q.version, status |-> s]
                  A == Append(Entries, x)
      <3>1. x \in Entry
        BY <2>1, <2>2 DEF Entry, Table!Status, Table!Live, Table!Terminal
      <3>2. A \in Seq(Entry) /\ Len(A) = N + 1 /\ A[N+1] = x /\ \A i \in 1..N : A[i] = Entries[i]
        <4>1. Entries \in [1..N -> Entry]
          BY <1>1, LenProperties
        <4>. QED  BY <1>1, <3>1, <4>1
      <3>. HIDE DEF A
      <3>3. \A i \in 1..N+1 : Entries'[i] = A[i]
        <4> TAKE i \in 1..N+1
        <4>1. CASE i \in 1..N
          BY <1>1, <2>3, <3>2, <4>1
        <4>2. CASE i = N + 1
          BY <1>1, <2>1, <2>3, <3>2, <4>2
        <4>. QED  BY <1>1, <4>1, <4>2
      <3>4. Entries' = A
        BY <1>1, <2>3, <3>2, <3>3, SeqEqual
      <3>. QED  BY <2>1, <3>4 DEF A, Ledger!Enter
    <2>5. CASE q.kind = "build"
      <3>1. \A k \in 1..Len(Entries) : Entries[k].version < q.version
        BY <1>1, <2>2, <2>5 DEF Good, Serial
      <3>. QED  BY <2>2, <2>4, <3>1 DEF Ledger!Next, Ledger!Build
    <2>6. CASE q.kind = "rerun"
      <3>1. PICK k \in 1..N : builds[k].version = q.version
        BY <2>2, <2>6 DEF Serial
      <3>2. \A i \in 1..N : builds[i].version = q.version => builds[i].status \in Unsuccessful
        BY <2>2, <2>6 DEF Serial
      <3>3. /\ k \in 1..Len(Entries) /\ Entries[k].version = q.version
            /\ \A i \in 1..Len(Entries) :
                 Entries[i].version = Entries[k].version => Entries[i].status \in Ledger!Unsuccessful
        BY <1>1, <3>1, <3>2 DEF Unsuccessful, Ledger!Unsuccessful
      <3>. QED  BY <2>4, <3>3 DEF Ledger!Next, Ledger!Rebuild
    <2>. QED  BY <2>2, <2>5, <2>6
  <1>4. ASSUME NEW k \in 1..Len(builds), NEW s \in Table!Status, Progress(k, s)
        PROVE  Ledger!Next
    <2>. DEFINE x == [version |-> Entries[k].version, status |-> s]
                E == [Entries EXCEPT ![k] = x]
    <2>1. /\ Len(builds') = Len(builds)
          /\ builds[k].status \notin Unsuccessful \cup {"succeeded"}
          /\ \A i \in 1..Len(builds) :
               /\ builds'[i].version = builds[i].version
               /\ builds'[i].status = IF i = k THEN s ELSE builds[i].status
      BY <1>4, ProgressKeeps
    <2>2. s \in {"running", "canceling", "succeeded", "failed", "canceled"}
      BY <1>4, ProgressKeeps DEF Table!Status, Table!Live, Table!Terminal
    <2>3. x \in Entry
      BY <1>1, BuildFields DEF Entry
    <2>4. E \in Seq(Entry) /\ Len(E) = Len(builds) /\ \A i \in 1..Len(builds) : E[i] = IF i = k THEN x ELSE Entries[i]
      BY <1>1, <2>3, ExceptSeq
    <2>. HIDE DEF E
    <2>5. \A i \in 1..Len(builds) : Entries'[i] = E[i]
      <3> TAKE i \in 1..Len(builds)
      <3>1. Entries'[i] = [version |-> builds[i].version, status |-> IF i = k THEN s ELSE builds[i].status]
        BY <1>1, <2>1
      <3>. QED  BY <1>1, <2>4, <3>1
    <2>6. Entries' = E
      BY <1>1, <2>1, <2>4, <2>5, SeqEqual
    <2>7. Entries' = [Entries EXCEPT ![k] = [version |-> @.version, status |-> s]]
      BY <2>6 DEF E
    <2>8. k \in 1..Len(Entries) /\ Entries[k].status \notin Ledger!Unsuccessful \cup {"succeeded"}
      BY <1>1, <2>1 DEF Unsuccessful, Ledger!Unsuccessful
    <2>. QED  BY <2>2, <2>7, <2>8 DEF Ledger!Next, Ledger!Progress
  <1>5. CASE UNCHANGED vars
    BY <1>2, <1>5 DEF vars
  <1>. QED  BY <1>2, <1>3, <1>4, <1>5, StoresNothing DEF Next

(* As long as requests come one at a time a request knows all builds, and a  *)
(* version that is built again stays unsuccessful until then.                *)
THEOREM SerialSafety == Spec => []SerialInv
  <1>1. Init => SerialInv
    <2> SUFFICES ASSUME Init PROVE SerialInv
      OBVIOUS
    <2>1. Unchanged /\ Alone
      BY SerialIdle, SerialByRequest DEF Init, Alone
    <2>2. OneBuildAtATime
      BY EmptySeq DEF Init, OneBuildAtATime
    <2>. QED  BY <2>1, <2>2 DEF SerialInv
  <1>2. IInv /\ SerialInv /\ [Next]_vars => SerialInv'
    BY NextSerial
  <1>. QED  BY <1>1, <1>2, VersionsSafety, PTL DEF Spec

(* "only if all builds are failed the pipeline can be re-run": as long as    *)
(* requests come one at a time, a version never has two live builds.         *)
THEOREM OneBuild == Spec => []OneBuildAtATime
  <1>1. SerialInv => OneBuildAtATime
    BY DEF SerialInv
  <1>. QED  BY <1>1, SerialSafety, PTL

(* Then the builds are the ledger users rely on: new versions increase, and  *)
(* only versions without a live build are rebuilt.                           *)
THEOREM KeepsLedgerWhenSerial == Spec => KeepsLedger
  <1>1. Init => Ledger!Init
    <2> SUFFICES ASSUME Init PROVE Entries = <<>>
      BY DEF Ledger!Init
    <2>1. builds \in Seq(Build) /\ Len(builds) = 0
      BY EmptySeq DEF Init
    <2>2. Entries \in Seq(Entry) /\ Len(Entries) = 0
      BY <2>1, EntriesAreSeq DEF EntriesFit
    <2>. QED  BY <2>2, EmptySeq
  <1>2. IInv /\ SerialInv /\ [Next]_vars /\ IInv' => [~overlapped' => [Ledger!Next]_Entries]_vars
    <2> SUFFICES ASSUME IInv, SerialInv, [Next]_vars, IInv', ~overlapped' PROVE [Ledger!Next]_Entries
      OBVIOUS
    <2>1. Unchanged
      BY StillAlone DEF SerialInv
    <2>. QED  BY <2>1, LedgerStep
  <1>. QED  BY <1>1, <1>2, VersionsSafety, SerialSafety, PTL DEF Spec, KeepsLedger

=============================================================================

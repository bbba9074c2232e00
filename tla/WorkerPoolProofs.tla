-------------------------- MODULE WorkerPoolProofs --------------------------
(***************************************************************************)
(* Theorems about WorkerPool for any numbers of workers and jobs, any      *)
(* limits of the channels and any number of retries.                       *)
(***************************************************************************)
EXTENDS WorkerPool, FiniteSetTheorems, TLAPS

Points == {"idle", "call", "assign", "check", "failed", "load", "retry", "read", "append", "store", "gone"}
Busy   == Points \ {"idle", "gone"}
Left   == {w \in Workers : ~Here(w, "gone")}

-----------------------------------------------------------------------------
(* Workers and channels                                                      *)

Typed == TypeOK /\ ClosedLast

LEMMA GotoFacts ==
  ASSUME TypeOK, NEW w \in Workers, NEW at \in Points
  PROVE  /\ [worker[w] EXCEPT !.at = at] \in Worker
         /\ [worker[w] EXCEPT !.at = at].at = at
         /\ [worker[w] EXCEPT !.at = at].job = worker[w].job
         /\ [worker[w] EXCEPT !.at = at].got = worker[w].got
         /\ [worker[w] EXCEPT !.at = at].value = worker[w].value
         /\ [worker[w] EXCEPT !.at = at].list = worker[w].list
  BY DEF TypeOK, Worker, Points

LEMMA IdleFacts ==
  /\ Idle \in Worker /\ Idle.at = "idle" /\ Idle.job = NilJob /\ Idle.got = "nil"
  /\ \A j \in Sent : /\ [Idle EXCEPT !.at = "call", !.job = j] \in Worker
                      /\ [Idle EXCEPT !.at = "call", !.job = j].at = "call"
                      /\ [Idle EXCEPT !.at = "call", !.job = j].job = j
  <1>1. NilJob \in Sent
    BY DEF Sent
  <1>2. Idle \in Worker /\ Idle.at = "idle" /\ Idle.job = NilJob /\ Idle.got = "nil"
    BY <1>1 DEF Idle, Worker, Error
  <1>3. ASSUME NEW j \in Sent
        PROVE  /\ [Idle EXCEPT !.at = "call", !.job = j] \in Worker
               /\ [Idle EXCEPT !.at = "call", !.job = j].at = "call"
               /\ [Idle EXCEPT !.at = "call", !.job = j].job = j
    <2>1. [Idle EXCEPT !.at = "call", !.job = j] \in Worker
      BY <1>2 DEF Worker
    <2>. QED  BY <1>2, <2>1 DEF Worker
  <1>. QED  BY <1>2, <1>3

(* The other workers are where they were.                                    *)
LEMMA Others ==
  ASSUME TypeOK, NEW w \in Workers, NEW r, worker' = [worker EXCEPT ![w] = r]
  PROVE  worker'[w] = r /\ \A v \in Workers : v # w => worker'[v] = worker[v]
  BY DEF TypeOK

LEMMA WorkerTurns ==
  ASSUME Typed, NEW w \in Workers, ~Here(w, "gone"), NEW r \in Worker, r.at # "gone",
         worker' = [worker EXCEPT ![w] = r], running' = running
  PROVE  worker' \in [Workers -> Worker] /\ ClosedLast'
  <1>1. worker' \in [Workers -> Worker]
    BY DEF Typed, TypeOK
  <1>2. {v \in Workers : ~Here(v, "gone")}' = {v \in Workers : ~Here(v, "gone")}
    BY Others DEF Typed, Here
  <1>. QED  BY <1>1, <1>2 DEF Typed, ClosedLast

LEMMA LeftFinite ==
  ASSUME Typed
  PROVE  /\ IsFiniteSet(Left) /\ running = Cardinality(Left) /\ running \in Nat
         /\ running = 0 <=> Left = {}
  <1>1. Left \in SUBSET Workers
    BY DEF Left
  <1>2. IsFiniteSet(Left) /\ Cardinality(Left) \in Nat
    BY <1>1, SizeAssumption, FS_Subset, FS_CardinalityType
  <1>3. running = Cardinality(Left)
    BY DEF Typed, ClosedLast, Left
  <1>4. Cardinality(Left) = 0 <=> Left = {}
    BY <1>2, FS_EmptySet
  <1>. QED  BY <1>2, <1>3, <1>4

LEMMA WorkerLeaves ==
  ASSUME Typed, NEW w \in Workers, ~Here(w, "gone"), NEW r \in Worker, r.at = "gone",
         worker' = [worker EXCEPT ![w] = r], running' = running - 1
  PROVE  worker' \in [Workers -> Worker] /\ running' \in 0..Cardinality(Workers) /\ ClosedLast'
  <1>1. worker' \in [Workers -> Worker]
    BY DEF Typed, TypeOK
  <1>2. {v \in Workers : ~Here(v, "gone")}' = Left \ {w}
    BY Others DEF Typed, Here, Left
  <1>3. w \in Left
    BY DEF Left
  <1>4. Cardinality(Left \ {w}) = Cardinality(Left) - 1
    BY <1>3, LeftFinite, FS_RemoveElement
  <1>5. running # 0
    BY <1>3, LeftFinite
  <1>6. Cardinality(Workers) \in Nat
    BY SizeAssumption, FS_CardinalityType
  <1>7. running' \in 0..Cardinality(Workers)
    BY <1>5, <1>6, LeftFinite DEF Typed, TypeOK
  <1>. QED  BY <1>1, <1>2, <1>4, <1>7, LeftFinite DEF ClosedLast

LEMMA ResultsFinite ==
  ASSUME NEW S \in SUBSET Jobs
  PROVE  /\ IsFiniteSet(S) /\ Cardinality(S) \in Nat
         /\ \A j \in S : Cardinality(S \ {j}) = Cardinality(S) - 1
         /\ \A j \in Jobs : Cardinality(S \cup {j}) <= Cardinality(S) + 1
  <1>1. IsFiniteSet(Jobs)
    BY ListedAssumption, FS_Interval DEF Jobs
  <1>2. IsFiniteSet(S) /\ Cardinality(S) \in Nat
    BY <1>1, FS_Subset, FS_CardinalityType
  <1>. QED  BY <1>2, FS_AddElement, FS_RemoveElement

(* What a channel holds after a send and after a receive.                    *)
LEMMA QueueFacts ==
  ASSUME TypeOK
  PROVE  /\ \A j \in Sent : jobs' = Append(jobs, j) => Queued' = Queued \cup {j} /\ jobs' \in Seq(Sent) /\ Len(jobs') = Len(jobs) + 1
         /\ jobs # <<>> /\ jobs' = Tail(jobs) =>
              /\ Head(jobs) \in Sent /\ Head(jobs) \in Queued /\ Queued = Queued' \cup {Head(jobs)}
              /\ jobs' \in Seq(Sent) /\ Len(jobs') = Len(jobs) - 1
  <1>1. jobs \in Seq(Sent) /\ Len(jobs) \in Nat
    BY DEF TypeOK
  <1>2. ASSUME NEW j \in Sent, jobs' = Append(jobs, j)
        PROVE  Queued' = Queued \cup {j} /\ jobs' \in Seq(Sent) /\ Len(jobs') = Len(jobs) + 1
    <2>1. jobs' \in Seq(Sent) /\ Len(jobs') = Len(jobs) + 1
      BY <1>1, <1>2
    <2>2. \A i \in 1..Len(jobs) : jobs'[i] = jobs[i]
      BY <1>1, <1>2
    <2>3. jobs'[Len(jobs) + 1] = j
      BY <1>1, <1>2
    <2>4. 1..Len(jobs') = 1..Len(jobs) \cup {Len(jobs) + 1}
      BY <1>1, <2>1
    <2>. QED  BY <2>1, <2>2, <2>3, <2>4 DEF Queued
  <1>3. ASSUME jobs # <<>>, jobs' = Tail(jobs)
        PROVE  /\ Head(jobs) \in Sent /\ Head(jobs) \in Queued /\ Queued = Queued' \cup {Head(jobs)}
               /\ jobs' \in Seq(Sent) /\ Len(jobs') = Len(jobs) - 1
    <2>1. jobs' \in Seq(Sent) /\ Len(jobs') = Len(jobs) - 1 /\ Len(jobs) >= 1 /\ Head(jobs) = jobs[1]
      BY <1>1, <1>3
    <2>2. \A i \in 1..Len(jobs') : jobs'[i] = jobs[i + 1]
      BY <1>1, <1>3, <2>1
    <2>3. \A i \in 1..Len(jobs) : i = 1 \/ (i - 1 \in 1..Len(jobs') /\ jobs'[i - 1] = jobs[i])
      BY <1>1, <2>1, <2>2
    <2>4. \A i \in 1..Len(jobs') : i + 1 \in 1..Len(jobs)
      BY <1>1, <2>1
    <2>5. Queued \subseteq Queued' \cup {Head(jobs)}
      BY <2>1, <2>3 DEF Queued
    <2>6. Queued' \subseteq Queued
      BY <2>2, <2>4 DEF Queued
    <2>7. Head(jobs) \in Queued
      BY <1>1, <2>1 DEF Queued
    <2>. QED  BY <1>1, <2>1, <2>5, <2>6, <2>7
  <1>. QED  BY <1>2, <1>3

-----------------------------------------------------------------------------
(* Where the nil at the end of the list is                                   *)

(* A worker past its call has a job; a nil is sent only by DeleteLogs, and   *)
(* only if it is misled.                                                     *)
Safe == user = "Close" \/ "torn" \notin past
JobsReal ==
  /\ \A w \in Workers : worker[w].at \in Busy \ {"call"} => worker[w].job \in Jobs
  /\ client.at \in {"isError", "isNotDone", "isDone", "failed", "panicked"} => user = "DeleteLogs"
  /\ client.at \in {"isError", "isNotDone", "isDone"} => (client.job = NilJob <=> client.got # "nil")
  /\ Safe => /\ NilJob \notin Queued
             /\ \A w \in Workers : Here(w, "call") => worker[w].job \in Jobs
             /\ client.at = "send" => client.job \in Jobs
             /\ client.at = "isNotDone" => client.got # "nil"
             /\ client.at = "isDone" => client.got \in {"nil", "done"}

-----------------------------------------------------------------------------
(* The type invariant                                                        *)

LEMMA ClientTyped ==
  ASSUME NEW at \in {"next", "isError", "isNotDone", "isDone", "send", "close", "drain", "errors", "read"} \cup Ends,
         NEW j \in Sent, NEW e \in Error
  PROVE  [at |-> at, job |-> j, got |-> e] \in Client /\ At(at) \in Client
  BY DEF Client, At, Sent, Error

LEMMA WorkerStepTyped ==
  ASSUME Typed, JobsReal, NEW w \in Workers, WorkerStep(w)
  PROVE  Typed'
  <1>1. TypeOK /\ worker[w] \in Worker
    BY DEF Typed, TypeOK
  <1>2. CASE Take(w)
    <2> DEFINE r == [Idle EXCEPT !.at = "call", !.job = Head(jobs)]
    <2>1. /\ ~Here(w, "gone") /\ jobs # <<>> /\ jobs' = Tail(jobs) /\ worker' = [worker EXCEPT ![w] = r]
          /\ UNCHANGED <<config, MaxRetry, errors, results, running, list, received, deleted, retries, past>>
      BY <1>2 DEF Take, Becomes, Here
    <2>2. r \in Worker /\ r.at # "gone"
      BY <1>1, <2>1, QueueFacts, IdleFacts
    <2> HIDE DEF r
    <2>3. worker' \in [Workers -> Worker] /\ ClosedLast'
      BY <2>1, <2>2, WorkerTurns
    <2>4. jobs' \in Seq(Sent) /\ Len(jobs') <= JobQueueLimit
      BY <1>1, <2>1, QueueFacts, LimitsAssumption DEF TypeOK
    <2>. QED  BY <1>1, <2>1, <2>3, <2>4 DEF Typed, TypeOK, list
  <1>3. CASE Leave(w)
    <2>1. /\ ~Here(w, "gone") /\ running' = running - 1 /\ worker' = [worker EXCEPT ![w] = [worker[w] EXCEPT !.at = "gone"]]
          /\ UNCHANGED <<config, MaxRetry, errors, jobs, results, list, received, deleted, retries>>
          /\ past' \subseteq {"torn", "overlapped", "panicked", "crashed"}
      BY <1>1, <1>3 DEF Leave, RemoveWorker, Goto, Becomes, Here, TypeOK
    <2>2. [worker[w] EXCEPT !.at = "gone"].at = "gone" /\ [worker[w] EXCEPT !.at = "gone"] \in Worker
      BY <1>1, GotoFacts DEF Points
    <2>3. worker' \in [Workers -> Worker] /\ running' \in 0..Cardinality(Workers) /\ ClosedLast'
      BY <2>1, <2>2, WorkerLeaves
    <2>. QED  BY <1>1, <2>1, <2>3 DEF Typed, TypeOK, list
  <1>4. CASE Crash(w)
    BY <1>1, <1>4 DEF Crash, Typed, TypeOK, ClosedLast, Here, channels, list
  <1>5. CASE Call(w)
    <2>1. \E r \in Worker : r.at # "gone" /\ worker' = [worker EXCEPT ![w] = r]
      <3>1. CASE user = "Close"
        <4>1. PICK at \in {"store", "failed"} : worker' = [worker EXCEPT ![w] = [worker[w] EXCEPT !.at = at]]
          BY <1>5, <3>1 DEF Call, Goto, Becomes
        <4>2. [worker[w] EXCEPT !.at = at] \in Worker /\ [worker[w] EXCEPT !.at = at].at # "gone"
          BY <1>1, GotoFacts DEF Points
        <4>. QED  BY <4>1, <4>2
      <3>2. CASE user # "Close"
        <4>1. PICK e \in {"nil", "deleting"} : worker' = [worker EXCEPT ![w] = [worker[w] EXCEPT !.at = "assign", !.got = e]]
          BY <1>5, <3>2 DEF Call, Becomes
        <4>2. [worker[w] EXCEPT !.at = "assign", !.got = e] \in Worker /\ [worker[w] EXCEPT !.at = "assign", !.got = e].at = "assign"
          BY <1>1 DEF Worker, Error
        <4>. QED  BY <4>1, <4>2
      <3>. QED  BY <3>1, <3>2
    <2>2. ~Here(w, "gone") /\ UNCHANGED <<config, MaxRetry, errors, channels, list, received, deleted, retries, past>>
      BY <1>5 DEF Call, Here
    <2>3. worker' \in [Workers -> Worker] /\ ClosedLast'
      BY <2>1, <2>2, WorkerTurns DEF channels
    <2>. QED  BY <1>1, <2>2, <2>3 DEF Typed, TypeOK, list, channels
  <1>6. CASE Assign(w)
    <2>1. /\ ~Here(w, "gone") /\ err' = worker[w].got /\ worker' = [worker EXCEPT ![w] = [worker[w] EXCEPT !.at = "check"]]
          /\ UNCHANGED <<config, MaxRetry, errors, channels, client, listed, received, deleted, retries, past>>
      BY <1>6 DEF Assign, Goto, Becomes, Here
    <2>2. worker' \in [Workers -> Worker] /\ ClosedLast'
      BY <1>1, <2>1, GotoFacts, WorkerTurns DEF Points, channels
    <2>. QED  BY <1>1, <2>1, <2>2 DEF Typed, TypeOK, Worker, channels
  <1>7. CASE Check(w)
    <2>1. PICK at \in {"store", "failed"} : worker' = [worker EXCEPT ![w] = [worker[w] EXCEPT !.at = at]]
      BY <1>7 DEF Check, Outcome, Goto, Becomes
    <2>2. /\ ~Here(w, "gone") /\ past' \subseteq {"torn", "overlapped", "panicked", "crashed"}
          /\ UNCHANGED <<config, MaxRetry, errors, channels, list, received, deleted, retries>>
      BY <1>1, <1>7 DEF Check, Happens, TypeOK, Here
    <2>3. worker' \in [Workers -> Worker] /\ ClosedLast'
      BY <1>1, <2>1, <2>2, GotoFacts, WorkerTurns DEF Points, channels
    <2>. QED  BY <1>1, <2>2, <2>3 DEF Typed, TypeOK, list, channels
  <1>8. CASE Read(w)
    <2>1. \E r \in Worker : r.at # "gone" /\ worker' = [worker EXCEPT ![w] = r]
      <3>1. CASE Here(w, "failed")
        <4>1. PICK at \in {"load", "read"} : worker' = [worker EXCEPT ![w] = [worker[w] EXCEPT !.at = at]]
          BY <1>8, <3>1 DEF Read, Here, Goto, Becomes
        <4>2. [worker[w] EXCEPT !.at = at] \in Worker /\ [worker[w] EXCEPT !.at = at].at # "gone"
          BY <1>1, GotoFacts DEF Points
        <4>. QED  BY <4>1, <4>2
      <3>2. CASE Here(w, "load")
        <4>1. worker' = [worker EXCEPT ![w] = [worker[w] EXCEPT !.at = "retry", !.value = MaxRetry]]
          BY <1>8, <3>2 DEF Read, Here, Becomes
        <4>2. /\ [worker[w] EXCEPT !.at = "retry", !.value = MaxRetry] \in Worker
              /\ [worker[w] EXCEPT !.at = "retry", !.value = MaxRetry].at = "retry"
          BY <1>1 DEF Worker, TypeOK
        <4>. QED  BY <4>1, <4>2
      <3>3. CASE Here(w, "read")
        <4>1. worker' = [worker EXCEPT ![w] = [worker[w] EXCEPT !.at = "append", !.list = errors]]
          BY <1>8, <3>3 DEF Read, Here, Becomes
        <4>2. /\ [worker[w] EXCEPT !.at = "append", !.list = errors] \in Worker
              /\ [worker[w] EXCEPT !.at = "append", !.list = errors].at = "append"
          BY <1>1 DEF Worker, TypeOK
        <4>. QED  BY <4>1, <4>2
      <3>. QED  BY <1>8, <3>1, <3>2, <3>3 DEF Read
    <2>2. ~Here(w, "gone") /\ UNCHANGED <<config, MaxRetry, errors, channels, list, received, deleted, retries, past>>
      BY <1>8 DEF Read, Here
    <2>3. worker' \in [Workers -> Worker] /\ ClosedLast'
      BY <2>1, <2>2, WorkerTurns DEF channels
    <2>. QED  BY <1>1, <2>2, <2>3 DEF Typed, TypeOK, list, channels
  <1>9. CASE Retry(w)
    <2>1. /\ ~Here(w, "gone") /\ MaxRetry' = worker[w].value - 1 /\ retries' = retries + 1
          /\ worker' = [worker EXCEPT ![w] = [worker[w] EXCEPT !.at = "call", !.value = 0]]
          /\ past' \subseteq {"torn", "overlapped", "panicked", "crashed"}
          /\ UNCHANGED <<config, errors, channels, list, received, deleted>>
      BY <1>1, <1>9 DEF Retry, Again, Becomes, Happens, Here, TypeOK
    <2> DEFINE r == [worker[w] EXCEPT !.at = "call", !.value = 0]
    <2>2. r \in Worker
      <3>1. PICK z \in Int : z = 0
        OBVIOUS
      <3>2. [worker[w] EXCEPT !.at = "call", !.value = z] \in Worker
        BY <1>1 DEF Worker
      <3>. QED  BY <3>1, <3>2
    <2>5. r.at = "call"
      BY <1>1 DEF Worker
    <2> HIDE DEF r
    <2>3. worker' \in [Workers -> Worker] /\ ClosedLast'
      <3>1. worker' = [worker EXCEPT ![w] = r] /\ running' = running
        BY <2>1 DEF r, channels
      <3>. QED  BY <2>1, <2>2, <2>5, <3>1, WorkerTurns
    <2>4. MaxRetry' \in Int /\ retries' \in Nat
      BY <1>1, <2>1 DEF TypeOK, Worker
    <2>. QED  BY <1>1, <2>1, <2>3, <2>4 DEF Typed, TypeOK, list, channels
  <1>10. CASE AppendError(w)
    <2>1. /\ Here(w, "append") /\ errors' = worker[w].list \cup {worker[w].job} /\ worker' = [worker EXCEPT ![w] = Idle]
          /\ past' \subseteq {"torn", "overlapped", "panicked", "crashed"}
          /\ UNCHANGED <<config, MaxRetry, channels, list, received, deleted, retries>>
      BY <1>1, <1>10 DEF AppendError, AfterError, Becomes, Happens, TypeOK
    <2>2. ~Here(w, "gone") /\ worker[w].job \in Jobs
      BY <2>1 DEF JobsReal, Here, Busy, Points
    <2>3. worker' \in [Workers -> Worker] /\ ClosedLast'
      BY <2>1, <2>2, IdleFacts, WorkerTurns DEF channels
    <2>4. errors' \subseteq Jobs
      BY <1>1, <2>1, <2>2 DEF Worker
    <2>. QED  BY <1>1, <2>1, <2>3, <2>4 DEF Typed, TypeOK, list, channels
  <1>11. CASE StoreResult(w)
    <2>1. /\ Here(w, "store") /\ Cardinality(results) < ResultQueueLimit
          /\ results' = results \cup {worker[w].job} /\ worker' = [worker EXCEPT ![w] = Idle]
          /\ UNCHANGED <<config, MaxRetry, errors, jobs, running, list, received, retries, past>>
          /\ deleted' \subseteq deleted \cup {worker[w].job}
      BY <1>11 DEF StoreResult, Becomes
    <2>2. ~Here(w, "gone") /\ worker[w].job \in Jobs
      BY <2>1 DEF JobsReal, Here, Busy, Points
    <2>3. worker' \in [Workers -> Worker] /\ ClosedLast'
      BY <2>1, <2>2, IdleFacts, WorkerTurns
    <2>4. results' \in SUBSET Jobs /\ results \in SUBSET Jobs
      BY <1>1, <2>1, <2>2 DEF TypeOK
    <2>5. Cardinality(results') <= ResultQueueLimit
      BY <2>1, <2>2, <2>4, ResultsFinite, LimitsAssumption
    <2>. QED  BY <1>1, <2>1, <2>3, <2>4, <2>5 DEF Typed, TypeOK, list
  <1>. QED  BY <1>2, <1>3, <1>4, <1>5, <1>6, <1>7, <1>8, <1>9, <1>10, <1>11 DEF WorkerStep

LEMMA ClientStepTyped ==
  ASSUME Typed, JobsReal, ClientStep
  PROVE  Typed'
  <1>1. TypeOK /\ ClosedLast /\ client.job \in Sent /\ client.got \in Error
    BY DEF Typed, TypeOK, Client
  <1>2. ASSUME UNCHANGED <<running, worker>>
        PROVE  ClosedLast'
    BY <1>1, <1>2 DEF ClosedLast, Here
  <1>3. CASE ListNext
    <2>1. /\ listed' \in 0..Listed
          /\ \E j \in Sent, e \in Error : client' = [at |-> "isError", job |-> j, got |-> e]
      <3>1. CASE listed < Listed /\ listed' = listed + 1 /\ ClientGoes("isError", listed', "nil")
        <4>1. listed' \in 0..Listed /\ listed' \in Sent /\ "nil" \in Error
          BY <1>1, <3>1, ListedAssumption DEF TypeOK, Sent, Jobs, Error
        <4>. QED  BY <3>1, <4>1 DEF ClientGoes
      <3>2. CASE \E e \in {"done", "listing"} : UNCHANGED listed /\ ClientGoes("isError", NilJob, e)
        BY <1>1, <3>2 DEF TypeOK, Sent, Error, ClientGoes
      <3>. QED  BY <1>3, <3>1, <3>2 DEF ListNext
    <2>2. client' \in Client
      BY <2>1, ClientTyped
    <2>3. err' \in Error
      BY <1>3, <2>2 DEF ListNext, Client
    <2>. QED  BY <1>1, <1>2, <1>3, <2>1, <2>2, <2>3 DEF ListNext, Typed, TypeOK, channels
  <1>4. ASSUME NEW at, NEW holds, NEW yes, NEW no,
               yes \in {"isNotDone", "failed", "errors"}, no \in {"isDone", "send"}, Reads(at, holds, yes, no)
        PROVE  Typed'
    <2>1. PICK to \in {"isNotDone", "failed", "errors", "isDone", "send"} : client' = [client EXCEPT !.at = to]
      BY <1>4 DEF Reads
    <2>2. client' \in Client
      BY <1>1, <2>1 DEF TypeOK, Client, Ends
    <2>3. past' \subseteq {"torn", "overlapped", "panicked", "crashed"}
      BY <1>1, <1>4 DEF Reads, Happens, TypeOK
    <2>. QED  BY <1>1, <1>2, <1>4, <2>2, <2>3 DEF Reads, Typed, TypeOK, channels
  <1>5. CASE ListSafely
    <2>1. listed' \in 0..Listed /\ client' \in Client
      <3>1. CASE listed = Listed
        BY <1>1, <1>5, <3>1, ClientTyped DEF ListSafely, TypeOK
      <3>2. CASE listed # Listed
        <4>1. listed' = listed + 1 /\ client' = [at |-> "send", job |-> listed', got |-> "nil"]
          BY <1>5, <3>2 DEF ListSafely, ClientGoes
        <4>2. listed' \in 0..Listed /\ listed' \in Sent /\ "nil" \in Error
          BY <1>1, <3>2, <4>1, ListedAssumption DEF TypeOK, Sent, Jobs, Error
        <4>. QED  BY <4>1, <4>2, ClientTyped
      <3>. QED  BY <3>1, <3>2
    <2>. QED  BY <1>1, <1>2, <1>5, <2>1 DEF ListSafely, Typed, TypeOK, channels
  <1>6. CASE SendJobs
    <2>1. jobs' \in Seq(Sent) /\ Len(jobs') <= JobQueueLimit
      BY <1>1, <1>6, QueueFacts, LimitsAssumption DEF SendJobs, CanSend, TypeOK
    <2>2. client' \in Client
      BY <1>1, <1>6, ClientTyped DEF SendJobs
    <2>. QED  BY <1>1, <1>2, <1>6, <2>1, <2>2 DEF SendJobs, Typed, TypeOK
  <1>7. ASSUME NEW at, NEW next \in {"drain", "read"}, Receive(at, next)
        PROVE  Typed'
    <2>1. PICK j \in results : results' = results \ {j} /\ received' = received \cup {j}
      BY <1>7 DEF Receive
    <2>2. results \in SUBSET Jobs
      BY <1>1 DEF TypeOK
    <2>3. Cardinality(results') <= ResultQueueLimit
      BY <1>1, <2>1, <2>2, ResultsFinite, LimitsAssumption DEF TypeOK
    <2>4. client' \in Client
      BY <1>1, <1>7, ClientTyped DEF Receive
    <2>. QED  BY <1>1, <1>2, <1>7, <2>1, <2>3, <2>4 DEF Receive, Typed, TypeOK
  <1>8. ASSUME NEW at, NEW next \in {"drain", "errors", "read"} \cup Ends, Moves(at, next)
        PROVE  Typed'
    <2>1. client' \in Client
      BY <1>1, <1>8, ClientTyped DEF Moves
    <2>. QED  BY <1>1, <1>2, <1>8, <2>1 DEF Moves, Typed, TypeOK, channels
  <1>9. CASE ReadsErr
    BY <1>4, <1>9 DEF ReadsErr, AtDone
  <1>10. CASE Close \/ Errors
    BY <1>7, <1>8, <1>10 DEF Close, Errors
  <1>11. CASE ReturnErrors
    BY <1>8, <1>11 DEF ReturnErrors, Ends
  <1>. QED  BY <1>3, <1>5, <1>6, <1>9, <1>10, <1>11 DEF ClientStep

-----------------------------------------------------------------------------
(* The moves of a worker                                                     *)

LEMMA WorkerMoves ==
  ASSUME TypeOK, NEW w \in Workers
  PROVE  /\ WorkerStep(w) /\ ~Crash(w) => \A v \in Workers \ {w} : worker'[v] = worker[v]
         /\ Take(w) => worker'[w].at = "call" /\ worker'[w].job = Head(jobs)
         /\ Leave(w) => worker'[w].at = "gone"
         /\ Call(w) /\ user = "Close" => worker'[w].at \in {"store", "failed"} /\ worker'[w].job = worker[w].job
         /\ Call(w) /\ user # "Close" =>
              /\ worker'[w].at = "assign" /\ worker'[w].job = worker[w].job
         /\ Assign(w) => /\ worker'[w].at = "check" /\ worker'[w].job = worker[w].job
                        /\ worker'[w].got = worker[w].got
         /\ Check(w) => worker'[w].at = Outcome /\ worker'[w].job = worker[w].job /\ worker'[w].got = worker[w].got
         /\ Read(w) => /\ worker'[w].at \in {"load", "read", "retry", "append"} /\ worker'[w].job = worker[w].job
                      /\ worker[w].at \in {"failed", "load", "read"}
         /\ Retry(w) => worker'[w].at = "call" /\ worker'[w].job = worker[w].job
         /\ AppendError(w) \/ StoreResult(w) => worker'[w] = Idle
  <1>1. worker[w] \in Worker /\ worker \in [Workers -> Worker]
    BY DEF TypeOK
  <1>2. ASSUME WorkerStep(w), ~Crash(w)
        PROVE  \A v \in Workers \ {w} : worker'[v] = worker[v]
    <2>1. \E r : worker' = [worker EXCEPT ![w] = r]
      BY <1>2 DEF WorkerStep, Take, Leave, RemoveWorker, Call, Assign, Check, Read, Retry, Again, AppendError, AfterError,
                  StoreResult, Goto, Becomes
    <2>. QED  BY <1>1, <2>1
  <1>3. ASSUME Take(w)
        PROVE  worker'[w].at = "call" /\ worker'[w].job = Head(jobs)
    <2>1. worker'[w] = [Idle EXCEPT !.at = "call", !.job = Head(jobs)]
      BY <1>1, <1>3 DEF Take, Becomes
    <2>2. Head(jobs) \in Sent
      BY <1>3, QueueFacts DEF Take
    <2>. QED  BY <2>1, <2>2, IdleFacts
  <1>4. ASSUME NEW at \in Points, Goto(w, at)
        PROVE  worker'[w].at = at /\ worker'[w].job = worker[w].job /\ worker'[w].got = worker[w].got
    BY <1>1, <1>4, GotoFacts DEF Goto, Becomes
  <1>5. Leave(w) => worker'[w].at = "gone"
    BY <1>4 DEF Leave, RemoveWorker, Points
  <1>6. Call(w) /\ user = "Close" => worker'[w].at \in {"store", "failed"} /\ worker'[w].job = worker[w].job
    BY <1>4 DEF Call, Points
  <1>7. ASSUME Call(w), user # "Close"
        PROVE  worker'[w].at = "assign" /\ worker'[w].job = worker[w].job
    <2>1. PICK e \in {"nil", "deleting"} :
            worker' = [worker EXCEPT ![w] = [worker[w] EXCEPT !.at = "assign", !.got = e]]
      BY <1>7 DEF Call, Becomes
    <2>2. worker'[w] = [worker[w] EXCEPT !.at = "assign", !.got = e]
      BY <1>1, <2>1
    <2>3. worker'[w].at = "assign" /\ worker'[w].got = e /\ worker'[w].job = worker[w].job
      BY <1>1, <2>2 DEF Worker
    <2>. QED  BY <2>1, <2>3
  <1>8. Assign(w) => worker'[w].at = "check" /\ worker'[w].job = worker[w].job /\ worker'[w].got = worker[w].got
    BY <1>4 DEF Assign, Points
  <1>9. Check(w) => worker'[w].at = Outcome /\ worker'[w].job = worker[w].job /\ worker'[w].got = worker[w].got
    BY <1>4 DEF Check, Outcome, Points
  <1>10. ASSUME Read(w)
         PROVE  /\ worker'[w].at \in {"load", "read", "retry", "append"} /\ worker'[w].job = worker[w].job
                /\ worker[w].at \in {"failed", "load", "read"}
    <2>1. CASE \E at \in {"load", "read"} : Goto(w, at) /\ Here(w, "failed")
      BY <1>4, <2>1 DEF Here, Points
    <2>2. CASE Here(w, "load") /\ Becomes(w, [worker[w] EXCEPT !.at = "retry", !.value = MaxRetry])
      <3>1. worker'[w] = [worker[w] EXCEPT !.at = "retry", !.value = MaxRetry]
        BY <1>1, <2>2 DEF Becomes
      <3>. QED  BY <1>1, <2>2, <3>1 DEF Worker, Here
    <2>3. CASE Here(w, "read") /\ Becomes(w, [worker[w] EXCEPT !.at = "append", !.list = errors])
      <3>1. worker'[w] = [worker[w] EXCEPT !.at = "append", !.list = errors]
        BY <1>1, <2>3 DEF Becomes
      <3>. QED  BY <1>1, <2>3, <3>1 DEF Worker, Here
    <2>. QED  BY <1>10, <2>1, <2>2, <2>3 DEF Read
  <1>11. ASSUME Retry(w)
         PROVE  worker'[w].at = "call" /\ worker'[w].job = worker[w].job
    <2>1. worker'[w] = [worker[w] EXCEPT !.at = "call", !.value = 0]
      BY <1>1, <1>11 DEF Retry, Again, Becomes
    <2>. QED  BY <1>1, <2>1 DEF Worker
  <1>12. AppendError(w) \/ StoreResult(w) => worker'[w] = Idle
    BY <1>1 DEF AppendError, AfterError, StoreResult, Becomes
  <1>. QED  BY <1>2, <1>3, <1>5, <1>6, <1>7, <1>8, <1>9, <1>10, <1>11, <1>12

(* Nothing that happened is undone, and a worker leaves the list alone.      *)
LEMMA WorkerKeeps ==
  ASSUME NEW w \in Workers, WorkerStep(w)
  PROVE  /\ client' = client /\ listed' = listed /\ received' = received /\ config' = config
         /\ past \subseteq past' /\ deleted \subseteq deleted'
         /\ Take(w) \/ jobs' = jobs
  BY DEF WorkerStep, Take, Leave, Crash, Call, Assign, Check, Read, Retry, AppendError, StoreResult, list, channels, Happens

LEMMA WorkerStepReal ==
  ASSUME TypeOK, JobsReal, NEW w \in Workers, WorkerStep(w)
  PROVE  JobsReal'
  <1>1. user' = user /\ client' = client /\ (Safe' => Safe) /\ worker[w] \in Worker
    BY WorkerKeeps DEF Safe, user, TypeOK
  <1>2. Queued' \subseteq Queued
    BY WorkerKeeps, QueueFacts DEF Take, Queued
  <1>3. ASSUME \A v \in Workers \ {w} : worker'[v] = worker[v],
               worker'[w].at \in Busy \ {"call"} => worker'[w].job \in Jobs,
               Safe /\ worker'[w].at = "call" => worker'[w].job \in Jobs
        PROVE  JobsReal'
    BY <1>1, <1>2, <1>3 DEF JobsReal, Here
  <1>4. CASE Crash(w)
    BY <1>1, <1>2, <1>4 DEF Crash, JobsReal, Here
  <1>5. CASE Take(w)
    <2>1. Safe => Head(jobs) \in Jobs
      BY <1>5, QueueFacts DEF Take, JobsReal, Sent
    <2>. QED  BY <1>3, <1>5, <2>1, WorkerMoves DEF WorkerStep, Take, Busy, Crash, Here
  <1>6. CASE Leave(w) \/ AppendError(w) \/ StoreResult(w)
    <2>1. worker'[w].at \in {"gone", "idle"}
      BY <1>6, WorkerMoves, IdleFacts
    <2>2. ~Crash(w) \/ worker' = worker
      BY DEF Crash
    <2>. QED  BY <1>3, <2>1, <2>2, WorkerMoves DEF Busy
  <1>7. CASE Call(w)
    <2>1. worker[w].job \in Jobs
      <3>1. CASE user = "Close"
        BY <1>7, <3>1 DEF Call, JobsReal, Safe
      <3>2. CASE user # "Close"
        BY <1>1, <1>7, <3>2 DEF Call, Worker, Sent
      <3>. QED  BY <3>1, <3>2
    <2>2. worker'[w].job = worker[w].job /\ worker'[w].at # "call"
      BY <1>7, WorkerMoves
    <2>3. ~Crash(w) \/ worker' = worker
      BY DEF Crash
    <2>. QED  BY <1>3, <2>1, <2>2, <2>3, WorkerMoves
  <1>8. CASE Assign(w) \/ Check(w) \/ Read(w) \/ Retry(w)
    <2>1. worker[w].job \in Jobs /\ ~Crash(w)
      BY <1>8, WorkerMoves DEF JobsReal, Here, Assign, Check, Retry, Busy, Points, Crash
    <2>2. worker'[w].job = worker[w].job
      BY <1>8, WorkerMoves
    <2>. QED  BY <1>3, <2>1, <2>2, WorkerMoves
  <1>. QED  BY <1>4, <1>5, <1>6, <1>7, <1>8 DEF WorkerStep

LEMMA ClientStepReal ==
  ASSUME TypeOK, JobsReal, ClientStep
  PROVE  JobsReal'
  <1>1. worker' = worker /\ config' = config /\ past \subseteq past' /\ client \in Client
    BY DEF ClientStep, ListNext, ReadsErr, ListSafely, SendJobs, Close, Errors, ReturnErrors, Reads, Receive, Moves,
           channels, Happens, TypeOK
  <1>2. user' = user /\ (Safe' => Safe)
    BY <1>1 DEF user, Safe
  <1>3. user \in {"DeleteLogs", "Close"}
    BY ConfigsAssumption DEF TypeOK, user
  <1>4. ASSUME jobs' = jobs,
               client'.at \in {"isError", "isNotDone", "isDone", "failed", "panicked"} => user = "DeleteLogs",
               client'.at \in {"isError", "isNotDone", "isDone"} => (client'.job = NilJob <=> client'.got # "nil"),
               Safe' => /\ client'.at = "send" => client'.job \in Jobs
                        /\ client'.at = "isNotDone" => client'.got # "nil"
                        /\ client'.at = "isDone" => client'.got \in {"nil", "done"}
        PROVE  JobsReal'
    <2>1. Queued' = Queued
      BY <1>4 DEF Queued
    <2>. QED  BY <1>1, <1>2, <1>4, <2>1 DEF JobsReal, Here
  <1>5. CASE ListNext
    <2>1. /\ client'.at = "isError" /\ user = "DeleteLogs" /\ jobs' = jobs
          /\ client'.job = NilJob <=> client'.got # "nil"
      BY <1>5, ListedAssumption DEF ListNext, ClientGoes, channels, NilJob, TypeOK
    <2>. QED  BY <1>4, <2>1
  <1>7. CASE ReadsErr
    <2>1. PICK to \in {"isNotDone", "failed", "isDone", "errors", "send"} : client' = [client EXCEPT !.at = to]
      BY <1>7 DEF ReadsErr, Reads, AtDone
    <2>2. client'.at = to /\ client'.job = client.job /\ client'.got = client.got
      BY <1>1, <2>1 DEF Client
    <2>3. /\ client.at \in {"isError", "isNotDone", "isDone"} /\ jobs' = jobs
          /\ past' = IF err # client.got THEN past \cup {"torn"} ELSE past
          /\ client.at = "isError" => client' = [client EXCEPT !.at = IF err # "nil" THEN "isNotDone" ELSE "isDone"]
          /\ client.at = "isNotDone" => client' = [client EXCEPT !.at = IF err # "done" THEN "failed" ELSE "isDone"]
          /\ client.at = "isDone" => client' = [client EXCEPT !.at = IF err = "done" THEN "errors" ELSE "send"]
      BY <1>7 DEF ReadsErr, Reads, AtDone, Happens, channels
    <2>4. /\ client.at = "isError" => to = IF err # "nil" THEN "isNotDone" ELSE "isDone"
          /\ client.at = "isNotDone" => to = IF err # "done" THEN "failed" ELSE "isDone"
          /\ client.at = "isDone" => to = IF err = "done" THEN "errors" ELSE "send"
      BY <1>1, <2>2, <2>3 DEF Client
    <2>5. user = "DeleteLogs" /\ (client.job = NilJob <=> client.got # "nil")
      BY <2>3 DEF JobsReal
    <2>6. Safe' => Safe /\ err = client.got
      BY <1>2, <2>3, <2>5 DEF Safe
    <2>7. Safe' => /\ to = "send" => client.job \in Jobs
                   /\ to = "isNotDone" => client.got # "nil"
                   /\ to = "isDone" => client.got \in {"nil", "done"}
      BY <1>1, <2>3, <2>4, <2>5, <2>6 DEF JobsReal, Client, Sent
    <2>. QED  BY <1>4, <2>2, <2>3, <2>5, <2>7
  <1>8. CASE ListSafely
    <2>1. user = "Close" /\ jobs' = jobs
      BY <1>8 DEF ListSafely, channels
    <2>2. client'.at = "close" \/ (client'.at = "send" /\ client'.job \in Jobs)
      <3>1. CASE listed = Listed
        BY <1>8, <3>1 DEF ListSafely, At
      <3>2. CASE listed # Listed
        BY <1>8, <3>2, ListedAssumption DEF ListSafely, ClientGoes, TypeOK, Jobs
      <3>. QED  BY <3>1, <3>2
    <2>. QED  BY <1>4, <2>1, <2>2
  <1>9. CASE SendJobs
    <2>1. client.at = "send" /\ Queued' = Queued \cup {client.job} /\ client'.at = "next"
      BY <1>1, <1>9, QueueFacts DEF SendJobs, At, Client
    <2>2. Safe' => NilJob \notin Queued'
      BY <1>2, <2>1 DEF JobsReal, Jobs, NilJob
    <2>. QED  BY <1>1, <1>2, <2>1, <2>2 DEF JobsReal, Here
  <1>10. CASE Close \/ Errors
    <2>1. client'.at \in {"drain", "errors", "read"} /\ jobs' = jobs
      BY <1>10 DEF Close, Errors, Moves, Receive, At, channels
    <2>. QED  BY <1>4, <2>1
  <1>11. CASE ReturnErrors
    <2>1. /\ jobs' = jobs /\ client'.at \in {"panicked", "returned"}
          /\ client'.at = "panicked" => user = "DeleteLogs"
      BY <1>11 DEF ReturnErrors, Moves, At, channels
    <2>. QED  BY <1>4, <2>1
  <1>. QED  BY <1>5, <1>7, <1>8, <1>9, <1>10, <1>11 DEF ClientStep

-----------------------------------------------------------------------------
(* What the user learns                                                      *)

(* DeleteLogs has a result when it returns, and unless it is misled results  *)
(* are sent of objects whose deletion was answered without an error.         *)
Honest(w) == worker[w].at = "store" => worker[w].got = "nil"
DeleteInv ==
  user = "DeleteLogs" =>
    /\ \A w \in Workers : ~Here(w, "gone")
    /\ client.at \notin {"close", "drain"}
    /\ client.at \in {"read", "returned", "panicked"} => received # {}
    /\ "torn" \notin past =>
         /\ results \cup received \subseteq deleted
         /\ \A w \in Workers : Honest(w)
         /\ Alive

(* Where a job of the caller who closes the pool is.                         *)
Kept(j) ==
  \/ j \in Queued \cup results \cup received \cup errors
  \/ client.at = "send" /\ client.job = j
  \/ \E w \in Workers : worker[w].at \in Busy /\ worker[w].job = j
CloseInv ==
  user = "Close" =>
    /\ client.at \notin {"next", "send"} => listed = Listed
    /\ past = {} =>
         /\ \A j \in 1..listed : Kept(j)
         /\ (\E w \in Workers : Here(w, "gone")) => jobs = <<>> /\ jobsClosed
         /\ client.at \in {"errors", "read", "returned"} => results = {} /\ \A w \in Workers : Here(w, "gone")

IInv == Typed /\ JobsReal /\ RetriesKept /\ DeleteInv /\ CloseInv

LEMMA WorkerStepRetries ==
  ASSUME TypeOK, RetriesKept, NEW w \in Workers, WorkerStep(w)
  PROVE  RetriesKept'
  <1>1. retries \in Nat /\ MaxRetry \in Int /\ worker[w].value \in Int /\ config.MaxRetry \in Nat
    BY ConfigsAssumption DEF TypeOK, Worker
  <1>2. CASE Retry(w)
    <2>1. /\ config' = config /\ retries' = retries + 1 /\ MaxRetry' = worker[w].value - 1
          /\ past' = IF worker[w].value # MaxRetry \/ worker[w].value < 1 THEN past \cup {"overlapped"} ELSE past
      BY <1>2 DEF Retry, Again, Happens
    <2>. QED  BY <1>1, <2>1 DEF RetriesKept
  <1>3. CASE ~Retry(w)
    <2>1. UNCHANGED <<config, MaxRetry, retries>> /\ past \subseteq past'
      BY <1>3 DEF WorkerStep, Take, Leave, Crash, Call, Assign, Check, Read, AppendError, StoreResult, Happens
    <2>. QED  BY <2>1 DEF RetriesKept
  <1>. QED  BY <1>2, <1>3

LEMMA WorkerStepDeletes ==
  ASSUME TypeOK, JobsReal, DeleteInv, NEW w \in Workers, WorkerStep(w)
  PROVE  DeleteInv'
  <1> SUFFICES ASSUME user' = "DeleteLogs"
               PROVE  DeleteInv'
    BY DEF DeleteInv
  <1>1. /\ user = "DeleteLogs" /\ client' = client /\ received' = received
        /\ ("torn" \notin past' => "torn" \notin past) /\ deleted \subseteq deleted'
    BY WorkerKeeps DEF user
  <1>2. ASSUME ~Here(w, "gone")', \A v \in Workers \ {w} : worker'[v] = worker[v],
               "crashed" \in past' => "crashed" \in past,
               "torn" \notin past' => results' \subseteq deleted',
               "torn" \notin past' => Honest(w)'
        PROVE  DeleteInv'
    <2>1. \A v \in Workers : ~Here(v, "gone")'
      BY <1>1, <1>2 DEF DeleteInv, Here
    <2>2. /\ client'.at \notin {"close", "drain"}
          /\ client'.at \in {"read", "returned", "panicked"} => received' # {}
      BY <1>1 DEF DeleteInv
    <2>3. ASSUME "torn" \notin past'
          PROVE  results' \cup received' \subseteq deleted'
      <3>1. received \subseteq deleted
        BY <1>1, <2>3 DEF DeleteInv
      <3>2. received' \subseteq deleted'
        BY <1>1, <3>1
      <3>3. results' \subseteq deleted'
        BY <1>2, <2>3
      <3>. QED  BY <3>2, <3>3
    <2>4. ASSUME "torn" \notin past', NEW v \in Workers
          PROVE  Honest(v)'
      BY <1>1, <1>2, <2>4 DEF DeleteInv, Honest
    <2>5. "torn" \notin past' => Alive'
      BY <1>1, <1>2 DEF DeleteInv, Alive
    <2>. QED  BY <2>1, <2>2, <2>3, <2>4, <2>5 DEF DeleteInv
  <1>3. CASE Crash(w)
    <2>1. /\ worker' = worker /\ results' = results /\ deleted' = deleted /\ past \subseteq past'
          /\ worker[w].at = "call" /\ worker[w].job = NilJob
      BY <1>1, <1>3 DEF Crash, Here, channels
    <2>2. "torn" \in past'
      BY <2>1 DEF JobsReal, Safe, Here, Jobs, NilJob
    <2>. QED  BY <1>1, <2>1, <2>2 DEF DeleteInv, Here
  <1>4. ~Leave(w) /\ (~Crash(w) => ("crashed" \in past' => "crashed" \in past))
    BY <1>1 DEF WorkerStep, Take, Leave, Call, Assign, Check, Read, Retry, AppendError, StoreResult, Happens, jobsClosed
  <1>5. CASE Take(w) \/ Read(w) \/ Retry(w) \/ AppendError(w)
    <2>1. worker'[w].at \in {"call", "load", "read", "retry", "append", "idle"} /\ ~Crash(w)
      BY <1>5, WorkerMoves, IdleFacts DEF Take, Read, Retry, AppendError, Crash, Here
    <2>2. results' = results
      BY <1>5 DEF Take, Read, Retry, AppendError, channels
    <2>. QED  BY <1>1, <1>2, <1>4, <2>1, <2>2, WorkerMoves DEF Here, Honest, DeleteInv
  <1>6. CASE Call(w) /\ ~Crash(w)
    <2>1. worker'[w].at = "assign" /\ results' = results
      BY <1>1, <1>6, WorkerMoves DEF Call, channels
    <2>. QED  BY <1>1, <1>2, <1>4, <1>6, <2>1, WorkerMoves DEF Here, Honest, DeleteInv
  <1>7. CASE Assign(w)
    <2>1. /\ worker'[w].at = "check" /\ worker'[w].got = worker[w].got /\ worker'[w].job = worker[w].job
          /\ worker[w].at = "assign" /\ results' = results /\ ~Crash(w)
      BY <1>7, WorkerMoves DEF Assign, Here, Crash, channels
    <2>. QED  BY <1>1, <1>2, <1>4, <2>1, WorkerMoves DEF Here, Honest, DeleteInv
  <1>8. CASE Check(w)
    <2>1. /\ worker'[w].at = Outcome /\ worker'[w].job = worker[w].job
          /\ worker[w].at = "check" /\ results' = results /\ ~Crash(w)
          /\ past' = IF err # worker[w].got THEN past \cup {"torn"} ELSE past
      BY <1>8, WorkerMoves DEF Check, Here, Crash, Happens, channels
    <2>2. worker'[w].at # "gone" /\ (worker'[w].at = "store" => err = "nil") /\ worker'[w].got = worker[w].got
      BY <1>8, <2>1, WorkerMoves DEF Outcome
    <2>3. "torn" \notin past' => Honest(w)'
      BY <2>1, <2>2 DEF Honest
    <2>4. "torn" \notin past' => results' \subseteq deleted'
      BY <1>1, <2>1 DEF DeleteInv
    <2>. QED  BY <1>2, <1>4, <2>1, <2>2, <2>3, <2>4, WorkerMoves DEF Here
  <1>9. CASE StoreResult(w)
    <2>1. /\ worker'[w] = Idle /\ worker[w].at = "store" /\ results' = results \cup {worker[w].job} /\ ~Crash(w)
          /\ worker[w].got = "nil" => worker[w].job \in deleted'
      BY <1>1, <1>9, WorkerMoves DEF StoreResult, Here, Crash
    <2>2. "torn" \notin past' => results' \subseteq deleted'
      BY <1>1, <2>1 DEF Honest, DeleteInv
    <2>. QED  BY <1>2, <1>4, <2>1, <2>2, WorkerMoves, IdleFacts DEF Here, Honest
  <1>. QED  BY <1>3, <1>4, <1>5, <1>6, <1>7, <1>8, <1>9 DEF WorkerStep

LEMMA ClientStepDeletes ==
  ASSUME Typed, JobsReal, DeleteInv, ClientStep
  PROVE  DeleteInv'
  <1>1. worker' = worker /\ config' = config /\ past \subseteq past' /\ deleted' = deleted /\ client \in Client
    BY DEF ClientStep, ListNext, ReadsErr, ListSafely, SendJobs, Close, Errors, ReturnErrors, Reads, Receive, Moves,
           channels, Happens, Typed, TypeOK
  <1>2. user' = user /\ ("crashed" \in past' => "crashed" \in past)
    BY <1>1 DEF user, ClientStep, ListNext, ReadsErr, ListSafely, SendJobs, Close, Errors, ReturnErrors, Reads, Receive,
                Moves, Happens
  <1>3. ASSUME client'.at \notin {"close", "drain"} \/ user # "DeleteLogs",
               user = "DeleteLogs" /\ client'.at \in {"read", "returned", "panicked"} => received' # {},
               results' \cup received' \subseteq results \cup received
        PROVE  DeleteInv'
    <2>1. ASSUME user = "DeleteLogs", "torn" \notin past'
          PROVE  results' \cup received' \subseteq deleted' /\ Alive' /\ \A w \in Workers : Honest(w)'
      <3>1. results \cup received \subseteq deleted /\ Alive /\ \A w \in Workers : Honest(w)
        BY <1>1, <2>1 DEF DeleteInv
      <3>2. results' \cup received' \subseteq deleted'
        BY <1>1, <1>3, <3>1
      <3>. QED  BY <1>1, <1>2, <3>1, <3>2 DEF Alive, Honest
    <2>2. ASSUME user = "DeleteLogs"
          PROVE  /\ \A w \in Workers : ~Here(w, "gone")'
                 /\ client'.at \notin {"close", "drain"}
                 /\ client'.at \in {"read", "returned", "panicked"} => received' # {}
      BY <1>1, <1>3, <2>2 DEF DeleteInv, Here
    <2>. QED  BY <1>2, <2>1, <2>2 DEF DeleteInv
  <1>4. CASE ListNext
    <2>1. client'.at = "isError" /\ UNCHANGED <<results, received>>
      BY <1>4 DEF ListNext, ClientGoes, channels
    <2>. QED  BY <1>3, <2>1
  <1>5. CASE ReadsErr
    <2>1. PICK to \in {"isNotDone", "failed", "isDone", "errors", "send"} : client' = [client EXCEPT !.at = to]
      BY <1>5 DEF ReadsErr, Reads, AtDone
    <2>2. client'.at = to /\ UNCHANGED <<results, received>>
      BY <1>1, <1>5, <2>1 DEF Client, ReadsErr, Reads, channels
    <2>. QED  BY <1>3, <2>2
  <1>6. CASE ListSafely
    <2>1. user = "Close"
      BY <1>6 DEF ListSafely
    <2>. QED  BY <1>2, <2>1 DEF DeleteInv
  <1>7. CASE SendJobs
    <2>1. client'.at = "next" /\ UNCHANGED <<results, received>>
      BY <1>7 DEF SendJobs, At
    <2>. QED  BY <1>3, <2>1
  <1>8. CASE Close
    <2>1. client.at \in {"close", "drain"}
      BY <1>8 DEF Close, Moves, Receive
    <2>. QED  BY <1>2, <2>1 DEF DeleteInv
  <1>9. CASE Errors
    <2>1. client'.at = "read"
      BY <1>9 DEF Errors, Moves, Receive, At
    <2>2. results' \cup received' \subseteq results \cup received
      BY <1>9 DEF Errors, Moves, Receive, channels
    <2>3. ASSUME user = "DeleteLogs"
          PROVE  received' # {}
      <3>1. \A w \in Workers : ~Here(w, "gone")
        BY <2>3 DEF DeleteInv
      <3>2. running # 0
        BY <3>1, LeftFinite, SizeAssumption DEF Left
      <3>. QED  BY <1>9, <3>2 DEF Errors, Receive
    <2>. QED  BY <1>3, <2>1, <2>2, <2>3
  <1>10. CASE ReturnErrors
    <2>1. /\ client.at = "read" /\ client'.at \in {"panicked", "returned"}
          /\ UNCHANGED <<results, received>>
      BY <1>10 DEF ReturnErrors, Moves, At, channels
    <2>. QED  BY <1>3, <2>1 DEF DeleteInv
  <1>. QED  BY <1>4, <1>5, <1>6, <1>7, <1>8, <1>9, <1>10 DEF ClientStep

LEMMA WorkerStepCloses ==
  ASSUME TypeOK, JobsReal, CloseInv, NEW w \in Workers, WorkerStep(w)
  PROVE  CloseInv'
  <1> SUFFICES ASSUME user' = "Close"
               PROVE  CloseInv'
    BY DEF CloseInv
  <1>1. /\ user = "Close" /\ client' = client /\ listed' = listed /\ received' = received
        /\ (past' = {} => past = {}) /\ ~Here(w, "gone")
    BY WorkerKeeps DEF user, WorkerStep, Take, Leave, Crash, Call, Assign, Check, Read, Retry, AppendError, StoreResult, Here
  <1>2. jobsClosed' = jobsClosed
    BY <1>1, WorkerKeeps DEF jobsClosed, user
  <1>3. client'.at \notin {"next", "send"} => listed' = Listed
    BY <1>1 DEF CloseInv
  <1>4. past' = {} => client'.at \notin {"errors", "read", "returned"}
    BY <1>1 DEF CloseInv
  <1>5. ASSUME past' = {}
        PROVE  (\E v \in Workers : Here(v, "gone"))' => jobs' = <<>> /\ jobsClosed'
    <2>1. CASE Leave(w)
      BY <1>1, <1>2, <1>5, <2>1 DEF Leave
    <2>2. CASE ~Leave(w) /\ ~Crash(w)
      <3>1. worker'[w].at # "gone"
        BY <2>2, WorkerMoves, IdleFacts DEF WorkerStep, Outcome
      <3>2. (\E v \in Workers : Here(v, "gone"))' => \E v \in Workers : Here(v, "gone")
        BY <2>2, <3>1, WorkerMoves DEF Here
      <3>3. Take(w) => jobs # <<>>
        BY DEF Take
      <3>4. (\E v \in Workers : Here(v, "gone")) => jobs = <<>> /\ jobsClosed
        BY <1>1, <1>5 DEF CloseInv
      <3>. QED  BY <1>2, <3>2, <3>3, <3>4, WorkerKeeps
    <2>3. ~Crash(w)
      BY <1>5 DEF Crash
    <2>. QED  BY <2>1, <2>2, <2>3
  <1>6. ASSUME past' = {}, NEW j \in 1..listed
        PROVE  Kept(j)'
    <2>1. Kept(j) /\ ~Crash(w)
      BY <1>1, <1>6 DEF CloseInv, Crash
    <2>2. j # NilJob
      BY DEF NilJob, TypeOK
    <2>3. CASE \E v \in Workers \ {w} : worker[v].at \in Busy /\ worker[v].job = j
      BY <2>1, <2>3, WorkerMoves DEF Kept
    <2>4. CASE client.at = "send" /\ client.job = j
      BY <1>1, <2>4 DEF Kept
    <2>5. ASSUME worker'[w].at \in Busy, worker'[w].job = worker[w].job, worker[w].at \in Busy,
                 UNCHANGED <<jobs, results, errors>>
          PROVE  Kept(j)'
      <3>1. Queued' = Queued
        BY <2>5 DEF Queued
      <3>. QED  BY <1>1, <2>1, <2>3, <2>4, <2>5, <3>1 DEF Kept
    <2>6. ASSUME worker[w].at = "idle", UNCHANGED <<results, errors>>,
                 Queued' = Queued \/ (worker'[w].at \in Busy /\ Queued \subseteq Queued' \cup {worker'[w].job})
          PROVE  Kept(j)'
      <3>1. worker[w].at \notin Busy
        BY <2>6 DEF Busy
      <3>. QED  BY <1>1, <2>1, <2>3, <2>4, <2>6, <3>1 DEF Kept
    <2>7. CASE Take(w)
      <3>1. worker[w].at = "idle" /\ UNCHANGED <<results, errors>> /\ worker'[w].at \in Busy
        BY <2>7, WorkerMoves DEF Take, Here, Busy, Points
      <3>2. Queued \subseteq Queued' \cup {worker'[w].job}
        BY <2>7, WorkerMoves, QueueFacts DEF Take
      <3>. QED  BY <2>6, <3>1, <3>2
    <2>8. CASE Leave(w)
      BY <1>6, <2>6, <2>8 DEF Leave, Here, Queued
    <2>9. CASE Call(w) \/ Assign(w) \/ Check(w) \/ Read(w) \/ Retry(w)
      <3>1. worker'[w].at \in Busy /\ worker'[w].job = worker[w].job
        BY <1>1, <2>9, WorkerMoves DEF Busy, Points, Outcome
      <3>2. worker[w].at \in Busy
        BY <2>9, WorkerMoves DEF Call, Assign, Check, Retry, Here, Busy, Points
      <3>3. UNCHANGED <<jobs, results, errors>>
        BY <2>9 DEF Call, Assign, Check, Read, Retry, channels
      <3>. QED  BY <2>5, <3>1, <3>2, <3>3
    <2>10. CASE AppendError(w) \/ StoreResult(w)
      <3>1. Queued' = Queued
        BY <2>10 DEF AppendError, StoreResult, Queued, channels
      <3>2. worker[w].job \in results' \cup errors' /\ results \subseteq results' /\ errors \subseteq errors'
        BY <1>6, <2>10 DEF AppendError, StoreResult, Happens, channels
      <3>. QED  BY <1>1, <2>1, <2>3, <2>4, <3>1, <3>2 DEF Kept
    <2>. QED  BY <2>1, <2>7, <2>8, <2>9, <2>10 DEF WorkerStep
  <1>. QED  BY <1>1, <1>3, <1>4, <1>5, <1>6 DEF CloseInv

LEMMA ClientStepCloses ==
  ASSUME Typed, JobsReal, CloseInv, ClientStep
  PROVE  CloseInv'
  <1> SUFFICES ASSUME user' = "Close"
               PROVE  CloseInv'
    BY DEF CloseInv
  <1>1. /\ user = "Close" /\ worker' = worker /\ errors' = errors /\ (past' = {} => past = {})
        /\ client \in Client /\ config' = config
    BY DEF ClientStep, ListNext, ReadsErr, ListSafely, SendJobs, Close, Errors, ReturnErrors, Reads, Receive, Moves,
           channels, Happens, Typed, TypeOK, user
  <1>2. ~ListNext /\ ~ReadsErr
    BY <1>1 DEF ListNext, ReadsErr, Reads, JobsReal
  <1>3. jobsClosed => client.at \in {"drain", "errors", "read"} \cup Ends
    BY DEF jobsClosed
  <1>4. CASE ListSafely
    <2>1. client.at = "next" /\ UNCHANGED <<jobs, results, received, past>> /\ Queued' = Queued
      BY <1>4 DEF ListSafely, channels, Queued
    <2>2. past = {} => \A w \in Workers : ~Here(w, "gone")
      BY <1>1, <1>3, <2>1 DEF CloseInv, Ends
    <2>3. CASE listed = Listed
      <3>1. client'.at = "close" /\ listed' = listed
        BY <1>4, <2>3 DEF ListSafely, At
      <3>2. \A j \in 1..listed' : past = {} => Kept(j)'
        BY <1>1, <2>1, <3>1 DEF CloseInv, Kept
      <3>. QED  BY <1>1, <2>1, <2>2, <2>3, <3>1, <3>2 DEF CloseInv, Here
    <2>4. CASE listed # Listed
      <3>1. client'.at = "send" /\ client'.job = listed' /\ listed' = listed + 1
        BY <1>4, <2>4 DEF ListSafely, ClientGoes
      <3>2. ASSUME NEW j \in 1..listed', past = {}
            PROVE  Kept(j)'
        <4>1. j \in 1..listed \/ j = client'.job
          BY <3>1 DEF Typed, TypeOK
        <4>. QED  BY <1>1, <2>1, <3>1, <3>2, <4>1 DEF CloseInv, Kept
      <3>. QED  BY <1>1, <2>1, <2>2, <3>1, <3>2 DEF CloseInv, Here
    <2>. QED  BY <2>3, <2>4
  <1>5. CASE SendJobs
    <2>1. /\ client.at = "send" /\ client'.at = "next" /\ Queued' = Queued \cup {client.job}
          /\ UNCHANGED <<results, received, past, listed>>
      BY <1>1, <1>5, QueueFacts DEF SendJobs, At, Client, Typed
    <2>2. past = {} => \A w \in Workers : ~Here(w, "gone")
      BY <1>1, <1>3, <2>1 DEF CloseInv, Ends
    <2>3. \A j \in 1..listed' : past = {} => Kept(j)'
      BY <1>1, <2>1 DEF CloseInv, Kept
    <2>. QED  BY <1>1, <2>1, <2>2, <2>3 DEF CloseInv, Here
  <1>6. CASE Close \/ Errors \/ ReturnErrors
    <2>1. /\ client.at \in {"close", "drain", "errors", "read"}
          /\ client'.at \in {"drain", "errors", "read", "returned"}
          /\ UNCHANGED <<jobs, past, listed>> /\ Queued' = Queued
          /\ results' \subseteq results /\ results \cup received \subseteq results' \cup received'
      BY <1>1, <1>6 DEF Close, Errors, ReturnErrors, Receive, Moves, At, channels, Queued
    <2>2. past = {} /\ client'.at \in {"errors", "read", "returned"} => results' = {} /\ \A w \in Workers : Here(w, "gone")
      <3>1. CASE Close
        <4>1. client'.at = "errors" => results' = {} /\ running = 0
          BY <1>6, <3>1 DEF Close, Receive, Moves, At, channels
        <4>2. client'.at \in {"drain", "errors"}
          BY <3>1 DEF Close, Receive, Moves, At
        <4>. QED  BY <4>1, <4>2, LeftFinite DEF Left
      <3>2. CASE Errors \/ ReturnErrors
        <4>1. client.at \in {"errors", "read"}
          BY <3>2 DEF Errors, ReturnErrors, Receive, Moves
        <4>. QED  BY <1>1, <2>1, <4>1 DEF CloseInv
      <3>. QED  BY <1>6, <3>1, <3>2
    <2>3. jobsClosed'
      BY <1>1, <2>1 DEF jobsClosed, user, Ends
    <2>4. \A j \in 1..listed' : past = {} => Kept(j)'
      BY <1>1, <2>1 DEF CloseInv, Kept
    <2>. QED  BY <1>1, <2>1, <2>2, <2>3, <2>4 DEF CloseInv, Here
  <1>. QED  BY <1>2, <1>4, <1>5, <1>6 DEF ClientStep

-----------------------------------------------------------------------------
(* Theorems                                                                  *)

LEMMA InitInv == Init => IInv
  <1> SUFFICES ASSUME Init PROVE IInv
    OBVIOUS
  <1>1. Cardinality(Workers) \in Nat /\ Cardinality({}) = 0
    BY SizeAssumption, FS_CardinalityType, FS_EmptySet
  <1>2. /\ config \in Configs /\ MaxRetry = config.MaxRetry /\ errors = {} /\ jobs = <<>> /\ results = {}
        /\ running = Cardinality(Workers) /\ worker = [w \in Workers |-> Idle]
        /\ client = At("next") /\ listed = 0 /\ err = "nil" /\ received = {} /\ deleted = {} /\ retries = 0 /\ past = {}
    BY DEF Init
  <1>3. client \in Client /\ client.at = "next"
    BY <1>2, ClientTyped DEF At, Sent, Error
  <1>4. TypeOK
    <2>1. MaxRetry \in Int /\ listed \in 0..Listed /\ running \in 0..Cardinality(Workers) /\ retries \in Nat
      BY <1>1, <1>2, ConfigsAssumption, ListedAssumption
    <2>2. jobs \in Seq(Sent) /\ Len(jobs) <= JobQueueLimit /\ Cardinality(results) <= ResultQueueLimit
      BY <1>1, <1>2, LimitsAssumption
    <2>3. worker \in [Workers -> Worker]
      BY <1>2, IdleFacts
    <2>. QED  BY <1>2, <1>3, <2>1, <2>2, <2>3 DEF TypeOK, Error
  <1>5. \A w \in Workers : ~Here(w, "gone") /\ worker[w].at = "idle"
    BY <1>2, IdleFacts DEF Here
  <1>6. {w \in Workers : ~Here(w, "gone")} = Workers
    BY <1>5
  <1>7. ClosedLast
    BY <1>2, <1>6 DEF ClosedLast
  <1>8. Queued = {}
    BY <1>2 DEF Queued
  <1>9. JobsReal
    BY <1>3, <1>5, <1>8 DEF JobsReal, Here, Busy
  <1>10. RetriesKept
    BY <1>2, ConfigsAssumption DEF RetriesKept
  <1>11. DeleteInv
    BY <1>2, <1>3, <1>5 DEF DeleteInv, Honest, Alive
  <1>12. CloseInv
    BY <1>2, <1>3, <1>5 DEF CloseInv
  <1>. QED  BY <1>4, <1>7, <1>9, <1>10, <1>11, <1>12 DEF IInv, Typed

LEMMA ClientStepRetries ==
  ASSUME RetriesKept, ClientStep
  PROVE  RetriesKept'
  BY DEF RetriesKept, ClientStep, ListNext, ReadsErr, ListSafely, SendJobs, Close, Errors, ReturnErrors, Reads, Receive,
         Moves, Happens

LEMMA NextIInv ==
  ASSUME IInv, [Next]_vars
  PROVE  IInv'
  <1>1. CASE UNCHANGED vars
    <2> USE <1>1 DEF vars, channels, list
    <2>1. Typed'
      BY DEF IInv, Typed, TypeOK, ClosedLast, Here
    <2>2. JobsReal'
      BY DEF IInv, JobsReal, Safe, user, Queued, Here
    <2>3. RetriesKept'
      BY DEF IInv, RetriesKept
    <2>4. DeleteInv'
      BY DEF IInv, DeleteInv, Honest, Alive, Here, user
    <2>5. CloseInv'
      BY DEF IInv, CloseInv, Kept, Queued, jobsClosed, Here, user
    <2>. QED  BY <2>1, <2>2, <2>3, <2>4, <2>5 DEF IInv
  <1>2. CASE ClientStep
    BY <1>2, ClientStepTyped, ClientStepReal, ClientStepRetries, ClientStepDeletes, ClientStepCloses DEF IInv, Typed
  <1>3. ASSUME NEW w \in Workers, WorkerStep(w)
        PROVE  IInv'
    BY <1>3, WorkerStepTyped, WorkerStepReal, WorkerStepRetries, WorkerStepDeletes, WorkerStepCloses DEF IInv, Typed
  <1>. QED  BY <1>1, <1>2, <1>3 DEF Next

(* IInv is inductive; with it the channels stay within their limits and the  *)
(* results are closed exactly when no worker of startWorker is left.         *)
THEOREM PoolSafety == Spec => []IInv
  BY InitInv, NextIInv, PTL DEF Spec

(* The retries of a pool stay within MaxRetry, unless two workers read it    *)
(* before one of them has written it.                                        *)
THEOREM RetriesAreKept == Spec => []RetriesKept
  <1>1. IInv => RetriesKept
    BY DEF IInv
  <1>. QED  BY <1>1, PoolSafety, PTL

(* DeleteLogs returns no error only after it deleted an object, and what it  *)
(* was given as results is deleted, unless another worker's err misled it.   *)
THEOREM SuccessHasDeleted == Spec => []SuccessDeleted
  <1>1. IInv => SuccessDeleted
    BY DEF IInv, DeleteInv, SuccessDeleted
  <1>. QED  BY <1>1, PoolSafety, PTL

(* DeleteLogs ends the process only when it is misled by another worker's    *)
(* assignment of err.                                                        *)
THEOREM NilIsNotSent == Spec => []NilNotSent
  <1>1. IInv => NilNotSent
    BY DEF IInv, DeleteInv, JobsReal, Safe, NilNotSent
  <1>. QED  BY <1>1, PoolSafety, PTL

(* The caller who closes the pool has a result or an error of every job when *)
(* he has read the results and the errors.                                   *)
THEOREM NoJobForgotten == Spec => []NothingForgotten
  <1>1. ASSUME IInv, client.at = "returned", user = "Close", past = {}
        PROVE  received \cup errors = Jobs
    <2>1. /\ listed = Listed /\ results = {} /\ jobs = <<>> /\ \A w \in Workers : Here(w, "gone")
      BY <1>1, SizeAssumption DEF IInv, CloseInv
    <2>2. Queued = {}
      BY <2>1 DEF Queued
    <2>3. \A j \in Jobs : j \in received \cup errors
      BY <1>1, <2>1, <2>2 DEF IInv, CloseInv, Jobs, Kept, Here, Busy
    <2>4. received \cup errors \subseteq Jobs
      BY <1>1 DEF IInv, Typed, TypeOK
    <2>. QED  BY <2>3, <2>4
  <1>2. IInv => NothingForgotten
    BY <1>1 DEF NothingForgotten
  <1>. QED  BY <1>2, PoolSafety, PTL

-----------------------------------------------------------------------------
(* Deadlocks                                                                 *)

(* Workers leave when the jobs are closed, or with a panic; and unless       *)
(* DeleteLogs was misled no object is in two places.                         *)
GoneForAReason == \A w \in Workers : Here(w, "gone") => jobsClosed \/ "panicked" \in past
PlacesInv == IInv /\ GoneForAReason /\ ("torn" \notin past => InOnePlace)

LEMMA WorkerStepGone ==
  ASSUME IInv, GoneForAReason, NEW w \in Workers, WorkerStep(w)
  PROVE  GoneForAReason'
  <1>1. jobsClosed' = jobsClosed /\ past \subseteq past'
    BY WorkerKeeps DEF jobsClosed, user
  <1>2. CASE Leave(w)
    <2>1. jobsClosed' \/ "panicked" \in past'
      BY <1>1, <1>2 DEF Leave
    <2>. QED  BY <2>1 DEF GoneForAReason
  <1>3. CASE Crash(w)
    BY <1>1, <1>3 DEF Crash, GoneForAReason, Here
  <1>4. CASE ~Leave(w) /\ ~Crash(w)
    <2>1. worker'[w].at # "gone"
      BY <1>4, WorkerMoves, IdleFacts DEF WorkerStep, Outcome, IInv, Typed
    <2>. QED  BY <1>1, <1>4, <2>1, WorkerMoves DEF GoneForAReason, Here, IInv, Typed
  <1>. QED  BY <1>2, <1>3, <1>4

LEMMA ClientStepGone ==
  ASSUME IInv, GoneForAReason, ClientStep
  PROVE  GoneForAReason'
  <1>1. worker' = worker /\ config' = config /\ past \subseteq past'
    BY DEF ClientStep, ListNext, ReadsErr, ListSafely, SendJobs, Close, Errors, ReturnErrors, Reads, Receive, Moves,
           channels, Happens
  <1>2. jobsClosed => jobsClosed'
    <2> SUFFICES ASSUME user = "Close", client.at \in {"drain", "errors", "read"} \cup Ends
                 PROVE  client'.at \in {"drain", "errors", "read"} \cup Ends
      BY <1>1 DEF jobsClosed, user
    <2>. QED
      BY DEF ClientStep, ListNext, ReadsErr, ListSafely, SendJobs, Close, Errors, ReturnErrors, Reads, Receive, Moves,
             At, Ends
  <1>. QED  BY <1>1, <1>2 DEF GoneForAReason, Here

(* A worker keeps its job, or is done with it.                               *)
LEMMA WorkerWorks ==
  ASSUME IInv, InOnePlace, NEW w \in Workers, worker[w].at \notin {"idle", "gone"},
         \A v \in Workers \ {w} : worker'[v] = worker[v],
         worker'[w].at \notin {"idle", "gone"} => worker'[w].job = worker[w].job,
         UNCHANGED <<client, listed, jobs, results>>
  PROVE  InOnePlace'
  <1>1. Holding' \subseteq Holding /\ \A v \in Holding' : worker'[v].job = worker[v].job
    BY DEF Holding
  <1>2. Held' \subseteq Held
    BY <1>1 DEF Held
  <1>3. Queued' = Queued /\ InHand' = InHand
    BY DEF Queued, InHand
  <1>. QED  BY <1>1, <1>2, <1>3 DEF InOnePlace

LEMMA TakeMoves ==
  ASSUME IInv, InOnePlace, NEW w \in Workers, Take(w)
  PROVE  InOnePlace'
  <1> DEFINE j == Head(jobs)
  <1>1. /\ jobs # <<>> /\ jobs' = Tail(jobs) /\ jobs \in Seq(Sent) /\ worker[w].at = "idle"
        /\ UNCHANGED <<client, listed, results>>
    BY DEF Take, list, IInv, Typed, TypeOK, Here
  <1>2. /\ worker'[w].at = "call" /\ worker'[w].job = j
        /\ \A v \in Workers \ {w} : worker'[v] = worker[v]
    BY WorkerMoves DEF WorkerStep, Take, Crash, Here, IInv, Typed
  <1>3. /\ Len(jobs') = Len(jobs) - 1 /\ Len(jobs) \in Nat /\ j = jobs[1] /\ Len(jobs) >= 1
        /\ \A i \in 1..Len(jobs') : jobs'[i] = jobs[i + 1] /\ i + 1 \in 1..Len(jobs) /\ i + 1 # 1
    BY <1>1
  <1> HIDE DEF j
  <1>4. Queued' \subseteq Queued \ {j} /\ j \in Queued
    <2>1. \A i \in 1..Len(jobs') : jobs'[i] \in Queued /\ jobs'[i] # j
      BY <1>3 DEF InOnePlace, Queued
    <2>. QED  BY <1>3, <2>1 DEF Queued
  <1>5. Holding' = Holding \cup {w} /\ w \notin Holding
    BY <1>1, <1>2 DEF Holding
  <1>6. Held' = Held \cup {j}
    BY <1>2, <1>5 DEF Held, Holding
  <1>7. \A a, b \in 1..Len(jobs') : a # b => jobs'[a] # jobs'[b]
    BY <1>3 DEF InOnePlace
  <1>8. \A v, u \in Holding' : v # u => worker'[v].job # worker'[u].job
    <2>1. \A v \in Holding : worker'[v].job \in Held /\ worker'[v].job = worker[v].job /\ v # w
      BY <1>2, <1>5 DEF Holding, Held
    <2>2. j \notin Held
      BY <1>4 DEF InOnePlace
    <2>. QED  BY <1>2, <1>5, <2>1, <2>2 DEF InOnePlace
  <1>9. InHand' = InHand
    BY <1>1 DEF InHand
  <1>10. /\ Queued' \cup Held' \cup results' \subseteq Queued \cup Held \cup results
         /\ Held' \cap (Queued' \cup results') = {} /\ Queued' \cap results' = {}
    BY <1>1, <1>4, <1>6 DEF InOnePlace
  <1>. QED  BY <1>1, <1>7, <1>8, <1>9, <1>10 DEF InOnePlace

LEMMA StoreMoves ==
  ASSUME IInv, InOnePlace, NEW w \in Workers, StoreResult(w)
  PROVE  InOnePlace'
  <1>1. /\ worker[w].at = "store" /\ results' = results \cup {worker[w].job}
        /\ UNCHANGED <<client, listed, jobs>> /\ Queued' = Queued /\ InHand' = InHand
    BY DEF StoreResult, list, Here, Queued, InHand
  <1>2. worker'[w] = Idle /\ \A v \in Workers \ {w} : worker'[v] = worker[v]
    BY WorkerMoves DEF WorkerStep, StoreResult, Crash, Here, IInv, Typed
  <1>3. Holding' = Holding \ {w} /\ w \in Holding
    BY <1>1, <1>2, IdleFacts DEF Holding
  <1>4. Held' \subseteq Held \ {worker[w].job} /\ worker[w].job \in Held
    BY <1>2, <1>3 DEF Held, InOnePlace, Holding
  <1>5. \A v, u \in Holding' : v # u => worker'[v].job # worker'[u].job
    BY <1>2, <1>3 DEF InOnePlace, Holding
  <1>. QED  BY <1>1, <1>4, <1>5 DEF InOnePlace

LEMMA WorkerStepPlaces ==
  ASSUME PlacesInv, NEW w \in Workers, WorkerStep(w)
  PROVE  "torn" \notin past' => InOnePlace'
  <1> SUFFICES ASSUME InOnePlace
               PROVE  InOnePlace'
    BY WorkerKeeps DEF PlacesInv
  <1>1. CASE Take(w)
    BY <1>1, TakeMoves DEF PlacesInv
  <1>2. CASE StoreResult(w)
    BY <1>2, StoreMoves DEF PlacesInv
  <1>3. CASE Crash(w)
    BY <1>3 DEF Crash, InOnePlace, Holding, Held, Queued, InHand, channels, list
  <1>4. CASE Leave(w)
    <2>1. /\ worker'[w].at = "gone" /\ \A v \in Workers \ {w} : worker'[v] = worker[v]
          /\ UNCHANGED <<client, listed, jobs, results>>
      BY <1>4, WorkerMoves, WorkerKeeps DEF Leave, Crash, WorkerStep, PlacesInv, IInv, Typed
    <2>2. Holding' \subseteq Holding /\ \A v \in Holding' : worker'[v].job = worker[v].job
      BY <2>1 DEF Holding
    <2>3. Held' \subseteq Held /\ Queued' = Queued /\ InHand' = InHand
      BY <2>1, <2>2 DEF Held, Queued, InHand
    <2>. QED  BY <2>1, <2>2, <2>3 DEF InOnePlace
  <1>5. CASE ~Crash(w) /\ (Call(w) \/ Assign(w) \/ Check(w) \/ Read(w) \/ Retry(w) \/ AppendError(w))
    <2>1. worker[w].at \notin {"idle", "gone"} /\ UNCHANGED <<client, listed, jobs, results>>
      BY <1>5 DEF Call, Assign, Check, Read, Retry, AppendError, Here, channels, list
    <2>2. \A v \in Workers \ {w} : worker'[v] = worker[v]
      BY <1>5, WorkerMoves DEF PlacesInv, IInv, Typed
    <2>3. worker'[w].at \notin {"idle", "gone"} => worker'[w].job = worker[w].job
      BY <1>5, WorkerMoves, IdleFacts DEF PlacesInv, IInv, Typed
    <2>. QED  BY <2>1, <2>2, <2>3, WorkerWorks DEF PlacesInv
  <1>. QED  BY <1>1, <1>2, <1>3, <1>4, <1>5 DEF WorkerStep

LEMMA ClientStepPlaces ==
  ASSUME PlacesInv, ClientStep
  PROVE  "torn" \notin past' => InOnePlace'
  <1>1. worker' = worker /\ past \subseteq past' /\ client \in Client /\ TypeOK
    BY DEF ClientStep, ListNext, ReadsErr, ListSafely, SendJobs, Close, Errors, ReturnErrors, Reads, Receive, Moves,
           channels, Happens, PlacesInv, IInv, Typed, TypeOK
  <1> SUFFICES ASSUME InOnePlace, "torn" \notin past, "torn" \notin past'
               PROVE  InOnePlace'
    BY <1>1 DEF PlacesInv
  <1>2. Holding' = Holding /\ Held' = Held
    BY <1>1 DEF Holding, Held
  <1>3. CASE ListNext \/ ListSafely
    <2>1. /\ UNCHANGED <<jobs, results>> /\ Queued' = Queued /\ listed \in Nat
          /\ \/ listed' = listed + 1 /\ client'.job = listed'
             \/ listed' = listed /\ (client'.job = NilJob)
      BY <1>1, <1>3 DEF ListNext, ListSafely, ClientGoes, channels, TypeOK, At, Queued
    <2>2. \A j \in Queued \cup Held \cup results : j <= listed /\ j \in Nat
      <3>1. Sent \subseteq Nat /\ Jobs \subseteq Sent
        BY ListedAssumption DEF Sent, Jobs, NilJob
      <3>2. Queued \subseteq Sent /\ results \subseteq Sent
        BY <1>1, <3>1 DEF Queued, TypeOK
      <3>3. \A w \in Workers : worker[w] \in Worker
        BY <1>1 DEF TypeOK
      <3>4. Held \subseteq Sent
        BY <3>3 DEF Held, Holding, Worker
      <3>. QED  BY <3>1, <3>2, <3>4 DEF InOnePlace
    <2>. QED  BY <1>1, <1>2, <2>1, <2>2 DEF InOnePlace, InHand
  <1>4. CASE ReadsErr
    <2>1. UNCHANGED <<jobs, results, listed>> /\ Queued' = Queued
      BY <1>4 DEF ReadsErr, Reads, channels, Queued
    <2>2. InHand' => InHand /\ client'.job = client.job
      BY <1>1, <1>4 DEF ReadsErr, Reads, AtDone, InHand, Client
    <2>. QED  BY <1>1, <1>2, <2>1, <2>2 DEF InOnePlace
  <1>5. CASE SendJobs
    <2>1. /\ jobs' = Append(jobs, client.job) /\ UNCHANGED <<results, listed>> /\ client'.at = "next"
          /\ client.at = "send" /\ client.job \in Jobs
      BY <1>1, <1>5 DEF SendJobs, At, PlacesInv, IInv, JobsReal, Safe
    <2>2. InHand /\ ~InHand'
      BY <2>1 DEF InHand, Jobs, NilJob
    <2>3. /\ Queued' = Queued \cup {client.job} /\ Len(jobs') = Len(jobs) + 1 /\ Len(jobs) \in Nat
      BY <1>1, <2>1, QueueFacts DEF Client, TypeOK
    <2>4. \A i \in 1..Len(jobs') : IF i = Len(jobs) + 1 THEN jobs'[i] = client.job
                                   ELSE i \in 1..Len(jobs) /\ jobs'[i] = jobs[i] /\ jobs[i] \in Queued
      BY <1>1, <2>1, <2>3 DEF Queued, TypeOK
    <2>5. \A a, b \in 1..Len(jobs') : a # b => jobs'[a] # jobs'[b]
      BY <2>2, <2>4 DEF InOnePlace
    <2>. QED  BY <1>1, <1>2, <2>1, <2>2, <2>3, <2>5 DEF InOnePlace, TypeOK
  <1>6. CASE Close \/ Errors \/ ReturnErrors
    <2>1. /\ client'.at \in {"drain", "errors", "read", "returned", "panicked"}
          /\ UNCHANGED <<jobs, listed>> /\ Queued' = Queued /\ results' \subseteq results
      BY <1>1, <1>6 DEF Close, Errors, ReturnErrors, Receive, Moves, At, channels, Queued
    <2>. QED  BY <1>1, <1>2, <2>1 DEF InOnePlace, InHand
  <1>. QED  BY <1>3, <1>4, <1>5, <1>6 DEF ClientStep

LEMMA InitPlaces == Init => PlacesInv
  <1> SUFFICES ASSUME Init PROVE PlacesInv
    OBVIOUS
  <1>1. \A w \in Workers : worker[w].at = "idle"
    BY IdleFacts DEF Init
  <1>2. Holding = {} /\ Held = {} /\ Queued = {} /\ results = {} /\ Len(jobs) = 0
    BY <1>1 DEF Init, Holding, Held, Queued
  <1>3. ~InHand
    BY DEF Init, InHand, At
  <1>4. InOnePlace
    BY <1>2, <1>3 DEF InOnePlace
  <1>5. GoneForAReason
    BY <1>1 DEF GoneForAReason, Here
  <1>. QED  BY <1>4, <1>5, InitInv DEF PlacesInv

LEMMA NextPlaces ==
  ASSUME PlacesInv, [Next]_vars
  PROVE  PlacesInv'
  <1>1. IInv'
    BY NextIInv DEF PlacesInv
  <1>2. CASE UNCHANGED vars
    <2>1. GoneForAReason' /\ past' = past
      BY <1>2 DEF vars, channels, list, PlacesInv, GoneForAReason, Here, jobsClosed, user
    <2>2. InOnePlace => InOnePlace'
      BY <1>2 DEF vars, channels, list, InOnePlace, Holding, Held, Queued, InHand
    <2>. QED  BY <1>1, <2>1, <2>2 DEF PlacesInv
  <1>3. CASE ClientStep
    BY <1>1, <1>3, ClientStepGone, ClientStepPlaces DEF PlacesInv
  <1>4. ASSUME NEW w \in Workers, WorkerStep(w)
        PROVE  PlacesInv'
    BY <1>1, <1>4, WorkerStepGone, WorkerStepPlaces DEF PlacesInv
  <1>. QED  BY <1>2, <1>3, <1>4 DEF Next

(* A set with as many elements as a function has arguments, when it gives    *)
(* each another one.                                                         *)
LEMMA AsManyValues ==
  ASSUME NEW S, IsFiniteSet(S), NEW f, DOMAIN f = S, f = [x \in S |-> f[x]],
         \A x, y \in S : x # y => f[x] # f[y]
  PROVE  IsFiniteSet({f[x] : x \in S}) /\ Cardinality({f[x] : x \in S}) = Cardinality(S)
  <1> DEFINE T == {f[x] : x \in S}
  <1>1. f \in [S -> T]
    OBVIOUS
  <1>2. f \in Surjection(S, T)
    BY <1>1 DEF Surjection
  <1>3. f \in Injection(S, T)
    BY <1>1 DEF Injection, IsInjective
  <1>. QED  BY <1>2, <1>3, FS_Surjection

LEMMA ApartSum ==
  ASSUME NEW S, IsFiniteSet(S), NEW T, IsFiniteSet(T), S \cap T = {}
  PROVE  IsFiniteSet(S \cup T) /\ Cardinality(S \cup T) = Cardinality(S) + Cardinality(T)
  <1>1. Cardinality(S) \in Nat /\ Cardinality(T) \in Nat
    BY FS_CardinalityType
  <1>2. Cardinality(S \cap T) = 0
    BY FS_EmptySet
  <1>3. IsFiniteSet(S \cup T) /\ Cardinality(S \cup T) = Cardinality(S) + Cardinality(T) - Cardinality(S \cap T)
    BY FS_Union
  <1>. QED  BY <1>1, <1>2, <1>3

(* When the user cannot send, no worker waits for a job and none has left,   *)
(* more objects were listed than there is room for.                          *)
LEMMA NoRoom ==
  ASSUME PlacesInv, "torn" \notin past, client.at = "send", Len(jobs) = JobQueueLimit,
         Cardinality(results) = ResultQueueLimit, Holding = Workers
  PROVE  listed > JobQueueLimit + Cardinality(Workers) + ResultQueueLimit
  <1>1. /\ TypeOK /\ InOnePlace /\ client.job \in Jobs
        /\ jobs \in Seq(Sent) /\ results \subseteq Jobs /\ listed \in Nat /\ listed <= Listed
    BY ListedAssumption DEF PlacesInv, IInv, Typed, TypeOK, JobsReal, Safe
  <1>2. InHand
    BY <1>1 DEF InHand, Jobs, NilJob
  <1>3. IsFiniteSet(Queued) /\ Cardinality(Queued) = JobQueueLimit
    <2> DEFINE f == [i \in 1..Len(jobs) |-> jobs[i]]
    <2>1. IsFiniteSet(1..Len(jobs)) /\ Cardinality(1..Len(jobs)) = JobQueueLimit
      BY LimitsAssumption, FS_Interval
    <2>2. Queued = {f[i] : i \in 1..Len(jobs)}
      BY DEF Queued
    <2>3. \A i, j \in 1..Len(jobs) : i # j => f[i] # f[j]
      BY <1>1 DEF InOnePlace
    <2>4. f = [i \in 1..Len(jobs) |-> f[i]] /\ DOMAIN f = 1..Len(jobs)
      OBVIOUS
    <2> HIDE DEF f
    <2>. QED  BY <2>1, <2>2, <2>3, <2>4, AsManyValues
  <1>4. IsFiniteSet(Held) /\ Cardinality(Held) = Cardinality(Workers)
    <2> DEFINE f == [w \in Workers |-> worker[w].job]
    <2>1. Held = {f[w] : w \in Workers}
      BY DEF Held
    <2>2. \A v, w \in Workers : v # w => f[v] # f[w]
      BY <1>1 DEF InOnePlace
    <2>3. f = [w \in Workers |-> f[w]] /\ DOMAIN f = Workers
      OBVIOUS
    <2> HIDE DEF f
    <2>. QED  BY <2>1, <2>2, <2>3, SizeAssumption, AsManyValues
  <1>5. IsFiniteSet(results)
    BY <1>1, ResultsFinite
  <1>6. /\ IsFiniteSet(Held \cup results)
        /\ Cardinality(Held \cup results) = Cardinality(Workers) + ResultQueueLimit
    <2>1. Held \cap results = {}
      BY <1>1 DEF InOnePlace
    <2>. QED  BY <1>4, <1>5, <2>1, ApartSum
  <1>7. /\ IsFiniteSet(Queued \cup (Held \cup results))
        /\ Cardinality(Queued \cup (Held \cup results)) = JobQueueLimit + Cardinality(Workers) + ResultQueueLimit
    <2>1. Queued \cap (Held \cup results) = {}
      BY <1>1 DEF InOnePlace
    <2>2. Cardinality(Workers) \in Nat
      BY SizeAssumption, FS_CardinalityType
    <2>3. Cardinality(Queued) + (Cardinality(Workers) + ResultQueueLimit) = JobQueueLimit + Cardinality(Workers) + ResultQueueLimit
      BY <1>3, <2>2, LimitsAssumption
    <2>. QED  BY <1>3, <1>6, <2>1, <2>3, ApartSum
  <1> DEFINE All == (Queued \cup (Held \cup results)) \cup {client.job}
  <1>8. Cardinality(All) = JobQueueLimit + Cardinality(Workers) + ResultQueueLimit + 1
    <2>1. client.job \notin Queued \cup (Held \cup results)
      BY <1>1, <1>2 DEF InOnePlace
    <2>. QED  BY <1>7, <2>1, FS_AddElement
  <1>9. All \subseteq 1..listed
    <2>1. \A w \in Workers : worker[w].job \in Jobs
      BY <1>1 DEF PlacesInv, IInv, JobsReal, Holding, Busy, Points, Safe, Here, TypeOK, Worker
    <2>2. Queued \cup Held \cup results \subseteq Jobs
      BY <1>1, <2>1 DEF PlacesInv, IInv, JobsReal, Safe, Queued, Sent, Held
    <2>. QED  BY <1>1, <1>2, <2>2 DEF InOnePlace, Jobs
  <1>10. IsFiniteSet(1..listed) /\ Cardinality(1..listed) = listed
    BY <1>1, FS_Interval
  <1>11. Cardinality(All) <= listed
    BY <1>9, <1>10, FS_Subset
  <1>12. Cardinality(Workers) \in Nat
    BY SizeAssumption, FS_CardinalityType
  <1> HIDE DEF All
  <1>. QED  BY <1>1, <1>8, <1>11, <1>12, LimitsAssumption, ListedAssumption

(* Where the objects are is kept by every step.                              *)
THEOREM PlacesSafety == Spec => []PlacesInv
  BY InitPlaces, NextPlaces, PTL DEF Spec

(* A call whose goroutines all wait waits for a result that never comes      *)
(* (Errors without Close), or its SendJobs for a worker: all of them wait    *)
(* for a reader of their results, and there are more jobs than fit, or one   *)
(* was lost to a panic or DeleteLogs was misled.  It hangs in no other way,  *)
(* for any number of workers, jobs and all limits of the channels.           *)
THEOREM NoOtherDeadlock == Spec => []StuckAsKnown
  <1>1. ASSUME PlacesInv, Alive, client.at \notin Ends, ClientWaits, \A w \in Workers : WorkerWaits(w)
        PROVE  NoResult \/ NoTaker
    <2>1. TypeOK /\ Typed /\ ResultQueueLimit \in Nat \ {0} /\ JobQueueLimit \in Nat \ {0}
      BY <1>1, LimitsAssumption DEF PlacesInv, IInv, Typed
    <2>2. CASE client.at \in {"drain", "errors"} /\ results = {} /\ running # 0
      <3>1. Cardinality(results) # ResultQueueLimit
        BY <2>1, <2>2, FS_EmptySet
      <3>2. PICK w \in Workers : ~Here(w, "gone")
        BY <2>1, <2>2, LeftFinite DEF Left
      <3>3. ~jobsClosed
        BY <1>1, <3>1, <3>2 DEF WorkerWaits
      <3>4. client.at = "errors"
        BY <1>1, <2>1, <2>2, <3>3, ConfigsAssumption DEF PlacesInv, IInv, DeleteInv, jobsClosed, user, TypeOK
      <3>. QED  BY <2>2, <3>3, <3>4 DEF NoResult
    <2>3. CASE client.at = "send" /\ ~CanSend
      <3>1. Len(jobs) = JobQueueLimit /\ jobs # <<>>
        BY <2>1, <2>3 DEF CanSend, TypeOK
      <3>2. \A w \in Workers : Here(w, "gone") \/ (Here(w, "store") /\ Cardinality(results) = ResultQueueLimit)
        BY <1>1, <3>1 DEF WorkerWaits
      <3>3. ASSUME past \cap {"panicked", "torn"} = {}
            PROVE  listed > JobQueueLimit + Cardinality(Workers) + ResultQueueLimit
        <4>1. ~jobsClosed
          BY <2>3 DEF jobsClosed, Ends
        <4>2. \A w \in Workers : ~Here(w, "gone")
          BY <1>1, <3>3, <4>1 DEF PlacesInv, GoneForAReason
        <4>3. Holding = Workers /\ Cardinality(results) = ResultQueueLimit
          BY <3>2, <4>2, SizeAssumption DEF Holding, Here
        <4>. QED  BY <1>1, <2>3, <3>1, <3>3, <4>3, NoRoom
      <3>. QED  BY <2>3, <3>1, <3>2, <3>3 DEF NoTaker
    <2>. QED  BY <1>1, <2>2, <2>3 DEF ClientWaits
  <1>2. PlacesInv => StuckAsKnown
    BY <1>1 DEF StuckAsKnown
  <1>. QED  BY <1>2, PlacesSafety, PTL

=============================================================================

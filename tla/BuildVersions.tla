---------------------------- MODULE BuildVersions ---------------------------
(***************************************************************************)
(* The versions of the builds of one pipeline: CreateBuild takes a number  *)
(* from build_versions for a new build, CreatePipelineBuild builds a       *)
(* version again, CreatePipelineRelease releases one.  Requests run        *)
(* concurrently, and every query is a step of its own.                     *)
(***************************************************************************)
EXTENDS Naturals, Sequences

CONSTANTS
  Requests,      \* slots for requests that are handled at the same time
  Kinds,         \* the requests that arrive
  NumberBound,   \* bound on the numbers given out
  BuildBound     \* bound on the builds

ASSUME KindsAssumption == Kinds \subseteq {"build", "rerun", "release"}
ASSUME BoundsAssumption == NumberBound \in Nat /\ BuildBound \in Nat

VARIABLES
  counter,       \* build_versions.auto_increment of the pipeline, 0 without a row
  builds,        \* rows of builds by inserted_at
  req,           \* req[r]: a request being handled
  releases,      \* versions that were released
  overlapped     \* a request came while another one was handled (history)

vars == <<counter, builds, req, releases, overlapped>>

(* The life cycle of a build row is that of JobTable.                        *)
Table == INSTANCE JobTable WITH
  Jobs <- 1..BuildBound,
  row  <- [k \in 1..BuildBound |-> IF k \in 1..Len(builds) THEN builds[k].status ELSE "none"]

Unsuccessful == {"failed", "canceled"}
Numbers      == 0..NumberBound

(* known (in a build: of its request) is how many builds were stored when    *)
(* the request came.                                                         *)
Build   == [version : Numbers, status : Table!Status, kind : {"build", "rerun"}, known : Nat]
Request == [at : {"idle", "unfailed", "increment", "number", "insert", "release"},
            kind : {"none", "build", "rerun", "release"}, version : Numbers, known : Nat]

Idle == [at |-> "idle", kind |-> "none", version |-> 0, known |-> 0]

TypeOK ==
  /\ counter \in Numbers
  /\ builds \in Seq(Build)
  /\ req \in [Requests -> Request]
  /\ releases \subseteq Numbers

Init ==
  /\ counter = 0
  /\ builds = <<>>
  /\ req = [r \in Requests |-> Idle]
  /\ releases = {}
  /\ overlapped = FALSE

With(v) == {k \in 1..Len(builds) : builds[k].version = v}

Comes(r, at, kind, v, n) ==
  /\ kind \in Kinds
  /\ req[r] = Idle
  /\ req' = [req EXCEPT ![r] = [at |-> at, kind |-> kind, version |-> v, known |-> n]]
  /\ overlapped' = (overlapped \/ \E p \in Requests : req[p] # Idle)
  /\ UNCHANGED <<counter, builds, releases>>

Goto(r, at) == req' = [req EXCEPT ![r] = [@ EXCEPT !.at = at]]

-----------------------------------------------------------------------------
(* Creating builds                                                           *)

(* CreateBuild for a push or a trigger: the version is empty.                *)
NewBuild(r) == Comes(r, "increment", "build", 0, Len(builds))

(* Faulty variant: the statement inserts a row or does nothing.             *)
IncrementOnce(r) ==
  /\ req[r].at = "increment"
  /\ counter' = IF counter = 0 THEN 1 ELSE counter
  /\ Goto(r, "number")
  /\ UNCHANGED <<builds, releases, overlapped>>

(* GetAutoIncrement increments the counter in one statement                  *)
Increment(r) ==
  /\ req[r].at = "increment"
  /\ counter < NumberBound
  /\ counter' = counter + 1
  /\ Goto(r, "number")
  /\ UNCHANGED <<builds, releases, overlapped>>

(* and reads it in another.                                                  *)
ReadNumber(r) ==
  /\ req[r].at = "number"
  /\ req' = [req EXCEPT ![r] = [@ EXCEPT !.at = "insert", !.version = counter]]
  /\ UNCHANGED <<counter, builds, releases, overlapped>>

(* CreatePipelineBuild looks for an unsuccessful build of the version        *)
Rerun(r, v) ==
  /\ \E k \in With(v) : builds[k].status \in Unsuccessful
  /\ Comes(r, "unfailed", "rerun", v, 0)

(* Faulty variant: only builds that succeeded are in the way.                *)
CheckSucceeded(r) ==
  /\ req[r].at = "unfailed"
  /\ req' = [req EXCEPT ![r] =
       IF \A k \in With(@.version) : builds[k].status # "succeeded" THEN [@ EXCEPT !.at = "insert"] ELSE Idle]
  /\ UNCHANGED <<counter, builds, releases, overlapped>>

(* and, in a second query, for any other one: then it is refused, otherwise  *)
(* CreateBuild keeps the version.                                            *)
CheckUnfailed(r) ==
  /\ req[r].at = "unfailed"
  /\ req' = [req EXCEPT ![r] =
       IF \A k \in With(@.version) : builds[k].status \in Unsuccessful THEN [@ EXCEPT !.at = "insert"] ELSE Idle]
  /\ UNCHANGED <<counter, builds, releases, overlapped>>

(* The INSERT: pending, or failed when the manifest or a secret is invalid.  *)
Insert(r) ==
  LET q == req[r]
      stored(s) == [version |-> q.version, status |-> s, kind |-> q.kind, known |-> q.known]
  IN  /\ q.at = "insert"
      /\ Len(builds) < BuildBound
      /\ \E s \in {"pending", "failed"} : builds' = Append(builds, stored(s))
      /\ req' = [req EXCEPT ![r] = Idle]
      /\ UNCHANGED <<counter, releases, overlapped>>

-----------------------------------------------------------------------------
(* Releasing builds                                                          *)

(* Faulty variant: any build of the version will do.                         *)
FindStored(r, v) == With(v) # {} /\ Comes(r, "release", "release", v, 0)

(* CreatePipelineRelease looks for a build that succeeded,                   *)
FindSucceeded(r, v) ==
  /\ \E k \in With(v) : builds[k].status = "succeeded"
  /\ Comes(r, "release", "release", v, 0)

(* and CreateRelease stores a release of it, some queries later.             *)
CreateRelease(r) ==
  /\ req[r].at = "release"
  /\ releases' = releases \cup {req[r].version}
  /\ req' = [req EXCEPT ![r] = Idle]
  /\ UNCHANGED <<counter, builds, overlapped>>

-----------------------------------------------------------------------------
(* A query fails: the request ends with an error and leaves what it did.     *)
Fail(r) ==
  /\ req[r] # Idle
  /\ req' = [req EXCEPT ![r] = Idle]
  /\ UNCHANGED <<counter, builds, releases, overlapped>>

(* Builders and cancel handlers move a build along its life cycle.           *)
Progress(k, s) ==
  /\ builds[k].status \in Table!AllowedFrom(s)
  /\ builds' = [builds EXCEPT ![k] = [@ EXCEPT !.status = s]]
  /\ UNCHANGED <<counter, req, releases, overlapped>>

RequestNext(r) ==
  \/ NewBuild(r)
  \/ Increment(r)
  \/ ReadNumber(r)
  \/ \E v \in Numbers : Rerun(r, v) \/ FindSucceeded(r, v)
  \/ CheckUnfailed(r)
  \/ Insert(r)
  \/ CreateRelease(r)
  \/ Fail(r)

Next ==
  \/ \E r \in Requests : RequestNext(r)
  \/ \E k \in 1..Len(builds), s \in Table!Status : Progress(k, s)

Spec == Init /\ [][Next]_vars

-----------------------------------------------------------------------------
(* Properties                                                                *)

(* A new build has a higher version than every build that was stored before  *)
(* its request came, however many requests overlap.                          *)
LaterIsHigher ==
  \A k \in 1..Len(builds) : builds[k].kind = "build" =>
    \A i \in 1..Len(builds) : i <= builds[k].known => builds[i].version < builds[k].version

(* A version that is released has a build that succeeded, although reruns    *)
(* and builders go on between the lookup and the release.                    *)
HasSucceeded(v) == \E k \in With(v) : builds[k].status = "succeeded"
ReleasesSucceeded == \A v \in releases : HasSucceeded(v)

(* Requests that do not overlap keep the ledger BuildLedger promises.        *)
Entries == [k \in 1..Len(builds) |-> [version |-> builds[k].version, status |-> builds[k].status]]
Ledger == INSTANCE BuildLedger WITH Versions <- Numbers, ledger <- Entries
KeepsLedger == Ledger!Init /\ [][~overlapped' => [Ledger!Next]_Entries]_vars

(* "only if all builds are failed the pipeline can be re-run": a version     *)
(* that is built again never has two builds that are not failed or canceled; *)
(* two reruns that overlap both pass the check.                              *)
OneBuildAtATime ==
  ~overlapped =>
    \A i, k \in 1..Len(builds) :
      i < k /\ builds[k].kind = "rerun" /\ builds[i].version = builds[k].version =>
        builds[i].status \in Unsuccessful \/ builds[k].status \in Unsuccessful

-----------------------------------------------------------------------------
(* The inductive invariants                                                  *)

(* No version is ahead of the counter, and a request that has incremented it *)
(* will get, or has, a version above those of the builds it may know.        *)
Issued ==
  /\ \A k \in 1..Len(builds) : builds[k].version <= counter
  /\ \A r \in Requests : req[r].version <= counter

AboveKnown ==
  \A r \in Requests : req[r].kind = "build" =>
    \A i \in 1..Len(builds) : i <= req[r].known =>
      /\ req[r].at = "number" => builds[i].version < counter
      /\ req[r].at = "insert" => builds[i].version < req[r].version

KnownStored ==
  /\ \A r \in Requests : req[r].known <= Len(builds)
  /\ \A k \in 1..Len(builds) : builds[k].known < k

Looked == \A r \in Requests : req[r].at = "release" => HasSucceeded(req[r].version)

Shape ==
  \A r \in Requests :
    /\ req[r].at \in {"increment", "number"} => req[r].kind = "build"
    /\ req[r].at = "unfailed" => req[r].kind = "rerun"
    /\ req[r].at = "insert" => req[r].kind \in {"build", "rerun"}

IInv ==
  /\ TypeOK /\ Shape /\ Issued /\ KnownStored
  /\ AboveKnown /\ LaterIsHigher
  /\ Looked /\ ReleasesSucceeded

(* As long as requests come one at a time no build is stored while one is    *)
(* handled, and a version that is being built again stays unsuccessful.      *)
Alone == \A r, p \in Requests : req[r] # Idle /\ req[p] # Idle => r = p

Unchanged ==
  \A r \in Requests :
    /\ req[r].kind = "build" => req[r].known = Len(builds)
    /\ req[r].kind = "rerun" => With(req[r].version) # {}
    /\ req[r].kind = "rerun" /\ req[r].at = "insert" =>
         \A k \in With(req[r].version) : builds[k].status \in Unsuccessful

SerialInv == (~overlapped => Alone /\ Unchanged) /\ OneBuildAtATime

=============================================================================

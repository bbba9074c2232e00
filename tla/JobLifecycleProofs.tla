------------------------- MODULE JobLifecycleProofs -------------------------
(***************************************************************************)
(* Machine-checked proofs about JobLifecycle, for every set of jobs and    *)
(* requests, every fault assumption and every bound.                       *)
(***************************************************************************)
EXTENDS JobLifecycle, TLAPS

USE PullSecretAssumption, FaultsAssumption, BotsAssumption, ReliableAssumption,
    BoundsAssumption

-----------------------------------------------------------------------------
(* Type correctness                                                          *)

LEMMA TypeInit == Init => TypeOK
  BY DEF Init, TypeOK, Status, Live, Terminal, JobState, Objects, Mounts, Calls, Outcome

(* The two writes of the row keep it a row.                                  *)
LEMMA RowType ==
  ASSUME row \in [Jobs -> Status], NEW j \in Jobs, NEW s \in Status,
         UpdateStatus(j, s) \/ InsertRow(j, s)
  PROVE  row' \in [Jobs -> Status]
  BY DEF UpdateStatus, InsertRow

(* So do the calls that create and remove Kubernetes objects.                *)
LEMMA KubeType ==
  ASSUME kjob \in [Jobs -> JobState], objs \in [Jobs -> SUBSET Objects], NEW j \in Jobs,
         \/ create[j] \in Calls /\ CreateObject(j, create[j])
         \/ \E kept \in SUBSET (Objects \cup {"job"}) : RemoveCore(j, kept)
  PROVE  /\ kjob' \in [Jobs -> JobState]
         /\ objs' \in [Jobs -> SUBSET Objects]
<1>1. CASE create[j] \in Calls /\ CreateObject(j, create[j])
  BY <1>1 DEF CreateObject, Calls, JobState, Objects, Mounts
<1>2. CASE \E kept \in SUBSET (Objects \cup {"job"}) : RemoveCore(j, kept)
  BY <1>2 DEF RemoveCore, JobState
<1>3. QED BY <1>1, <1>2

(* The call that follows a call of CreateCiBuilderJob.                       *)
LEMMA NextCallType ==
  ASSUME NEW c \in Calls
  PROVE  /\ NextCall(c) \in Calls \cup {"done"}
         /\ NextCall(c) # "configmap"
         /\ NextCall(c) = "secret" <=> c = "configmap"
         /\ NextCall(c) = "done" <=> c = "job"
<1>1. CASE c = "configmap"
  BY <1>1 DEF NextCall, Calls
<1>2. CASE c = "secret"
  BY <1>2 DEF NextCall, Calls
<1>3. CASE c = "pullsecret"
  BY <1>3 DEF NextCall, Calls
<1>4. CASE c = "job"
  BY <1>4 DEF NextCall, Calls
<1>5. QED BY <1>1, <1>2, <1>3, <1>4 DEF Calls

(* What a cancel handler makes of its request is a request.                  *)
LEMMA RequestType ==
  ASSUME NEW q \in Request
  PROVE  /\ \A at \in {"core", "store", "settle"} : [q EXCEPT !.at = at] \in Request
         /\ [q EXCEPT !.at = "store", !.missing = TRUE] \in Request
         /\ \A a \in {"ok", "error"} : Return(q, a) \in Request
         /\ AfterStore(q) \in Request
<1>1. \A at \in {"core", "store", "settle"} : [q EXCEPT !.at = at] \in Request
  BY DEF Request
<1>2. [q EXCEPT !.at = "store", !.missing = TRUE] \in Request
  BY DEF Request
<1>3. \A a \in {"ok", "error"} : Return(q, a) \in Request
  BY DEF Request, Return, Live
<1>4. AfterStore(q) \in Request
  BY <1>1, <1>3 DEF AfterStore
<1>5. QED BY <1>1, <1>2, <1>3, <1>4

LEMMA TypeStep == TypeOK /\ ReportedOnce /\ [Next]_vars => TypeOK'
<1> SUFFICES ASSUME TypeOK, ReportedOnce, [Next]_vars PROVE TypeOK'
  OBVIOUS
<1> USE DEF TypeOK
<1>1. ASSUME NEW j \in Jobs, CreateNext(j) PROVE TypeOK'
  <2>1. CASE StoreRow(j)
    BY <1>1, <2>1, RowType DEF StoreRow, Refuse, kubeVars, builderVars, Status, Live, Terminal, Calls
  <2>2. CASE CreateStep(j)
    BY <1>1, <2>2, KubeType, NextCallType DEF CreateStep, builderVars
  <2>3. CASE CreateFails(j)
    <3>1. row' \in [Jobs -> Status]
      BY <1>1, <2>3, RowType DEF CreateFails, Refuse, Status, Live, Terminal
    <3>2. kjob' \in [Jobs -> JobState] /\ objs' \in [Jobs -> SUBSET Objects]
      BY <1>1, <2>3, KubeType DEF CreateFails, kubeVars
    <3>3. create' \in [Jobs -> {"insert", "refused", "done", "aborted"} \cup Calls]
      BY <1>1, <2>3 DEF CreateFails, Refuse, Abort
    <3>4. QED BY <1>1, <2>3, <3>1, <3>2, <3>3 DEF CreateFails, builderVars
  <2>4. QED BY <1>1, <2>1, <2>2, <2>3 DEF CreateNext
<1>2. ASSUME NEW r \in Requests, CancelNext(r) PROVE TypeOK'
  <2> req[r] \in Request /\ req[r].job \in Jobs /\ req[r].seen \in Live
    BY <1>2 DEF Request
  <2>1. CASE CancelGet(r)
    BY <1>2, <2>1, RequestType DEF CancelGet, kubeVars, builderVars
  <2>2. CASE CancelCore(r)
    BY <1>2, <2>2, KubeType, RequestType DEF CancelCore, builderVars
  <2>7. Target(req[r].seen) \in Status
    BY DEF Target, Status, Live, Terminal
  <2>3. CASE CancelStore(r)
    <3>1. row' \in [Jobs -> Status]
      BY <2>7, <2>3, RowType DEF CancelStore
    <3>2. QED BY <1>2, <2>3, <3>1, RequestType DEF CancelStore, kubeVars, builderVars
  <2>4. CASE CancelStoreFails(r)
    <3>1. row' \in [Jobs -> Status]
      BY <2>7, <2>4, RowType DEF CancelStoreFails
    <3>2. QED BY <1>2, <2>4, <3>1, RequestType DEF CancelStoreFails, kubeVars, builderVars
  <2>5. CASE CancelSettle(r)
    BY <1>2, <2>5, RowType, RequestType DEF CancelSettle, kubeVars, builderVars, Status, Terminal
  <2>6. CASE CancelSettleFails(r)
    <3>1. row' \in [Jobs -> Status]
      BY <2>6, RowType DEF CancelSettleFails, Status, Terminal
    <3>2. QED BY <1>2, <2>6, <3>1, RequestType DEF CancelSettleFails, kubeVars, builderVars
  <2>8. QED BY <1>2, <2>1, <2>2, <2>3, <2>4, <2>5, <2>6 DEF CancelNext
<1>3. ASSUME NEW r \in Requests, NEW j \in Jobs, CancelRead(r, j) PROVE TypeOK'
  BY <1>3 DEF CancelRead, Request, kubeVars, builderVars
<1>4. ASSUME NEW j \in Jobs, BuilderNext(j) PROVE TypeOK'
  <2> USE DEF Send, Report, StatusEvent, CleanEvent, Event, Outcome, kubeVars, apiVars
  <2>1. CASE PodStart(j)
    BY <1>4, <2>1 DEF PodStart
  <2>2. CASE BuilderFinishes(j)
    BY <1>4, <2>2 DEF BuilderFinishes
  <2>3. CASE BuilderStopped(j)
    BY <1>4, <2>3 DEF BuilderStopped
  <2>4. CASE BuilderCleans(j)
    <3>1. outcome[j] \in Outcome
      BY <1>4, <2>4 DEF BuilderCleans, ReportedOnce
    <3>2. QED BY <1>4, <2>4, <3>1 DEF BuilderCleans
  <2>5. CASE PodKilled(j)
    BY <1>4, <2>5 DEF PodKilled
  <2>6. CASE PodCrash(j)
    BY <1>4, <2>6 DEF PodCrash
  <2>7. CASE CollectJob(j)
    BY <1>4, <2>7 DEF CollectJob, JobState, builderVars
  <2>8. CASE GiveUp(j)
    BY <1>4, <2>8 DEF GiveUp
  <2>9. QED BY <1>4, <2>1, <2>2, <2>3, <2>4, <2>5, <2>6, <2>7, <2>8 DEF BuilderNext
<1>5. ASSUME NEW j \in Jobs, RemoverGet(j) \/ RemoveJob(j) PROVE TypeOK'
  <2>1. CASE RemoverGet(j)
    BY <2>1 DEF RemoverGet, kubeVars, builderVars
  <2>2. CASE RemoveJob(j)
    BY <2>2, KubeType DEF RemoveJob, builderVars
  <2>3. QED BY <1>5, <2>1, <2>2
<1>6. ASSUME NEW e \in net, NEW again \in BOOLEAN, Handle(e, again) PROVE TypeOK'
  <2>1. e \in Event /\ e.job \in Jobs
    BY DEF Event
  <2>2. net' \subseteq Event /\ unanswered' \in [Jobs -> Event \cup {NoEvent}]
    BY <1>6, <2>1 DEF Handle, HandleStatus, HandleClean, Answer
  <2>3. CASE HandleStatus(e, again)
    <3>1. e.status \in Status
      BY <2>1, <2>3 DEF Event, Outcome, Status, Live, Terminal, HandleStatus
    <3>2. QED BY <2>1, <2>2, <2>3, <3>1, RowType DEF HandleStatus, kubeVars, apiVars
  <2>4. CASE HandleClean(e, again)
    <3>1. removers' \in [Jobs -> [get : Nat, await : Nat]]
      <4>1. CASE e.status = "canceled"
        BY <2>4, <4>1 DEF HandleClean
      <4>2. CASE e.status # "canceled"
        <5>1. removers' = [removers EXCEPT ![e.job].get = @ + 1]
          BY <2>4, <4>2 DEF HandleClean
        <5>2. QED BY <2>1, <5>1
      <4>3. QED BY <4>1, <4>2
    <3>2. QED BY <2>1, <2>2, <2>4, <3>1 DEF HandleClean, kubeVars
  <2>5. QED BY <1>6, <2>3, <2>4 DEF Handle
<1>7. CASE UNCHANGED vars
  BY <1>7 DEF vars
<1>8. QED BY <1>1, <1>2, <1>3, <1>4, <1>5, <1>6, <1>7 DEF Next

-----------------------------------------------------------------------------
(* Preservation of the inductive invariant, action by action                 *)

LEMMA StoreRowInv ==
  ASSUME IInv, TypeOK', NEW j \in Jobs, StoreRow(j)
  PROVE  IInv'
<1>1. ClickRecorded' /\ ReportedOnce' /\ RemoversLate'
  BY DEF IInv, StoreRow, Refuse, kubeVars, builderVars, ClickRecorded, ReportedOnce, RemoversLate
<1>2. CanceledByUser'
  BY DEF IInv, TypeOK, CanceledByUser, StoreRow, Refuse, InsertRow, kubeVars, builderVars
<1>3. ResultIsReported'
  BY DEF IInv, TypeOK, ResultIsReported, CreateFirst, Creating, StoreRow, Refuse, InsertRow, kubeVars,
      builderVars
<1>4. CreateFirst'
  BY DEF IInv, TypeOK, CreateFirst, Creating, StoreRow, Refuse, InsertRow, kubeVars, builderVars
<1>5. RowOpen'
  BY DEF IInv, TypeOK, RowOpen, Calls, StoreRow, Refuse, InsertRow, kubeVars, builderVars
<1>6. EventsTrue'
  <2> SUFFICES ASSUME NEW e \in net PROVE EventTrue(e)'
    BY DEF StoreRow, Refuse, builderVars, EventsTrue
  <2>1. EventTrue(e) /\ e.job \in Jobs
    BY DEF IInv, TypeOK, EventsTrue, Event
  <2>2. e.job # j
    BY <2>1 DEF StoreRow, Refuse, EventTrue, Creating
  <2>3. QED BY <2>1, <2>2 DEF IInv, TypeOK, StoreRow, Refuse, builderVars, EventTrue, Creating
<1>7. RunRecorded'
  BY DEF IInv, TypeOK, RunRecorded, StatusEvent, StoreRow, Refuse, InsertRow, kubeVars, builderVars
<1>8. MountsKept'
  BY DEF IInv, TypeOK, MountsKept, StoreRow, Refuse, InsertRow, kubeVars, builderVars
<1>9. QED BY <1>1, <1>2, <1>3, <1>4, <1>5, <1>6, <1>7, <1>8 DEF IInv

LEMMA CreateStepInv ==
  ASSUME IInv, TypeOK', NEW j \in Jobs, CreateStep(j)
  PROVE  IInv'
<1>1. CanceledByUser' /\ RemoversLate' /\ RunRecorded'
  BY DEF IInv, CreateStep, builderVars, CanceledByUser, RemoversLate, RunRecorded
<1>2. ResultIsReported'
  <2>1. create[j] # "refused" /\ create'[j] # "refused"
    BY NextCallType DEF IInv, TypeOK, CreateStep, Calls
  <2>2. \A i \in Jobs \ {j} : create'[i] = create[i] /\ kjob'[i] = kjob[i] /\ objs'[i] = objs[i]
    BY DEF IInv, TypeOK, CreateStep, CreateObject
  <2>3. QED BY <2>1, <2>2 DEF IInv, ResultIsReported, CreateStep, builderVars
<1>3. CreateFirst'
  BY NextCallType DEF IInv, TypeOK, CreateFirst, Calls, JobState, Creating, CreateStep,
      CreateObject, builderVars
<1>4. RowOpen'
  BY DEF IInv, TypeOK, RowOpen, Calls, CreateStep, CreateObject, builderVars
<1>5. ClickRecorded'
  BY DEF IInv, TypeOK, ClickRecorded, CreateStep, CreateObject, builderVars
<1>6. ReportedOnce'
  BY DEF IInv, TypeOK, ReportedOnce, CreateFirst, Creating, CreateStep, CreateObject, builderVars
<1>7. EventsTrue'
  <2> SUFFICES ASSUME NEW e \in net PROVE EventTrue(e)'
    BY DEF CreateStep, builderVars, EventsTrue
  <2>1. EventTrue(e) /\ e.job \in Jobs
    BY DEF IInv, TypeOK, EventsTrue, Event
  <2>2. e.job # j
    BY <2>1 DEF CreateStep, EventTrue, Creating
  <2>3. QED BY <2>1, <2>2 DEF IInv, TypeOK, CreateStep, builderVars, EventTrue, Creating
<1>8. MountsKept'
  BY NextCallType DEF IInv, TypeOK, MountsKept, Calls, Mounts, Objects, CreateStep, CreateObject,
      builderVars
<1>9. QED BY <1>1, <1>2, <1>3, <1>4, <1>5, <1>6, <1>7, <1>8 DEF IInv

LEMMA CreateFailsInv ==
  ASSUME IInv, TypeOK', NEW j \in Jobs, CreateFails(j)
  PROVE  IInv'
<1>1. RemoversLate'
  BY DEF IInv, CreateFails, Refuse, Abort, kubeVars, builderVars, RemoversLate
<1>2. CanceledByUser'
  BY DEF IInv, TypeOK, CanceledByUser, CreateFails, Refuse, Abort, InsertRow, CreateObject, kubeVars, builderVars
<1>3. ResultIsReported'
  <2>1. \A i \in Jobs \ {j} : create'[i] = create[i] /\ kjob'[i] = kjob[i] /\ objs'[i] = objs[i]
                            /\ row'[i] = row[i]
    BY DEF IInv, TypeOK, CreateFails, Refuse, Abort, InsertRow, CreateObject, kubeVars
  <2>2. /\ kjob[j] = "absent" /\ builder[j] = "none" /\ outcome[j] = "none" /\ create[j] # "refused"
        /\ create[j] = "insert" => objs[j] = {}
    BY DEF IInv, CreateFirst, Creating, CreateFails, Calls
  <2>3. CASE Refuse(j) /\ create[j] = "insert" /\ UNCHANGED kubeVars
    <3>1. row'[j] = "failed" /\ create'[j] = "refused" /\ kjob'[j] = "absent" /\ objs'[j] = {}
      BY <2>2, <2>3 DEF IInv, TypeOK, Refuse, InsertRow, kubeVars
    <3>2. QED BY <2>1, <2>2, <3>1 DEF IInv, ResultIsReported, CreateFails, builderVars
  <2>4. CASE Abort(j)
    <3>1. create'[j] = "aborted" /\ row'[j] \in {row[j], "pending"}
      BY <2>4 DEF IInv, TypeOK, CreateFails, Abort, Refuse, InsertRow
    <3>2. row'[j] \notin {"succeeded", "failed"}
      BY <2>2, <3>1 DEF IInv, ResultIsReported
    <3>3. QED BY <2>1, <3>1, <3>2 DEF IInv, ResultIsReported, CreateFails, builderVars
  <2>5. QED BY <2>3, <2>4 DEF CreateFails
<1>4. CreateFirst'
  BY DEF IInv, TypeOK, CreateFirst, Creating, Calls, CreateFails, Refuse, Abort, InsertRow, CreateObject,
      kubeVars, builderVars
<1>5. RowOpen'
  BY DEF IInv, TypeOK, RowOpen, Calls, CreateFails, Refuse, Abort, InsertRow, CreateObject, kubeVars, builderVars
<1>6. ClickRecorded'
  BY DEF IInv, TypeOK, ClickRecorded, CreateFails, Refuse, Abort, InsertRow, CreateObject, kubeVars, builderVars
<1>7. ReportedOnce'
  BY DEF IInv, TypeOK, ReportedOnce, CreateFirst, Creating, Calls, CreateFails, Refuse, Abort, InsertRow,
      CreateObject, kubeVars, builderVars
<1>8. EventsTrue'
  <2> SUFFICES ASSUME NEW e \in net PROVE EventTrue(e)'
    BY DEF CreateFails, Refuse, Abort, builderVars, EventsTrue
  <2>1. EventTrue(e) /\ e.job \in Jobs
    BY DEF IInv, TypeOK, EventsTrue, Event
  <2>2. e.job # j
    BY <2>1 DEF CreateFails, Refuse, Abort, EventTrue, Creating
  <2>3. QED BY <2>1, <2>2 DEF IInv, TypeOK, CreateFails, Refuse, Abort, builderVars, EventTrue, Creating
<1>9. RunRecorded'
  BY DEF IInv, TypeOK, RunRecorded, StatusEvent, CreateFails, Refuse, Abort, InsertRow, CreateObject, kubeVars,
      builderVars
<1>10. MountsKept'
  BY DEF IInv, TypeOK, MountsKept, CreateFails, Refuse, Abort, InsertRow, CreateObject, kubeVars, builderVars
<1>11. QED BY <1>1, <1>2, <1>3, <1>4, <1>5, <1>6, <1>7, <1>8, <1>9, <1>10 DEF IInv

LEMMA CancelReadInv ==
  ASSUME IInv, TypeOK', NEW r \in Requests, NEW j \in Jobs, CancelRead(r, j)
  PROVE  IInv'
<1>1. ResultIsReported' /\ EventsTrue' /\ RemoversLate' /\ MountsKept'
  BY DEF IInv, CancelRead, kubeVars, builderVars, ResultIsReported, EventsTrue, RemoversLate,
      MountsKept, Creating, EventTrue
<1>2. CanceledByUser'
  BY DEF IInv, TypeOK, CanceledByUser, CancelRead, kubeVars, builderVars
<1>3. CreateFirst'
  BY DEF IInv, TypeOK, CreateFirst, Creating, CancelRead, kubeVars, builderVars
<1>4. RowOpen'
  BY DEF IInv, TypeOK, RowOpen, Calls, CancelRead, kubeVars, builderVars
<1>5. ClickRecorded'
  BY DEF IInv, TypeOK, ClickRecorded, CancelRead, kubeVars, builderVars
<1>6. ReportedOnce'
  BY DEF IInv, TypeOK, ReportedOnce, CancelRead, kubeVars, builderVars
<1>7. RunRecorded'
  BY DEF IInv, TypeOK, RunRecorded, StatusEvent, CancelRead, kubeVars, builderVars
<1>8. QED BY <1>1, <1>2, <1>3, <1>4, <1>5, <1>6, <1>7 DEF IInv

LEMMA CancelGetInv ==
  ASSUME IInv, TypeOK', NEW r \in Requests, CancelGet(r)
  PROVE  IInv'
<1>1. CanceledByUser' /\ ResultIsReported' /\ RowOpen' /\ ReportedOnce' /\ EventsTrue' /\
    RemoversLate' /\ RunRecorded' /\ MountsKept'
  BY DEF IInv, CancelGet, kubeVars, builderVars, CanceledByUser, ResultIsReported, RowOpen,
      ReportedOnce, EventsTrue, RemoversLate, RunRecorded, MountsKept, Creating, EventTrue
<1>2. CreateFirst'
  <2>1. /\ req'[r].job = req[r].job
        /\ req'[r].at = "core" => JobExists(req[r].job)
        /\ \A q \in Requests \ {r} : req'[q] = req[q]
    <3>1. CASE JobExists(req[r].job) /\ req' = [req EXCEPT ![r].at = "core"]
      BY <3>1 DEF IInv, TypeOK, Request
    <3>2. CASE req' = [req EXCEPT ![r] = [@ EXCEPT !.at = "store", !.missing = TRUE]]
      BY <3>2 DEF IInv, TypeOK, Request
    <3>3. QED BY <3>1, <3>2 DEF CancelGet
  <2>2. QED BY <2>1 DEF IInv, CreateFirst, Creating, JobExists, CancelGet, kubeVars, builderVars
<1>3. ClickRecorded'
  <2>1. req'[r].job = req[r].job /\ \A q \in Requests \ {r} : req'[q] = req[q]
    <3>1. CASE req' = [req EXCEPT ![r].at = "core"]
      BY <3>1 DEF IInv, TypeOK, Request
    <3>2. CASE req' = [req EXCEPT ![r] = [@ EXCEPT !.at = "store", !.missing = TRUE]]
      BY <3>2 DEF IInv, TypeOK, Request
    <3>3. QED BY <3>1, <3>2 DEF CancelGet
  <2>2. QED BY <2>1 DEF IInv, ClickRecorded, CancelGet, kubeVars, builderVars
<1>4. QED BY <1>1, <1>2, <1>3 DEF IInv

LEMMA CancelCoreInv ==
  ASSUME IInv, TypeOK', NEW r \in Requests, CancelCore(r)
  PROVE  IInv'
<1>1. CanceledByUser' /\ EventsTrue' /\ RemoversLate' /\ RunRecorded'
  BY DEF IInv, CancelCore, builderVars, CanceledByUser, EventsTrue, RemoversLate, RunRecorded,
      Creating, EventTrue
<1>2. ResultIsReported'
  BY DEF IInv, TypeOK, ResultIsReported, CancelCore, RemoveCore, builderVars
<1>3. CreateFirst'
  BY DEF IInv, TypeOK, CreateFirst, Creating, CancelCore, RemoveCore, builderVars
<1>4. RowOpen'
  BY DEF IInv, TypeOK, RowOpen, Calls, CancelCore, RemoveCore, builderVars
<1>5. ClickRecorded'
  BY DEF IInv, TypeOK, ClickRecorded, CancelCore, RemoveCore, builderVars
<1>6. ReportedOnce'
  BY DEF IInv, TypeOK, ReportedOnce, CancelCore, RemoveCore, builderVars
<1>7. MountsKept'
  BY DEF IInv, TypeOK, MountsKept, CreateFirst, Creating, Calls, Mounts, CancelCore, RemoveCore,
      builderVars
<1>8. QED BY <1>1, <1>2, <1>3, <1>4, <1>5, <1>6, <1>7 DEF IInv

LEMMA CancelStoreInv ==
  ASSUME IInv, TypeOK', NEW r \in Requests, CancelStore(r)
  PROVE  IInv'
<1>1. ReportedOnce' /\ EventsTrue' /\ RemoversLate' /\ MountsKept'
  BY DEF IInv, CancelStore, kubeVars, builderVars, ReportedOnce, EventsTrue, RemoversLate,
      MountsKept, Creating, EventTrue
<1>2. CanceledByUser'
  BY DEF IInv, TypeOK, CanceledByUser, ClickRecorded, CancelStore, UpdateStatus, AllowedFrom,
      Target, AfterStore, Return, kubeVars, builderVars
<1>3. ResultIsReported'
  <2>1. /\ \A i \in Jobs : row'[i] \in {"succeeded", "failed"} <=> row[i] \in {"succeeded", "failed"}
        /\ \A i \in Jobs : row[i] \in {"succeeded", "failed"} => row'[i] = row[i]
    BY DEF IInv, TypeOK, Status, Live, Terminal, CancelStore, UpdateStatus, AllowedFrom, Target
  <2>2. UNCHANGED <<create, kjob, objs, builder, outcome>>
    BY DEF CancelStore, kubeVars, builderVars
  <2>3. QED BY <2>1, <2>2 DEF IInv, ResultIsReported
<1>4. CreateFirst'
  <2>1. \A i \in Jobs : row'[i] = "none" <=> row[i] = "none"
    BY DEF IInv, TypeOK, CancelStore, UpdateStatus, AllowedFrom, Target
  <2>2. \A q \in Requests : req'[q].at = "core" => req[q].at = "core" /\ req'[q].job = req[q].job
    BY DEF IInv, TypeOK, CancelStore, AfterStore, Return
  <2>3. UNCHANGED <<create, kjob, objs, builder, outcome>>
    BY DEF CancelStore, kubeVars, builderVars
  <2>4. QED BY <2>1, <2>2, <2>3 DEF IInv, CreateFirst, Creating
<1>5. RowOpen'
  BY DEF IInv, TypeOK, RowOpen, ClickRecorded, Calls, CancelStore, UpdateStatus, AllowedFrom,
      Target, AfterStore, Return, kubeVars, builderVars
<1>6. ClickRecorded'
  BY DEF IInv, TypeOK, ClickRecorded, CancelStore, UpdateStatus, AllowedFrom, Target, AfterStore,
      Return, kubeVars, builderVars
<1>7. RunRecorded'
  BY DEF IInv, TypeOK, RunRecorded, ClickRecorded, StatusEvent, CancelStore, UpdateStatus,
      AllowedFrom, Target, AfterStore, Return, kubeVars, builderVars
<1>8. QED BY <1>1, <1>2, <1>3, <1>4, <1>5, <1>6, <1>7 DEF IInv

LEMMA CancelStoreFailsInv ==
  ASSUME IInv, TypeOK', NEW r \in Requests, CancelStoreFails(r)
  PROVE  IInv'
<1>1. ReportedOnce' /\ EventsTrue' /\ RemoversLate' /\ MountsKept'
  BY DEF IInv, CancelStoreFails, kubeVars, builderVars, ReportedOnce, EventsTrue, RemoversLate,
      MountsKept, Creating, EventTrue
<1>2. CanceledByUser'
  BY DEF IInv, TypeOK, CanceledByUser, ClickRecorded, CancelStoreFails, UpdateStatus, AllowedFrom,
      Target, AfterStore, Return, kubeVars, builderVars
<1>3. ResultIsReported'
  <2>1. /\ \A i \in Jobs : row'[i] \in {"succeeded", "failed"} <=> row[i] \in {"succeeded", "failed"}
        /\ \A i \in Jobs : row[i] \in {"succeeded", "failed"} => row'[i] = row[i]
    BY DEF IInv, TypeOK, Status, Live, Terminal, CancelStoreFails, UpdateStatus, AllowedFrom, Target
  <2>2. UNCHANGED <<create, kjob, objs, builder, outcome>>
    BY DEF CancelStoreFails, kubeVars, builderVars
  <2>3. QED BY <2>1, <2>2 DEF IInv, ResultIsReported
<1>4. CreateFirst'
  <2>1. \A i \in Jobs : row'[i] = "none" <=> row[i] = "none"
    BY DEF IInv, TypeOK, CancelStoreFails, UpdateStatus, AllowedFrom, Target
  <2>2. \A q \in Requests : req'[q].at = "core" => req[q].at = "core" /\ req'[q].job = req[q].job
    BY DEF IInv, TypeOK, CancelStoreFails, AfterStore, Return
  <2>3. UNCHANGED <<create, kjob, objs, builder, outcome>>
    BY DEF CancelStoreFails, kubeVars, builderVars
  <2>4. QED BY <2>1, <2>2, <2>3 DEF IInv, CreateFirst, Creating
<1>5. RowOpen'
  BY DEF IInv, TypeOK, RowOpen, ClickRecorded, Calls, CancelStoreFails, UpdateStatus, AllowedFrom,
      Target, AfterStore, Return, kubeVars, builderVars
<1>6. ClickRecorded'
  BY DEF IInv, TypeOK, ClickRecorded, CancelStoreFails, UpdateStatus, AllowedFrom, Target,
      AfterStore, Return, kubeVars, builderVars
<1>7. RunRecorded'
  BY DEF IInv, TypeOK, RunRecorded, ClickRecorded, StatusEvent, CancelStoreFails, UpdateStatus,
      AllowedFrom, Target, AfterStore, Return, kubeVars, builderVars
<1>8. QED BY <1>1, <1>2, <1>3, <1>4, <1>5, <1>6, <1>7 DEF IInv

LEMMA CancelSettleInv ==
  ASSUME IInv, TypeOK', NEW r \in Requests, CancelSettle(r)
  PROVE  IInv'
<1>1. ReportedOnce' /\ EventsTrue' /\ RemoversLate' /\ MountsKept'
  BY DEF IInv, CancelSettle, kubeVars, builderVars, ReportedOnce, EventsTrue, RemoversLate,
      MountsKept, Creating, EventTrue
<1>2. CanceledByUser'
  BY DEF IInv, TypeOK, CanceledByUser, ClickRecorded, CancelSettle, UpdateStatus, AllowedFrom,
      Return, kubeVars, builderVars
<1>3. ResultIsReported'
  BY DEF IInv, TypeOK, ResultIsReported, CancelSettle, UpdateStatus, AllowedFrom, Return,
      kubeVars, builderVars
<1>4. CreateFirst'
  BY DEF IInv, TypeOK, CreateFirst, Creating, CancelSettle, UpdateStatus, AllowedFrom, Return,
      kubeVars, builderVars
<1>5. RowOpen'
  BY DEF IInv, TypeOK, RowOpen, ClickRecorded, Calls, CancelSettle, UpdateStatus, AllowedFrom,
      Return, kubeVars, builderVars
<1>6. ClickRecorded'
  BY DEF IInv, TypeOK, ClickRecorded, CancelSettle, UpdateStatus, AllowedFrom, Return, kubeVars,
      builderVars
<1>7. RunRecorded'
  BY DEF IInv, TypeOK, RunRecorded, ClickRecorded, StatusEvent, CancelSettle, UpdateStatus,
      AllowedFrom, Return, kubeVars, builderVars
<1>8. QED BY <1>1, <1>2, <1>3, <1>4, <1>5, <1>6, <1>7 DEF IInv

LEMMA CancelSettleFailsInv ==
  ASSUME IInv, TypeOK', NEW r \in Requests, CancelSettleFails(r)
  PROVE  IInv'
<1>1. ReportedOnce' /\ EventsTrue' /\ RemoversLate' /\ MountsKept'
  BY DEF IInv, CancelSettleFails, kubeVars, builderVars, ReportedOnce, EventsTrue, RemoversLate,
      MountsKept, Creating, EventTrue
<1>2. CanceledByUser'
  BY DEF IInv, TypeOK, CanceledByUser, ClickRecorded, CancelSettleFails, UpdateStatus,
      AllowedFrom, Return, kubeVars, builderVars
<1>3. ResultIsReported'
  BY DEF IInv, TypeOK, ResultIsReported, CancelSettleFails, UpdateStatus, AllowedFrom, Return,
      kubeVars, builderVars
<1>4. CreateFirst'
  BY DEF IInv, TypeOK, CreateFirst, Creating, CancelSettleFails, UpdateStatus, AllowedFrom,
      Return, kubeVars, builderVars
<1>5. RowOpen'
  BY DEF IInv, TypeOK, RowOpen, ClickRecorded, Calls, CancelSettleFails, UpdateStatus,
      AllowedFrom, Return, kubeVars, builderVars
<1>6. ClickRecorded'
  BY DEF IInv, TypeOK, ClickRecorded, CancelSettleFails, UpdateStatus, AllowedFrom, Return,
      kubeVars, builderVars
<1>7. RunRecorded'
  BY DEF IInv, TypeOK, RunRecorded, ClickRecorded, StatusEvent, CancelSettleFails, UpdateStatus,
      AllowedFrom, Return, kubeVars, builderVars
<1>8. QED BY <1>1, <1>2, <1>3, <1>4, <1>5, <1>6, <1>7 DEF IInv

LEMMA PodStartInv ==
  ASSUME IInv, TypeOK', NEW j \in Jobs, PodStart(j)
  PROVE  IInv'
<1>1. CanceledByUser' /\ MountsKept'
  BY DEF IInv, PodStart, kubeVars, apiVars, CanceledByUser, MountsKept
<1>2. ResultIsReported'
  BY DEF IInv, TypeOK, ResultIsReported, PodStart, Send, StatusEvent, kubeVars, apiVars
<1>3. CreateFirst'
  BY DEF IInv, TypeOK, CreateFirst, Creating, PodStart, Send, StatusEvent, kubeVars, apiVars
<1>4. RowOpen'
  BY DEF IInv, TypeOK, RowOpen, Calls, PodStart, Send, StatusEvent, kubeVars, apiVars
<1>5. ClickRecorded'
  BY DEF IInv, TypeOK, ClickRecorded, PodStart, Send, StatusEvent, kubeVars, apiVars
<1>6. ReportedOnce'
  BY DEF IInv, TypeOK, ReportedOnce, PodStart, Send, StatusEvent, kubeVars, apiVars
<1>7. EventsTrue'
  BY DEF IInv, TypeOK, EventsTrue, CreateFirst, JobState, EventTrue, Creating, PodStart, Send,
      StatusEvent, kubeVars, apiVars
<1>8. RemoversLate'
  BY DEF IInv, TypeOK, RemoversLate, PodStart, Send, StatusEvent, kubeVars, apiVars
<1>9. RunRecorded'
  BY DEF IInv, TypeOK, RunRecorded, ReportedOnce, NoEvent, StatusEvent, PodStart, Send, kubeVars,
      apiVars
<1>10. QED BY <1>1, <1>2, <1>3, <1>4, <1>5, <1>6, <1>7, <1>8, <1>9 DEF IInv

LEMMA BuilderFinishesInv ==
  ASSUME IInv, TypeOK', NEW j \in Jobs, BuilderFinishes(j)
  PROVE  IInv'
<1>1. CanceledByUser' /\ MountsKept'
  BY DEF IInv, BuilderFinishes, Report, Send, kubeVars, apiVars, CanceledByUser, MountsKept
<1>2. ResultIsReported'
  BY DEF IInv, TypeOK, ResultIsReported, ReportedOnce, BuilderFinishes, Report, Send, StatusEvent,
      NoEvent, kubeVars, apiVars
<1>3. CreateFirst'
  BY DEF IInv, TypeOK, CreateFirst, Creating, BuilderFinishes, Report, Send, StatusEvent, NoEvent,
      kubeVars, apiVars
<1>4. RowOpen'
  BY DEF IInv, TypeOK, RowOpen, Calls, BuilderFinishes, Report, Send, StatusEvent, NoEvent,
      kubeVars, apiVars
<1>5. ClickRecorded'
  BY DEF IInv, TypeOK, ClickRecorded, BuilderFinishes, Report, Send, StatusEvent, NoEvent,
      kubeVars, apiVars
<1>6. ReportedOnce'
  BY DEF IInv, TypeOK, ReportedOnce, BuilderFinishes, Report, Send, StatusEvent, NoEvent,
      kubeVars, apiVars
<1>7. EventsTrue'
  <2>1. outcome[j] = "none" /\ builder[j] = "running" /\ ~Creating(j)
    BY DEF IInv, TypeOK, CreateFirst, ReportedOnce, BuilderFinishes
  <2>2. PICK s \in Outcome : Report(j, s)
    BY DEF BuilderFinishes, Outcome
  <2>3. ASSUME NEW e \in net PROVE EventTrue(e)'
    <3>1. e \in Event /\ EventTrue(e)
      BY DEF IInv, TypeOK, EventsTrue
    <3>2. e.job \in Jobs /\ (e.type = "status" \/ e.type = "clean")
      BY <3>1 DEF Event
    <3>3. e.job = j => e.type = "status" /\ e.status = "running"
      <4>1. e.status = "running" \/ e.status \in Outcome
        BY <3>1 DEF Event
      <4>2. e.job = j => e.type # "clean"
        BY <2>1, <3>1 DEF EventTrue
      <4>3. e.job = j /\ e.type = "status" => e.status \notin Outcome
        BY <2>1, <3>1 DEF EventTrue, Outcome
      <4>4. QED BY <3>2, <4>1, <4>2, <4>3
    <3>4. /\ create' = create
          /\ e.job # j => builder'[e.job] = builder[e.job] /\ outcome'[e.job] = outcome[e.job]
      BY <2>2, <3>2 DEF IInv, TypeOK, Report, apiVars
    <3>5. CASE e.job # j
      BY <3>1, <3>4, <3>5 DEF EventTrue, Creating
    <3>6. CASE e.job = j
      BY <2>1, <3>3, <3>4, <3>6 DEF EventTrue, Creating
    <3>7. QED BY <3>5, <3>6
  <2>4. EventTrue(StatusEvent(j, s))'
    BY <2>1, <2>2 DEF IInv, TypeOK, EventTrue, StatusEvent, Creating, Report, apiVars
  <2>5. QED BY <2>2, <2>3, <2>4 DEF EventsTrue, Report, Send
<1>8. RemoversLate'
  BY DEF IInv, TypeOK, RemoversLate, BuilderFinishes, Report, Send, StatusEvent, NoEvent,
      kubeVars, apiVars
<1>9. RunRecorded'
  BY DEF IInv, TypeOK, RunRecorded, StatusEvent, BuilderFinishes, Report, Send, NoEvent, kubeVars,
      apiVars
<1>10. QED BY <1>1, <1>2, <1>3, <1>4, <1>5, <1>6, <1>7, <1>8, <1>9 DEF IInv

LEMMA BuilderStoppedInv ==
  ASSUME IInv, TypeOK', NEW j \in Jobs, BuilderStopped(j)
  PROVE  IInv'
<1>1. CanceledByUser' /\ MountsKept'
  BY DEF IInv, BuilderStopped, Report, Send, kubeVars, apiVars, CanceledByUser, MountsKept
<1>2. ResultIsReported'
  BY DEF IInv, TypeOK, ResultIsReported, ReportedOnce, BuilderStopped, Report, Send, StatusEvent,
      kubeVars, apiVars
<1>3. CreateFirst'
  BY DEF IInv, TypeOK, CreateFirst, Creating, BuilderStopped, Report, Send, StatusEvent, kubeVars,
      apiVars
<1>4. RowOpen'
  BY DEF IInv, TypeOK, RowOpen, Calls, BuilderStopped, Report, Send, StatusEvent, kubeVars, apiVars
<1>5. ClickRecorded'
  BY DEF IInv, TypeOK, ClickRecorded, BuilderStopped, Report, Send, StatusEvent, kubeVars, apiVars
<1>6. ReportedOnce'
  BY DEF IInv, TypeOK, ReportedOnce, ClickRecorded, BuilderStopped, Report, Send, StatusEvent,
      kubeVars, apiVars
<1>7. EventsTrue'
  <2>1. outcome[j] = "none" /\ builder[j] = "running" /\ ~Creating(j)
    BY DEF IInv, TypeOK, CreateFirst, ReportedOnce, BuilderStopped
  <2>2. PICK s \in Outcome : Report(j, s)
    BY DEF BuilderStopped, Outcome
  <2>3. ASSUME NEW e \in net PROVE EventTrue(e)'
    <3>1. e \in Event /\ EventTrue(e)
      BY DEF IInv, TypeOK, EventsTrue
    <3>2. e.job \in Jobs /\ (e.type = "status" \/ e.type = "clean")
      BY <3>1 DEF Event
    <3>3. e.job = j => e.type = "status" /\ e.status = "running"
      <4>1. e.status = "running" \/ e.status \in Outcome
        BY <3>1 DEF Event
      <4>2. e.job = j => e.type # "clean"
        BY <2>1, <3>1 DEF EventTrue
      <4>3. e.job = j /\ e.type = "status" => e.status \notin Outcome
        BY <2>1, <3>1 DEF EventTrue, Outcome
      <4>4. QED BY <3>2, <4>1, <4>2, <4>3
    <3>4. /\ create' = create
          /\ e.job # j => builder'[e.job] = builder[e.job] /\ outcome'[e.job] = outcome[e.job]
      BY <2>2, <3>2 DEF IInv, TypeOK, Report, apiVars
    <3>5. CASE e.job # j
      BY <3>1, <3>4, <3>5 DEF EventTrue, Creating
    <3>6. CASE e.job = j
      BY <2>1, <3>3, <3>4, <3>6 DEF EventTrue, Creating
    <3>7. QED BY <3>5, <3>6
  <2>4. EventTrue(StatusEvent(j, s))'
    BY <2>1, <2>2 DEF IInv, TypeOK, EventTrue, StatusEvent, Creating, Report, apiVars
  <2>5. QED BY <2>2, <2>3, <2>4 DEF EventsTrue, Report, Send
<1>8. RemoversLate'
  BY DEF IInv, TypeOK, RemoversLate, BuilderStopped, Report, Send, StatusEvent, kubeVars, apiVars
<1>9. RunRecorded'
  BY DEF IInv, TypeOK, RunRecorded, ClickRecorded, StatusEvent, BuilderStopped, Report, Send,
      kubeVars, apiVars
<1>10. QED BY <1>1, <1>2, <1>3, <1>4, <1>5, <1>6, <1>7, <1>8, <1>9 DEF IInv

LEMMA BuilderCleansInv ==
  ASSUME IInv, TypeOK', NEW j \in Jobs, BuilderCleans(j)
  PROVE  IInv'
<1>1. CanceledByUser' /\ MountsKept'
  BY DEF IInv, BuilderCleans, kubeVars, apiVars, CanceledByUser, MountsKept
<1>2. ResultIsReported'
  BY DEF IInv, TypeOK, ResultIsReported, BuilderCleans, Send, CleanEvent, NoEvent, kubeVars, apiVars
<1>3. CreateFirst'
  BY DEF IInv, TypeOK, CreateFirst, Creating, BuilderCleans, Send, CleanEvent, NoEvent, kubeVars,
      apiVars
<1>4. RowOpen'
  BY DEF IInv, TypeOK, RowOpen, Calls, BuilderCleans, Send, CleanEvent, NoEvent, kubeVars, apiVars
<1>5. ClickRecorded'
  BY DEF IInv, TypeOK, ClickRecorded, BuilderCleans, Send, CleanEvent, NoEvent, kubeVars, apiVars
<1>6. ReportedOnce'
  BY DEF IInv, TypeOK, ReportedOnce, BuilderCleans, Send, CleanEvent, NoEvent, kubeVars, apiVars
<1>7. EventsTrue'
  BY DEF IInv, TypeOK, EventsTrue, CreateFirst, JobState, EventTrue, Creating, BuilderCleans,
      Send, CleanEvent, NoEvent, kubeVars, apiVars
<1>8. RemoversLate'
  BY DEF IInv, TypeOK, RemoversLate, BuilderCleans, Send, CleanEvent, NoEvent, kubeVars, apiVars
<1>9. RunRecorded'
  BY DEF IInv, TypeOK, RunRecorded, StatusEvent, BuilderCleans, Send, CleanEvent, NoEvent,
      kubeVars, apiVars
<1>10. QED BY <1>1, <1>2, <1>3, <1>4, <1>5, <1>6, <1>7, <1>8, <1>9 DEF IInv

LEMMA PodKilledInv ==
  ASSUME IInv, TypeOK', NEW j \in Jobs, PodKilled(j)
  PROVE  IInv'
<1>1. CanceledByUser' /\ MountsKept'
  BY DEF IInv, PodKilled, kubeVars, apiVars, CanceledByUser, MountsKept
<1>2. ResultIsReported'
  BY DEF IInv, TypeOK, ResultIsReported, PodKilled, kubeVars, apiVars
<1>3. CreateFirst'
  BY DEF IInv, TypeOK, CreateFirst, Creating, PodKilled, kubeVars, apiVars
<1>4. RowOpen'
  BY DEF IInv, TypeOK, RowOpen, Calls, PodKilled, kubeVars, apiVars
<1>5. ClickRecorded'
  BY DEF IInv, TypeOK, ClickRecorded, PodKilled, kubeVars, apiVars
<1>6. ReportedOnce'
  BY DEF IInv, TypeOK, ReportedOnce, PodKilled, kubeVars, apiVars
<1>7. EventsTrue'
  BY DEF IInv, TypeOK, EventsTrue, EventTrue, Creating, PodKilled, kubeVars, apiVars
<1>8. RemoversLate'
  BY DEF IInv, TypeOK, RemoversLate, PodKilled, kubeVars, apiVars
<1>9. RunRecorded'
  BY DEF IInv, TypeOK, RunRecorded, ClickRecorded, StatusEvent, PodKilled, kubeVars, apiVars
<1>10. QED BY <1>1, <1>2, <1>3, <1>4, <1>5, <1>6, <1>7, <1>8, <1>9 DEF IInv

LEMMA PodCrashInv ==
  ASSUME IInv, TypeOK', NEW j \in Jobs, PodCrash(j)
  PROVE  IInv'
<1>1. CanceledByUser' /\ MountsKept'
  BY DEF IInv, PodCrash, kubeVars, apiVars, CanceledByUser, MountsKept
<1>2. ResultIsReported'
  BY DEF IInv, TypeOK, ResultIsReported, PodCrash, kubeVars, apiVars
<1>3. CreateFirst'
  BY DEF IInv, TypeOK, CreateFirst, Creating, PodCrash, kubeVars, apiVars
<1>4. RowOpen'
  BY DEF IInv, TypeOK, RowOpen, Calls, PodCrash, kubeVars, apiVars
<1>5. ClickRecorded'
  BY DEF IInv, TypeOK, ClickRecorded, PodCrash, kubeVars, apiVars
<1>6. ReportedOnce'
  BY DEF IInv, TypeOK, ReportedOnce, PodCrash, kubeVars, apiVars
<1>7. EventsTrue'
  BY DEF IInv, TypeOK, EventsTrue, EventTrue, Creating, PodCrash, kubeVars, apiVars
<1>8. RemoversLate'
  BY DEF IInv, TypeOK, RemoversLate, PodCrash, kubeVars, apiVars
<1>9. RunRecorded'
  BY DEF IInv, TypeOK, RunRecorded, ReportedOnce, StatusEvent, PodCrash, kubeVars, apiVars
<1>10. QED BY <1>1, <1>2, <1>3, <1>4, <1>5, <1>6, <1>7, <1>8, <1>9 DEF IInv

LEMMA CollectJobInv ==
  ASSUME IInv, TypeOK', NEW j \in Jobs, CollectJob(j)
  PROVE  IInv'
<1>1. CanceledByUser' /\ EventsTrue' /\ RemoversLate' /\ RunRecorded'
  BY DEF IInv, CollectJob, apiVars, builderVars, CanceledByUser, EventsTrue, RemoversLate,
      RunRecorded, Creating, EventTrue
<1>2. ResultIsReported'
  BY DEF IInv, TypeOK, ResultIsReported, CollectJob, apiVars, builderVars
<1>3. CreateFirst'
  BY DEF IInv, TypeOK, CreateFirst, Creating, CollectJob, apiVars, builderVars
<1>4. RowOpen'
  BY DEF IInv, TypeOK, RowOpen, Calls, CollectJob, apiVars, builderVars
<1>5. ClickRecorded'
  BY DEF IInv, TypeOK, ClickRecorded, CollectJob, apiVars, builderVars
<1>6. ReportedOnce'
  BY DEF IInv, TypeOK, ReportedOnce, CollectJob, apiVars, builderVars
<1>7. MountsKept'
  BY DEF IInv, TypeOK, MountsKept, CollectJob, apiVars, builderVars
<1>8. QED BY <1>1, <1>2, <1>3, <1>4, <1>5, <1>6, <1>7 DEF IInv

LEMMA GiveUpInv ==
  ASSUME IInv, TypeOK', NEW j \in Jobs, GiveUp(j)
  PROVE  IInv'
<1>1. CanceledByUser' /\ ResultIsReported' /\ CreateFirst' /\ RowOpen' /\ ClickRecorded' /\
    ReportedOnce' /\ RemoversLate' /\ MountsKept'
  BY DEF IInv, GiveUp, kubeVars, apiVars, CanceledByUser, ResultIsReported, CreateFirst, RowOpen,
      ClickRecorded, ReportedOnce, RemoversLate, MountsKept, Creating
<1>2. EventsTrue'
  BY DEF IInv, TypeOK, EventsTrue, EventTrue, Creating, GiveUp, kubeVars, apiVars
<1>3. RunRecorded'
  BY DEF IInv, TypeOK, RunRecorded, StatusEvent, GiveUp, kubeVars, apiVars
<1>4. QED BY <1>1, <1>2, <1>3 DEF IInv

LEMMA RemoverGetInv ==
  ASSUME IInv, TypeOK', NEW j \in Jobs, RemoverGet(j)
  PROVE  IInv'
<1>1. CanceledByUser' /\ ResultIsReported' /\ CreateFirst' /\ RowOpen' /\ ClickRecorded' /\
    ReportedOnce' /\ EventsTrue' /\ RunRecorded' /\ MountsKept'
  BY DEF IInv, RemoverGet, kubeVars, builderVars, CanceledByUser, ResultIsReported, CreateFirst,
      RowOpen, ClickRecorded, ReportedOnce, EventsTrue, RunRecorded, MountsKept, Creating,
      EventTrue
<1>2. RemoversLate'
  BY DEF IInv, TypeOK, RemoversLate, RemoverGet, JobExists, kubeVars, builderVars
<1>3. QED BY <1>1, <1>2 DEF IInv

LEMMA RemoveJobInv ==
  ASSUME IInv, TypeOK', NEW j \in Jobs, RemoveJob(j)
  PROVE  IInv'
<1>1. CanceledByUser' /\ EventsTrue' /\ RunRecorded'
  BY DEF IInv, RemoveJob, builderVars, CanceledByUser, EventsTrue, RunRecorded, Creating, EventTrue
<1>2. ResultIsReported'
  BY DEF IInv, TypeOK, ResultIsReported, RemoveJob, RemoveCore, builderVars
<1>3. CreateFirst'
  BY DEF IInv, TypeOK, CreateFirst, Creating, RemoveJob, RemoveCore, builderVars
<1>4. RowOpen'
  BY DEF IInv, TypeOK, RowOpen, Calls, RemoveJob, RemoveCore, builderVars
<1>5. ClickRecorded'
  BY DEF IInv, TypeOK, ClickRecorded, RemoversLate, RemoveJob, RemoveCore, builderVars
<1>6. ReportedOnce'
  BY DEF IInv, TypeOK, ReportedOnce, RemoveJob, RemoveCore, builderVars
<1>7. RemoversLate'
  BY DEF IInv, TypeOK, RemoversLate, RemoveJob, RemoveCore, builderVars
<1>8. MountsKept'
  BY DEF IInv, TypeOK, MountsKept, RemoversLate, CreateFirst, Creating, Calls, Mounts, RemoveJob,
      RemoveCore, builderVars
<1>9. QED BY <1>1, <1>2, <1>3, <1>4, <1>5, <1>6, <1>7, <1>8 DEF IInv

LEMMA HandleStatusInv ==
  ASSUME IInv, TypeOK', NEW e \in net, NEW again \in BOOLEAN, HandleStatus(e, again)
  PROVE  IInv'
<1>1. ClickRecorded' /\ ReportedOnce' /\ RemoversLate' /\ MountsKept'
  BY DEF IInv, HandleStatus, Answer, kubeVars, apiVars, ClickRecorded, ReportedOnce, RemoversLate,
      MountsKept
<1>2. CanceledByUser'
  BY DEF IInv, TypeOK, CanceledByUser, EventsTrue, EventTrue, ReportedOnce, HandleStatus,
      UpdateStatus, AllowedFrom, Answer, Event, Outcome, kubeVars, apiVars
<1>3. ResultIsReported'
  BY DEF IInv, TypeOK, ResultIsReported, EventsTrue, EventTrue, HandleStatus, UpdateStatus,
      AllowedFrom, Answer, Event, Outcome, kubeVars, apiVars
<1>4. CreateFirst'
  BY DEF IInv, TypeOK, CreateFirst, EventsTrue, EventTrue, Creating, Calls, HandleStatus,
      UpdateStatus, AllowedFrom, Answer, Event, Outcome, kubeVars, apiVars
<1>5. RowOpen'
  BY DEF IInv, TypeOK, RowOpen, EventsTrue, EventTrue, ReportedOnce, Creating, Calls,
      HandleStatus, UpdateStatus, AllowedFrom, Answer, Event, Outcome, kubeVars, apiVars
<1>6. EventsTrue'
  BY DEF IInv, TypeOK, EventsTrue, EventTrue, Creating, HandleStatus, UpdateStatus, AllowedFrom,
      Answer, Event, Outcome, kubeVars, apiVars
<1>7. RunRecorded'
  BY DEF IInv, TypeOK, RunRecorded, EventsTrue, EventTrue, ReportedOnce, RowOpen, CreateFirst,
      Creating, NoEvent, StatusEvent, HandleStatus, UpdateStatus, AllowedFrom, Answer, Event,
      Outcome, kubeVars, apiVars
<1>8. QED BY <1>1, <1>2, <1>3, <1>4, <1>5, <1>6, <1>7 DEF IInv

LEMMA HandleCleanInv ==
  ASSUME IInv, TypeOK', NEW e \in net, NEW again \in BOOLEAN, HandleClean(e, again)
  PROVE  IInv'
<1>1. CanceledByUser' /\ ResultIsReported' /\ CreateFirst' /\ RowOpen' /\ ClickRecorded' /\
    ReportedOnce' /\ MountsKept'
  BY DEF IInv, HandleClean, Answer, kubeVars, CanceledByUser, ResultIsReported, CreateFirst,
      RowOpen, ClickRecorded, ReportedOnce, MountsKept, Creating
<1>2. EventsTrue'
  BY DEF IInv, TypeOK, EventsTrue, EventTrue, Creating, HandleClean, Answer, Event, Outcome,
      kubeVars
<1>3. RemoversLate'
  BY DEF IInv, TypeOK, RemoversLate, EventsTrue, EventTrue, HandleClean, Answer, Event, Outcome,
      kubeVars
<1>4. RunRecorded'
  <2>1. ASSUME NEW j \in Jobs
        PROVE  unanswered'[j] = unanswered[j] \/ (unanswered[j] = e /\ builder[j] = "exited")
    BY DEF IInv, TypeOK, EventsTrue, EventTrue, HandleClean, Answer
  <2>2. \A j \in Jobs : StatusEvent(j, outcome[j]) # e
    BY DEF HandleClean, StatusEvent
  <2>3. QED BY <2>1, <2>2 DEF IInv, RunRecorded, StatusEvent, HandleClean, kubeVars
<1>5. QED BY <1>1, <1>2, <1>3, <1>4 DEF IInv

-----------------------------------------------------------------------------
(* The inductive invariant, and what follows from it                         *)

LEMMA InvInit == Init => IInv
<1> SUFFICES ASSUME Init PROVE IInv
  OBVIOUS
<1>1. TypeOK
  BY TypeInit
<1>2. CanceledByUser /\ ResultIsReported /\ CreateFirst /\ RowOpen /\ ReportedOnce
  BY DEF Init, CanceledByUser, ResultIsReported, CreateFirst, RowOpen, ReportedOnce, Creating, Calls
<1>3. ClickRecorded /\ EventsTrue /\ RemoversLate /\ RunRecorded /\ MountsKept
  BY DEF Init, ClickRecorded, EventsTrue, RemoversLate, RunRecorded, MountsKept
<1>4. QED BY <1>1, <1>2, <1>3 DEF IInv

LEMMA InvStep == IInv /\ [Next]_vars => IInv'
<1> SUFFICES ASSUME IInv, [Next]_vars PROVE IInv'
  OBVIOUS
<1>1. TypeOK'
  BY TypeStep DEF IInv
<1>2. ASSUME NEW j \in Jobs, CreateNext(j) PROVE IInv'
  BY <1>1, <1>2, StoreRowInv, CreateStepInv, CreateFailsInv DEF CreateNext
<1>3. ASSUME NEW j \in Jobs, BuilderNext(j) PROVE IInv'
  BY <1>1, <1>3, PodStartInv, BuilderFinishesInv, BuilderStoppedInv, BuilderCleansInv,
     PodKilledInv, PodCrashInv, CollectJobInv, GiveUpInv DEF BuilderNext
<1>4. ASSUME NEW j \in Jobs, RemoverGet(j) \/ RemoveJob(j) PROVE IInv'
  BY <1>1, <1>4, RemoverGetInv, RemoveJobInv
<1>5. ASSUME NEW r \in Requests, CancelNext(r) PROVE IInv'
  BY <1>1, <1>5, CancelGetInv, CancelCoreInv, CancelStoreInv, CancelStoreFailsInv,
     CancelSettleInv, CancelSettleFailsInv DEF CancelNext
<1>6. ASSUME NEW r \in Requests, NEW j \in Jobs, CancelRead(r, j) PROVE IInv'
  BY <1>1, <1>6, CancelReadInv
<1>7. ASSUME NEW e \in net, NEW again \in BOOLEAN, Handle(e, again) PROVE IInv'
  BY <1>1, <1>7, HandleStatusInv, HandleCleanInv DEF Handle
<1>8. CASE UNCHANGED vars
  <2>1. /\ CanceledByUser' /\ ResultIsReported' /\ CreateFirst' /\ RowOpen' /\ ClickRecorded'
        /\ ReportedOnce' /\ EventsTrue'
    BY <1>8 DEF IInv, vars, CanceledByUser, ResultIsReported, CreateFirst, RowOpen,
         ClickRecorded, ReportedOnce, EventsTrue, EventTrue, Creating
  <2>2. RemoversLate' /\ RunRecorded' /\ MountsKept'
    BY <1>8 DEF IInv, vars, RemoversLate, RunRecorded, MountsKept, StatusEvent
  <2>3. QED BY <1>1, <2>1, <2>2 DEF IInv
<1>9. QED BY <1>2, <1>3, <1>4, <1>5, <1>6, <1>7, <1>8 DEF Next

(* The inductive invariant holds in every reachable state, whatever calls    *)
(* fail and however many jobs, requests, crashes and goroutines there are.   *)
THEOREM Safety == Spec => []IInv
<1>1. QED BY InvInit, InvStep, PTL DEF Spec

(* The state of handlers, jobs and events stays well formed.                 *)
THEOREM TypeCorrect == Spec => []TypeOK
<1>1. IInv => TypeOK
  BY DEF IInv
<1>2. QED BY <1>1, Safety, PTL

(* A row is canceling or canceled only if a user asked for it: none of the   *)
(* builder's events, whenever FinishBuild and its siblings apply them, and   *)
(* no removal goroutine makes one so.                                        *)
THEOREM CanceledOnlyByUser == Spec => []CanceledByUser
<1>1. IInv => CanceledByUser
  BY DEF IInv
<1>2. QED BY <1>1, Safety, PTL

(* A row that ended succeeded or failed repeats what its builder reported,   *)
(* unless the Create call itself refused it.                                 *)
THEOREM ResultFromBuilder == Spec => []ResultIsReported
<1>1. IInv => ResultIsReported
  BY DEF IInv
<1>2. QED BY <1>1, Safety, PTL

(* The comment in Commands is right: a clean event with status canceled is   *)
(* only ever on its way for a job whose deletion was already ordered.        *)
THEOREM SkippedRemovalIsDone == Spec => []RemovedByCancellation
<1>1. IInv => RemovedByCancellation
  <2> SUFFICES ASSUME IInv, NEW e \in net, e.type = "clean", e.status = "canceled"
               PROVE  kjob[e.job] # "active"
    BY DEF RemovedByCancellation
  <2>1. e.job \in Jobs
    BY DEF IInv, TypeOK, Event
  <2>2. outcome[e.job] = "canceled"
    BY DEF IInv, EventsTrue, EventTrue
  <2>3. QED BY <2>1, <2>2 DEF IInv, ReportedOnce
<1>2. QED BY <1>1, Safety, PTL

(* With a builder that repeats its events, the result of a job nobody        *)
(* canceled is never lost: it is in the row, or the event that will put it   *)
(* there is still being repeated.                                            *)
THEOREM ResultRecorded == ASSUME Reliable PROVE Spec => []OutcomeRecorded
<1>1. IInv => OutcomeRecorded
  <2> SUFFICES ASSUME IInv, NEW j \in Jobs, outcome[j] # "none", j \notin clicked
               PROVE  row[j] = outcome[j] \/ unanswered[j] = StatusEvent(j, outcome[j])
    BY DEF OutcomeRecorded
  <2>1. QED BY DEF IInv, RunRecorded
<1>2. QED BY <1>1, Safety, PTL

(* Where deletions do not fail, a job that may still start a pod has the     *)
(* configmap and the secret its pod mounts, whatever CancelCiBuilderJob and  *)
(* RemoveCiBuilderJob remove meanwhile.                                      *)
THEOREM ActiveJobStarts == ASSUME "delete" \notin Faults PROVE Spec => []StartableJob
<1>1. IInv => StartableJob
  BY DEF IInv, MountsKept, StartableJob
<1>2. QED BY <1>1, Safety, PTL

-----------------------------------------------------------------------------
(* Refinement: the rows implement JobStatus                                  *)

LEMMA InsertAdvances ==
  ASSUME TypeOK, NEW j \in Jobs, NEW s \in {"pending", "failed"}, InsertRow(j, s)
  PROVE  Abstract!Next
<1>1. Abstract!Advance(j)
  <2>1. <<"none", s>> \in Abstract!LifeCycle
    BY DEF Abstract!LifeCycle
  <2>2. QED BY <2>1 DEF InsertRow, Abstract!Advance
<1>2. QED BY <1>1 DEF Abstract!Next

(* An UPDATE whose WHERE clause matches follows an edge of the life cycle,   *)
(* and one that matches nothing changes nothing.                             *)
LEMMA UpdateAdvances ==
  ASSUME TypeOK, NEW j \in Jobs, NEW s, UpdateStatus(j, s)
  PROVE  Abstract!Next \/ UNCHANGED row
<1>1. CASE row[j] \notin AllowedFrom(s)
  BY <1>1 DEF UpdateStatus
<1>2. CASE row[j] \in AllowedFrom(s)
  <2>1. <<row[j], s>> \in Abstract!LifeCycle
    <3>1. CASE s = "running"
      BY <1>2, <3>1 DEF AllowedFrom, Abstract!LifeCycle
    <3>2. CASE s \in {"succeeded", "failed", "canceling"}
      BY <1>2, <3>2 DEF AllowedFrom, Abstract!LifeCycle
    <3>3. CASE s = "canceled"
      BY <1>2, <3>3 DEF AllowedFrom, Abstract!LifeCycle
    <3>4. QED BY <1>2, <3>1, <3>2, <3>3 DEF AllowedFrom
  <2>2. row' = [row EXCEPT ![j] = s]
    BY <1>2 DEF UpdateStatus
  <2>3. Abstract!Advance(j)
    BY <2>1, <2>2 DEF Abstract!Advance
  <2>4. QED BY <2>3 DEF Abstract!Next
<1>3. QED BY <1>1, <1>2

LEMMA RowAdvances == TypeOK /\ [Next]_vars => [Abstract!Next]_row
<1> SUFFICES ASSUME TypeOK, [Next]_vars PROVE Abstract!Next \/ UNCHANGED row
  OBVIOUS
<1>1. ASSUME NEW j \in Jobs, CreateNext(j) PROVE Abstract!Next \/ UNCHANGED row
  BY <1>1, InsertAdvances DEF CreateNext, StoreRow, Refuse, CreateStep, CreateFails, Abort
<1>2. ASSUME NEW r \in Requests, CancelNext(r) PROVE Abstract!Next \/ UNCHANGED row
  <2>1. req[r].job \in Jobs
    BY DEF TypeOK, Request
  <2>2. CASE CancelStore(r) \/ CancelStoreFails(r) \/ CancelSettle(r) \/ CancelSettleFails(r)
    BY <2>1, <2>2, UpdateAdvances
       DEF CancelStore, CancelStoreFails, CancelSettle, CancelSettleFails
  <2>3. QED BY <1>2, <2>2 DEF CancelNext, CancelGet, CancelCore
<1>3. ASSUME NEW r \in Requests, NEW j \in Jobs, CancelRead(r, j) PROVE UNCHANGED row
  BY <1>3 DEF CancelRead
<1>4. ASSUME NEW j \in Jobs, BuilderNext(j) PROVE UNCHANGED row
  BY <1>4 DEF BuilderNext, PodStart, BuilderFinishes, BuilderStopped, Report, BuilderCleans,
       PodKilled, PodCrash, CollectJob, GiveUp
<1>5. ASSUME NEW j \in Jobs, RemoverGet(j) \/ RemoveJob(j) PROVE UNCHANGED row
  BY <1>5 DEF RemoverGet, RemoveJob
<1>6. ASSUME NEW e \in net, NEW again \in BOOLEAN, Handle(e, again)
      PROVE  Abstract!Next \/ UNCHANGED row
  <2>1. e.job \in Jobs
    BY DEF TypeOK, Event
  <2>2. QED BY <1>6, <2>1, UpdateAdvances DEF Handle, HandleStatus, HandleClean
<1>7. CASE UNCHANGED vars
  BY <1>7 DEF vars
<1>8. QED BY <1>1, <1>2, <1>3, <1>4, <1>5, <1>6, <1>7 DEF Next

(* Whatever the handlers, builders and goroutines do, in whatever order, a   *)
(* reader of the rows sees each of them follow the life cycle of JobStatus,  *)
(* and a terminal status is never left.                                      *)
THEOREM RowsFollowLifeCycle == Spec => StatusLifeCycle
<1>1. Init => Abstract!Init
  BY DEF Init, Abstract!Init
<1>2. QED BY <1>1, RowAdvances, TypeCorrect, PTL DEF Spec, StatusLifeCycle, Abstract!Spec

-----------------------------------------------------------------------------
(* What the cancel handlers answer                                           *)

Ended == {"canceling"} \cup Terminal

(* A row only comes further along its life cycle.                            *)
LEMMA RowForward ==
  ASSUME [Abstract!Next]_row, NEW j \in Jobs
  PROVE  /\ row[j] \in Ended => row'[j] \in Ended
         /\ row[j] \in {"running"} \cup Ended => row'[j] \in {"running"} \cup Ended
<1>1. CASE UNCHANGED row
  BY <1>1
<1>2. ASSUME NEW k \in Jobs, Abstract!Advance(k)
      PROVE  /\ row[j] \in Ended => row'[j] \in Ended
             /\ row[j] \in {"running"} \cup Ended => row'[j] \in {"running"} \cup Ended
  <2>1. PICK edge \in Abstract!LifeCycle : row[k] = edge[1] /\ row' = [row EXCEPT ![k] = edge[2]]
    BY <1>2 DEF Abstract!Advance
  <2>2. /\ edge[1] \in Ended => edge[2] \in Ended
        /\ edge[1] \in {"running"} \cup Ended => edge[2] \in {"running"} \cup Ended
    BY <2>1 DEF Abstract!LifeCycle, Ended, Terminal
  <2>3. CASE j = k
    <3>1. row'[j] = edge[2] \/ row'[j] = row[j]
      BY <2>1
    <3>2. QED BY <2>1, <2>2, <2>3, <3>1
  <2>4. CASE j # k
    BY <2>1, <2>4
  <2>5. QED BY <2>3, <2>4
<1>3. QED BY <1>1, <1>2 DEF Abstract!Next

(* An UPDATE to canceling or canceled leaves an ended row, except that it    *)
(* does not match a running row with canceled, or a pending one.             *)
LEMMA UpdateEnds ==
  ASSUME TypeOK, NEW j \in Jobs, NEW s \in {"canceling", "canceled"}, UpdateStatus(j, s),
         row[j] \in Ended \/ (s = "canceling" /\ row[j] = "running")
  PROVE  row'[j] \in Ended
<1>1. CASE row[j] \in AllowedFrom(s)
  BY <1>1 DEF UpdateStatus, TypeOK, Ended, Terminal
<1>2. CASE row[j] \notin AllowedFrom(s)
  BY <1>2 DEF UpdateStatus, AllowedFrom, Ended
<1>3. QED BY <1>1, <1>2

(* What the steps of a cancel handler keep of its request.                   *)
LEMMA RequestFields ==
  ASSUME NEW q \in Request
  PROVE  /\ \A at \in {"core", "store", "settle"} :
              /\ [q EXCEPT !.at = at].at = at
              /\ [q EXCEPT !.at = at].job = q.job
              /\ [q EXCEPT !.at = at].seen = q.seen
              /\ [q EXCEPT !.at = at].answer = q.answer
         /\ LET p == [q EXCEPT !.at = "store", !.missing = TRUE] IN
              p.at = "store" /\ p.job = q.job /\ p.seen = q.seen /\ p.answer = q.answer
         /\ \A a \in {"ok", "error"} : Return(q, a).at = "idle" /\ Return(q, a).answer = a
<1>1. \A at \in {"core", "store", "settle"} :
        /\ [q EXCEPT !.at = at].at = at
        /\ [q EXCEPT !.at = at].job = q.job
        /\ [q EXCEPT !.at = at].seen = q.seen
        /\ [q EXCEPT !.at = at].answer = q.answer
  BY DEF Request
<1>2. LET p == [q EXCEPT !.at = "store", !.missing = TRUE] IN
        p.at = "store" /\ p.job = q.job /\ p.seen = q.seen /\ p.answer = q.answer
  BY DEF Request
<1>3. \A a \in {"ok", "error"} : Return(q, a).at = "idle" /\ Return(q, a).answer = a
  BY DEF Request, Return
<1>4. QED BY <1>1, <1>2, <1>3

LEMMA SeenStep ==
  ASSUME TypeOK, SeenHolds, [Next]_vars
  PROVE  /\ SeenHolds'
         /\ \A r \in Requests :
              req[r].at # "idle" /\ req'[r].answer = "ok" /\ req[r].seen # "pending" /\ req[r].job \notin Bots
                => row'[req[r].job] \in Ended
<1> DEFINE SeenPart(r) ==
      req[r].at # "idle" =>
        /\ req[r].answer = "none"
        /\ req[r].seen = "running" => row[req[r].job] \in {"running"} \cup Ended
        /\ req[r].seen = "canceling" => row[req[r].job] \in Ended
        /\ req[r].at = "settle" /\ req[r].job \notin Bots => row[req[r].job] \in Ended
    AnswerPart(r) ==
      req[r].at # "idle" /\ req'[r].answer = "ok" /\ req[r].seen # "pending" /\ req[r].job \notin Bots
        => row'[req[r].job] \in Ended
<1>1. \A r \in Requests : SeenPart(r)
  BY DEF SeenHolds, Ended
<1>2. \A r \in Requests : req[r].job \in Jobs /\ req[r].seen \in Live /\ req[r] \in Request
  BY DEF TypeOK, Request
<1>3. [Abstract!Next]_row
  BY RowAdvances
<1>4. ASSUME NEW r \in Requests, req'[r] = req[r] PROVE SeenPart(r)' /\ AnswerPart(r)
  BY <1>1, <1>2, <1>3, <1>4, RowForward
<1>5. ASSUME NEW r \in Requests, req' = [req EXCEPT ![r] = req'[r]], SeenPart(r)' /\ AnswerPart(r)
      PROVE  \A q \in Requests : SeenPart(q)' /\ AnswerPart(q)
  <2> SUFFICES ASSUME NEW q \in Requests, q # r PROVE req'[q] = req[q]
    BY <1>4, <1>5
  <2>1. QED BY <1>5 DEF TypeOK
<1>6. ASSUME NEW r \in Requests, CancelGet(r) \/ CancelCore(r)
      PROVE  req' = [req EXCEPT ![r] = req'[r]] /\ SeenPart(r)' /\ AnswerPart(r)
  <2>1. /\ req' = [req EXCEPT ![r] = req'[r]]
        /\ req'[r].at \in {"core", "store"} /\ req[r].at # "idle"
        /\ req'[r].job = req[r].job /\ req'[r].seen = req[r].seen /\ req'[r].answer = req[r].answer
    <3>1. CASE CancelGet(r)
      <4>1. \/ req' = [req EXCEPT ![r] = [@ EXCEPT !.at = "core"]]
            \/ req' = [req EXCEPT ![r] = [@ EXCEPT !.at = "store", !.missing = TRUE]]
        BY <3>1 DEF CancelGet
      <4>2. req[r].at = "get"
        BY <3>1 DEF CancelGet
      <4>3. CASE req' = [req EXCEPT ![r] = [@ EXCEPT !.at = "core"]]
        <5>1. req'[r] = [req[r] EXCEPT !.at = "core"]
          BY <4>3 DEF TypeOK
        <5>2. req' = [req EXCEPT ![r] = req'[r]]
          BY <4>3 DEF TypeOK
        <5>3. QED BY <1>2, <4>2, <5>1, <5>2, RequestFields
      <4>4. CASE req' = [req EXCEPT ![r] = [@ EXCEPT !.at = "store", !.missing = TRUE]]
        <5>1. req'[r] = [req[r] EXCEPT !.at = "store", !.missing = TRUE]
          BY <4>4 DEF TypeOK
        <5>2. req' = [req EXCEPT ![r] = req'[r]]
          BY <4>4 DEF TypeOK
        <5>3. QED BY <1>2, <4>2, <5>1, <5>2, RequestFields
      <4>5. QED BY <4>1, <4>3, <4>4
    <3>2. CASE CancelCore(r)
      <4>1. req' = [req EXCEPT ![r] = [@ EXCEPT !.at = "store"]] /\ req[r].at = "core"
        BY <3>2 DEF CancelCore
      <4>2. QED BY <1>2, <4>1, RequestFields DEF TypeOK
    <3>3. QED BY <1>6, <3>1, <3>2
  <2>2. QED BY <1>1, <1>2, <1>3, <2>1, RowForward
<1>7. ASSUME NEW r \in Requests, CancelStore(r) \/ CancelStoreFails(r)
      PROVE  req' = [req EXCEPT ![r] = req'[r]] /\ SeenPart(r)' /\ AnswerPart(r)
  <2>1. /\ req' = [req EXCEPT ![r] = req'[r]]
        /\ req[r].at = "store"
    BY <1>2, <1>7 DEF CancelStore, CancelStoreFails, TypeOK, Request
  <2>2. \/ /\ req'[r].at = "settle" /\ req[r].seen = "running"
           /\ req'[r].seen = req[r].seen /\ req'[r].job = req[r].job /\ req'[r].answer = req[r].answer
        \/ /\ req'[r].at = "idle" /\ req'[r].answer \in {"ok", "error"}
    <3>1. req'[r] = AfterStore(req[r]) \/ req'[r] = Return(req[r], "error")
      BY <1>7 DEF CancelStore, CancelStoreFails, TypeOK
    <3>2. \/ req'[r] = [req[r] EXCEPT !.at = "settle"] /\ req[r].seen = "running"
          \/ \E a \in {"ok", "error"} : req'[r] = Return(req[r], a)
      BY <3>1 DEF AfterStore
    <3>3. CASE req'[r] = [req[r] EXCEPT !.at = "settle"] /\ req[r].seen = "running"
      BY <1>2, <3>3, RequestFields
    <3>4. CASE \E a \in {"ok", "error"} : req'[r] = Return(req[r], a)
      BY <1>2, <3>4, RequestFields
    <3>5. QED BY <3>2, <3>3, <3>4
  <2>3. ASSUME req'[r].at = "settle" \/ req'[r].answer = "ok", req[r].job \notin Bots, req[r].seen # "pending"
        PROVE  row'[req[r].job] \in Ended
    <3>1. row[req[r].job] \in Ended \/ (req[r].seen = "running" /\ row[req[r].job] = "running")
      BY <1>1, <1>2, <2>1, <2>3 DEF Live
    <3>2. CASE row[req[r].job] \in Ended
      BY <1>2, <1>3, <3>2, RowForward
    <3>3. CASE req[r].seen = "running" /\ row[req[r].job] = "running"
      <4>1. ~ErrorIgnored(req[r])
        BY <2>3, <3>3 DEF ErrorIgnored
      <4>2. CancelStore(r)
        <5> SUFFICES ASSUME CancelStoreFails(r) PROVE FALSE
          BY <1>7
        <5>1. req'[r] = Return(req[r], "error")
          BY <4>1 DEF CancelStoreFails, TypeOK
        <5>2. req'[r].at = "idle" /\ req'[r].answer = "error"
          BY <1>2, <5>1, RequestFields
        <5>3. QED BY <2>3, <5>2
      <4>3. UpdateStatus(req[r].job, "canceling")
        BY <3>3, <4>2 DEF CancelStore, Target
      <4>4. QED BY <1>2, <3>3, <4>3, UpdateEnds
    <3>4. QED BY <3>1, <3>2, <3>3
  <2>4. SeenPart(r)'
    BY <1>1, <1>2, <1>3, <2>1, <2>2, <2>3, RowForward
  <2>5. QED BY <2>1, <2>3, <2>4
<1>8. ASSUME NEW r \in Requests, CancelSettle(r) \/ CancelSettleFails(r)
      PROVE  req' = [req EXCEPT ![r] = req'[r]] /\ SeenPart(r)' /\ AnswerPart(r)
  <2>1. /\ req' = [req EXCEPT ![r] = req'[r]]
        /\ req[r].at = "settle" /\ req'[r].at = "idle"
    <3>1. req[r].at = "settle" /\ \E a \in {"ok", "error"} : req' = [req EXCEPT ![r] = Return(@, a)]
      BY <1>8 DEF CancelSettle, CancelSettleFails
    <3>2. QED BY <1>2, <3>1, RequestFields DEF TypeOK
  <2>2. QED BY <1>1, <1>2, <1>3, <2>1, RowForward
<1>9. ASSUME NEW r \in Requests, NEW j \in Jobs, CancelRead(r, j)
      PROVE  req' = [req EXCEPT ![r] = req'[r]] /\ SeenPart(r)' /\ AnswerPart(r)
  <2>1. /\ req[r].at = "idle" /\ row[j] \in Live /\ row' = row
        /\ req' = [req EXCEPT ![r] = [at |-> "get", job |-> j, seen |-> row[j],
                                      missing |-> FALSE, answer |-> "none"]]
    BY <1>9 DEF CancelRead
  <2>2. req'[r] = [at |-> "get", job |-> j, seen |-> row[j], missing |-> FALSE, answer |-> "none"]
    BY <2>1 DEF TypeOK
  <2>3. /\ req'[r].at = "get" /\ req'[r].job = j /\ req'[r].seen = row[j] /\ req'[r].answer = "none"
    BY <2>2
  <2>4. SeenPart(r)'
    BY <2>1, <2>3 DEF Ended
  <2>5. QED BY <2>1, <2>2, <2>4
<1>10. CASE req' = req
  BY <1>4, <1>10 DEF SeenHolds, Ended
<1>11. ASSUME NEW r \in Requests, req' = [req EXCEPT ![r] = req'[r]] /\ SeenPart(r)' /\ AnswerPart(r)
       PROVE  SeenHolds' /\ \A q \in Requests : AnswerPart(q)
  BY <1>5, <1>11 DEF SeenHolds, Ended
<1>12. ASSUME NEW j \in Jobs, CreateNext(j) \/ BuilderNext(j) \/ RemoverGet(j) \/ RemoveJob(j)
       PROVE  req' = req
  BY <1>12 DEF CreateNext, StoreRow, Refuse, CreateStep, CreateFails, Abort, BuilderNext, PodStart,
       BuilderFinishes, BuilderStopped, Report, BuilderCleans, PodKilled, PodCrash, CollectJob,
       GiveUp, RemoverGet, RemoveJob, apiVars
<1>13. ASSUME NEW e \in net, NEW again \in BOOLEAN, Handle(e, again) PROVE req' = req
  BY <1>13 DEF Handle, HandleStatus, HandleClean, apiVars
<1>14. CASE UNCHANGED vars
  BY <1>10, <1>14 DEF vars
<1>15. ASSUME NEW r \in Requests, CancelNext(r)
       PROVE  SeenHolds' /\ \A q \in Requests : AnswerPart(q)
  BY <1>6, <1>7, <1>8, <1>11, <1>15 DEF CancelNext
<1>16. QED BY <1>9, <1>10, <1>11, <1>12, <1>13, <1>14, <1>15 DEF Next

(* A cancel of a running or canceling build or release that is answered with *)
(* success leaves the row canceling or ended, whatever the builder, other    *)
(* requests and failing updates do since the handler read the row.           *)
THEOREM CancelAnswered == Spec => CancelAnswerHolds
<1>1. Init => SeenHolds
  BY DEF Init, SeenHolds
<1>2. TypeOK /\ SeenHolds /\ [Next]_vars => SeenHolds'
  BY SeenStep
<1>3. Spec => []SeenHolds
  BY <1>1, <1>2, TypeCorrect, PTL DEF Spec
<1>4. TypeOK /\ SeenHolds /\ [Next]_vars =>
        [\A r \in Requests :
           req[r].at # "idle" /\ req'[r].answer = "ok" /\ req[r].seen # "pending" /\ req[r].job \notin Bots
             => row'[req[r].job] \in {"canceling"} \cup Terminal]_vars
  BY SeenStep DEF Ended
<1>5. QED BY <1>3, <1>4, TypeCorrect, PTL DEF Spec, CancelAnswerHolds

-----------------------------------------------------------------------------
(* Nothing is forgotten                                                      *)

RemovalsWork == Reliable /\ "delete" \notin Faults /\ "get" \notin Faults

LEMMA CreateAttended ==
  ASSUME IInv, Attended, NEW j \in Jobs, CreateNext(j)
  PROVE  Attended'
<1>1. /\ UNCHANGED <<removers, builder, crashes, net, unanswered>>
      /\ kjob[j] = "absent" /\ builder[j] = "none"
      /\ kjob \in [Jobs -> JobState] /\ objs \in [Jobs -> SUBSET Objects]
      /\ create \in [Jobs -> {"insert", "refused", "done", "aborted"} \cup Calls]
  BY DEF IInv, TypeOK, CreateFirst, Creating, CreateNext, StoreRow, Refuse, CreateStep, CreateFails, Abort, builderVars
<1>2. \A k \in Jobs \ {j} : kjob'[k] = kjob[k] /\ objs'[k] = objs[k] /\ create'[k] = create[k]
  BY <1>1 DEF CreateNext, StoreRow, Refuse, CreateStep, CreateFails, Abort, CreateObject, kubeVars
<1>3. ObjectsHaveJob(j)'
  <2>1. CASE StoreRow(j)
    BY <1>1, <2>1 DEF Attended, ObjectsHaveJob, StoreRow, Refuse, kubeVars
  <2>2. CASE CreateStep(j)
    <3>1. create[j] \in Calls /\ create'[j] = NextCall(create[j])
      BY <1>1, <2>2 DEF CreateStep
    <3>2. create[j] = "job" => kjob'[j] = "active"
      BY <1>1, <2>2 DEF CreateStep, CreateObject
    <3>3. create[j] # "job" => create'[j] \in Calls
      BY <3>1, NextCallType
    <3>. QED  BY <3>2, <3>3 DEF ObjectsHaveJob, Calls
  <2>3. CASE CreateFails(j)
    <3>1. CASE Abort(j)
      <4>1. create'[j] = "aborted"
        BY <1>1, <3>1 DEF Abort
      <4>2. QED BY <4>1 DEF ObjectsHaveJob
    <3>2. CASE create[j] = "insert" /\ UNCHANGED kubeVars
      BY <1>1, <3>2 DEF Attended, ObjectsHaveJob, kubeVars
    <3>3. QED BY <2>3, <3>1, <3>2 DEF CreateFails
  <2>. QED  BY <2>1, <2>2, <2>3 DEF CreateNext
<1>4. JobAttended(j)'
  BY <1>1 DEF JobAttended
<1>5. ASSUME NEW k \in Jobs PROVE (ObjectsHaveJob(k) /\ JobAttended(k) /\ AnswerDue(k))'
  <2>1. AnswerDue(k)'
    BY <1>1 DEF Attended, AnswerDue
  <2>2. k # j => ObjectsHaveJob(k)' /\ JobAttended(k)'
    BY <1>1, <1>2 DEF Attended, ObjectsHaveJob, JobAttended, RemovalDue
  <2>. QED  BY <1>3, <1>4, <2>1, <2>2
<1>. QED  BY <1>5 DEF Attended

(* The removal of a job leaves nothing of it.                                *)
LEMMA RemoveAttended ==
  ASSUME IInv, Attended, NEW j \in Jobs, RemoveCore(j, {}),
         UNCHANGED <<create, builder, crashes, net, unanswered>>,
         \A k \in Jobs \ {j} : removers'[k] = removers[k]
  PROVE  Attended'
<1>1. /\ kjob \in [Jobs -> JobState] /\ objs \in [Jobs -> SUBSET Objects]
      /\ kjob'[j] # "active" /\ objs'[j] = {}
      /\ \A k \in Jobs \ {j} : kjob'[k] = kjob[k] /\ objs'[k] = objs[k]
  BY DEF IInv, TypeOK, RemoveCore
<1>. QED  BY <1>1 DEF Attended, ObjectsHaveJob, JobAttended, RemovalDue, AnswerDue

LEMMA CancelAttended ==
  ASSUME IInv, Attended, RemovalsWork, NEW r \in Requests, CancelNext(r) \/ \E j \in Jobs : CancelRead(r, j)
  PROVE  Attended'
<1>1. CASE CancelCore(r)
  <2>1. RemoveCore(req[r].job, {}) /\ req[r].job \in Jobs
    BY <1>1 DEF IInv, TypeOK, Request, CancelCore, RemoveCore, RemovalsWork
  <2>. QED  BY <1>1, <2>1, RemoveAttended DEF CancelCore, builderVars
<1>2. CASE ~CancelCore(r)
  <2>1. UNCHANGED <<create, kjob, objs, removers, builder, crashes, net, unanswered>>
    BY <1>2 DEF CancelNext, CancelRead, CancelGet, CancelStore, CancelStoreFails, CancelSettle, CancelSettleFails,
       kubeVars, builderVars
  <2>. QED  BY <2>1 DEF Attended, ObjectsHaveJob, JobAttended, RemovalDue, AnswerDue
<1>. QED  BY <1>1, <1>2

LEMMA RemoverAttended ==
  ASSUME IInv, Attended, RemovalsWork, NEW j \in Jobs, RemoverGet(j) \/ RemoveJob(j)
  PROVE  Attended'
<1>. removers \in [Jobs -> [get : Nat, await : Nat]]
  BY DEF IInv, TypeOK
<1>1. CASE RemoverGet(j)
  <2>1. UNCHANGED <<create, kjob, objs, builder, crashes, net, unanswered>>
    BY <1>1 DEF RemoverGet, kubeVars, builderVars
  <2>2. /\ \A k \in Jobs \ {j} : removers'[k] = removers[k]
        /\ kjob[j] = "active" => removers'[j].await > 0
    BY <1>1 DEF RemoverGet, JobExists, RemovalsWork
  <2>. QED  BY <2>1, <2>2 DEF Attended, ObjectsHaveJob, JobAttended, RemovalDue, AnswerDue
<1>2. CASE RemoveJob(j)
  <2>1. RemoveCore(j, {}) /\ \A k \in Jobs \ {j} : removers'[k] = removers[k]
    BY <1>2 DEF RemoveJob, RemoveCore, RemovalsWork
  <2>. QED  BY <1>2, <2>1, RemoveAttended DEF RemoveJob, builderVars
<1>. QED  BY <1>1, <1>2

(* What the builder sends is on its way to the handlers.                     *)
LEMMA SendAttended ==
  ASSUME Attended, NEW j \in Jobs, NEW e \in Event, e.job = j, Send(j, e), unanswered \in [Jobs -> Event \cup {NoEvent}]
  PROVE  /\ \A k \in Jobs : AnswerDue(k)' /\ (RemovalDue(k) /\ UNCHANGED removers => RemovalDue(k)')
         /\ net \subseteq net' /\ e \in net'
  BY DEF Attended, AnswerDue, RemovalDue, Send

LEMMA BuilderAttended ==
  ASSUME IInv, Attended, RemovalsWork, NEW j \in Jobs, BuilderNext(j)
  PROVE  Attended'
<1>1. /\ UNCHANGED <<create, objs, removers>>
      /\ builder \in [Jobs -> {"none", "running", "reported", "exited"}] /\ crashes \in [Jobs -> Nat]
      /\ kjob \in [Jobs -> JobState] /\ outcome \in [Jobs -> Outcome \cup {"none"}]
      /\ unanswered \in [Jobs -> Event \cup {NoEvent}] /\ BackoffLimit \in Nat
  BY DEF IInv, TypeOK, RemovalsWork, BuilderNext, PodStart, BuilderFinishes, BuilderStopped, Report, BuilderCleans, PodKilled,
     PodCrash, CollectJob, GiveUp, kubeVars, apiVars
<1>2. /\ \A k \in Jobs \ {j} : kjob'[k] = kjob[k] /\ builder'[k] = builder[k] /\ crashes'[k] = crashes[k]
      /\ \/ kjob'[j] = kjob[j]
         \/ kjob[j] = "deleting" /\ kjob'[j] = "absent"
  <2>1. \/ kjob' = kjob
        \/ kjob[j] = "deleting" /\ kjob' = [kjob EXCEPT ![j] = "absent"]
    BY DEF RemovalsWork, BuilderNext, PodStart, BuilderFinishes, BuilderStopped, Report, BuilderCleans, PodKilled,
       PodCrash, CollectJob, GiveUp, kubeVars
  <2>2. builder' = builder \/ \E s : builder' = [builder EXCEPT ![j] = s]
    BY DEF RemovalsWork, BuilderNext, PodStart, BuilderFinishes, BuilderStopped, Report, BuilderCleans, PodKilled,
       PodCrash, CollectJob, GiveUp, builderVars
  <2>3. crashes' = crashes \/ crashes' = [crashes EXCEPT ![j] = crashes[j] + 1]
    BY DEF RemovalsWork, BuilderNext, PodStart, BuilderFinishes, BuilderStopped, Report, BuilderCleans, PodKilled,
       PodCrash, CollectJob, GiveUp, builderVars
  <2>. QED  BY <1>1, <2>1, <2>2, <2>3
<1>4. \A k \in Jobs : ObjectsHaveJob(k)'
  BY <1>1, <1>2 DEF Attended, ObjectsHaveJob
<1>5. CASE \E e \in Event : e.job = j /\ Send(j, e)
  <2>1. PICK e \in Event : e.job = j /\ Send(j, e)
    BY <1>5
  <2>2. JobAttended(j)'
    <3>1. CASE BuilderCleans(j)
      <4>1. builder[j] = "reported" /\ net' = net \cup {CleanEvent(j, outcome[j])} /\ kjob' = kjob
        BY <3>1 DEF BuilderCleans, Send, kubeVars
      <4>2. kjob[j] = "active" => outcome[j] # "canceled"
        BY DEF IInv, ReportedOnce
      <4>3. CleanEvent(j, outcome[j]) \in net'
        BY <4>1
      <4>. QED  BY <4>1, <4>2, <4>3 DEF JobAttended, RemovalDue, CleanEvent
    <3>2. CASE ~BuilderCleans(j)
      <4>1. CASE builder'[j] \in {"none", "running", "reported"} \/ kjob'[j] # "active"
        BY <4>1 DEF JobAttended
      <4>2. CASE PodStart(j) \/ BuilderFinishes(j) \/ BuilderStopped(j) \/ PodKilled(j) \/ CollectJob(j)
        BY <1>1, <4>1, <4>2 DEF PodStart, BuilderFinishes, BuilderStopped, Report, PodKilled, CollectJob, kubeVars
      <4>3. CASE PodCrash(j)
        BY <1>1, <4>3 DEF PodCrash, JobAttended
      <4>. QED  BY <3>2, <4>2, <4>3 DEF BuilderNext, GiveUp, RemovalsWork
    <3>. QED  BY <3>1, <3>2
  <2>3. \A k \in Jobs \ {j} : JobAttended(k)'
    BY <1>1, <1>2, <2>1, SendAttended DEF Attended, JobAttended
  <2>. QED  BY <1>1, <1>4, <2>1, <2>2, <2>3, SendAttended DEF Attended
<1>6. CASE PodKilled(j) \/ PodCrash(j) \/ CollectJob(j)
  <2>1. /\ UNCHANGED net
        /\ \A k \in Jobs : unanswered'[k] = NoEvent \/ unanswered'[k] = unanswered[k]
    BY <1>1, <1>6 DEF PodKilled, PodCrash, CollectJob, builderVars
  <2>2. /\ kjob'[j] = "active" => builder'[j] = "none" \/ crashes'[j] > BackoffLimit
    BY <1>1, <1>6 DEF PodKilled, PodCrash, CollectJob, kubeVars, builderVars
  <2>. QED  BY <1>1, <1>2, <1>4, <2>1, <2>2 DEF Attended, JobAttended, RemovalDue, AnswerDue
<1>7. CASE PodStart(j) \/ BuilderFinishes(j) \/ BuilderStopped(j) \/ BuilderCleans(j)
  <2>1. \A s \in {"running"} \cup Outcome : StatusEvent(j, s) \in Event /\ StatusEvent(j, s).job = j
    BY DEF StatusEvent, Event
  <2>2. BuilderCleans(j) => CleanEvent(j, outcome[j]) \in Event /\ CleanEvent(j, outcome[j]).job = j
    <3>1. BuilderCleans(j) => outcome[j] \in Outcome
      BY <1>1 DEF BuilderCleans, IInv, ReportedOnce
    <3>. QED  BY <3>1 DEF CleanEvent, Event
  <2>. QED  BY <1>5, <1>7, <2>1, <2>2 DEF PodStart, BuilderFinishes, BuilderStopped, Report, BuilderCleans, Outcome
<1>. QED  BY <1>6, <1>7 DEF BuilderNext, GiveUp, RemovalsWork

LEMMA HandleAttended ==
  ASSUME IInv, Attended, NEW e \in net, NEW again \in BOOLEAN, Handle(e, again)
  PROVE  Attended'
<1>1. /\ UNCHANGED <<create, kjob, objs, builder, crashes>>
      /\ e \in Event /\ e.job \in Jobs /\ unanswered \in [Jobs -> Event \cup {NoEvent}]
      /\ removers \in [Jobs -> [get : Nat, await : Nat]]
      /\ Answer(e, again)
  BY DEF IInv, TypeOK, Event, Handle, HandleStatus, HandleClean, kubeVars, apiVars
<1>2. \A k \in Jobs : removers'[k] = removers[k] \/ removers'[k].get > 0
  BY <1>1 DEF Handle, HandleStatus, HandleClean, apiVars
<1>3. e.type = "clean" /\ e.status # "canceled" => removers'[e.job].get > 0
  BY <1>1 DEF Handle, HandleStatus, HandleClean
<1>4. net' = net \/ net' = net \ {e}
  BY <1>1 DEF Answer
<1>5. ASSUME NEW k \in Jobs PROVE AnswerDue(k)'
  <2>1. unanswered'[k] = NoEvent \/ (unanswered'[k] = unanswered[k] /\ (net' = net \/ unanswered[k] # e))
    BY <1>1 DEF Answer, Attended, AnswerDue
  <2>. QED  BY <1>4, <2>1 DEF Attended, AnswerDue
<1>6. ASSUME NEW k \in Jobs PROVE RemovalDue(k) => RemovalDue(k)'
  BY <1>2, <1>3, <1>4 DEF RemovalDue
<1>. QED  BY <1>1, <1>5, <1>6 DEF Attended, ObjectsHaveJob, JobAttended

(* The events of a builder that repeats them are not lost, and as long as    *)
(* the calls of the removals work, no job, configmap or secret is forgotten  *)
(* in Kubernetes, however often pods crash, events are repeated and users    *)
(* cancel, whatever other calls fail: every job there has a pod to come or   *)
(* at work, or a goroutine or event that removes it, or its pods have all    *)
(* crashed.  What JobCleanedUp needs is that these go on.                    *)
THEOREM NothingForgotten ==
  ASSUME RemovalsWork
  PROVE  Spec => []Attended
<1>1. Init => Attended
  BY DEF Init, Attended, ObjectsHaveJob, JobAttended, AnswerDue
<1>2. IInv /\ Attended /\ [Next]_vars => Attended'
  <2>. SUFFICES ASSUME IInv, Attended, [Next]_vars PROVE Attended'
    OBVIOUS
  <2>1. CASE UNCHANGED vars
    BY <2>1 DEF vars, Attended, ObjectsHaveJob, JobAttended, RemovalDue, AnswerDue
  <2>. QED  BY <2>1, CreateAttended, CancelAttended, RemoverAttended, BuilderAttended, HandleAttended DEF Next
<1>. QED  BY <1>1, <1>2, Safety, PTL DEF Spec

=============================================================================

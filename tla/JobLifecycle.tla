---------------------------- MODULE JobLifecycle ----------------------------
(***************************************************************************)
(* The life of a build, release or bot: the Create call that stores its row*)
(* and starts a Kubernetes job, the ci-builder in the job's pod that posts *)
(* events back, the Commands handler that applies them, and the cancel     *)
(* handlers.  Each of these runs on its own; they meet in the row, in the  *)
(* Kubernetes objects and in the network.                                  *)
(*                                                                         *)
(* Every database and Kubernetes call is a step of its own.  A process of  *)
(* the api that dies between two steps leaves what a failing call leaves.  *)
(***************************************************************************)
EXTENDS JobTable, CiBuilderJobs

CONSTANTS
  Bots,          \* the jobs that are bots
  Requests,      \* slots for concurrent cancel requests
  Reliable,      \* TRUE: the builder repeats an event until it is answered
  BackoffLimit,  \* pods Kubernetes starts again after a crash, per job
  RemoverBound   \* bound on concurrent removal goroutines per job

ASSUME BotsAssumption == Bots \subseteq Jobs
ASSUME ReliableAssumption == Reliable \in BOOLEAN
ASSUME BoundsAssumption == BackoffLimit \in Nat /\ RemoverBound \in Nat

VARIABLES
  create,        \* create[j]: next call of CreateBuild/Release/Bot, or how it ended
  req,           \* req[r]: a cancel request being handled
  builder,       \* builder[j]: the ci-builder process in the job's pod
  crashes,       \* crashes[j]: pods lost so far
  outcome,       \* outcome[j]: how the builder says its run ended
  net,           \* events on their way from the builders to the api
  unanswered,    \* unanswered[j]: the event the builder waits to be answered
  removers,      \* removers[j]: RemoveCiBuilderJob goroutines, before and after their Get
  clicked        \* history: jobs some user asked to cancel

vars == <<row, kjob, objs, create, req, builder, crashes, outcome, net,
          unanswered, removers, clicked>>
apiVars     == <<create, req, removers, clicked>>
builderVars == <<builder, crashes, outcome, net, unanswered>>

Calls   == {"configmap", "secret", "pullsecret", "job"}
Outcome == {"succeeded", "failed", "canceled"}
Event   == [job : Jobs, type : {"status"}, status : {"running"} \cup Outcome]
             \cup [job : Jobs, type : {"clean"}, status : Outcome]
NoEvent == [type |-> "none"]
Request == [at : {"idle", "get", "core", "store", "settle"},
            job : Jobs, seen : Live, missing : BOOLEAN,
            answer : {"none", "ok", "error"}]

StatusEvent(j, s) == [job |-> j, type |-> "status", status |-> s]
CleanEvent(j, s)  == [job |-> j, type |-> "clean", status |-> s]

TypeOK ==
  /\ row \in [Jobs -> Status]
  /\ kjob \in [Jobs -> JobState]
  /\ objs \in [Jobs -> SUBSET Objects]
  /\ create \in [Jobs -> {"insert", "refused", "done", "aborted"} \cup Calls]
  /\ req \in [Requests -> Request]
  /\ builder \in [Jobs -> {"none", "running", "reported", "exited"}]
  /\ crashes \in [Jobs -> Nat]
  /\ outcome \in [Jobs -> Outcome \cup {"none"}]
  /\ net \subseteq Event
  /\ unanswered \in [Jobs -> Event \cup {NoEvent}]
  /\ removers \in [Jobs -> [get : Nat, await : Nat]]
  /\ clicked \subseteq Jobs

Init ==
  /\ row = [j \in Jobs |-> "none"]
  /\ kjob = [j \in Jobs |-> "absent"]
  /\ objs = [j \in Jobs |-> {}]
  /\ create = [j \in Jobs |-> "insert"]
  /\ req \in [Requests -> {q \in Request : q.at = "idle" /\ q.seen = "pending"
                                            /\ ~q.missing /\ q.answer = "none"}]
  /\ builder = [j \in Jobs |-> "none"]
  /\ crashes = [j \in Jobs |-> 0]
  /\ outcome = [j \in Jobs |-> "none"]
  /\ net = {}
  /\ unanswered = [j \in Jobs |-> NoEvent]
  /\ removers = [j \in Jobs |-> [get |-> 0, await |-> 0]]
  /\ clicked = {}

-----------------------------------------------------------------------------
(* CreateBuild, CreateRelease, CreateBot                                    *)

(* The row of a job whose manifest or secrets are not valid is stored failed *)
(* and no job is created.                                                    *)
Refuse(j) == InsertRow(j, "failed") /\ create' = [create EXCEPT ![j] = "refused"]

StoreRow(j) ==
  /\ create[j] = "insert"
  /\ \/ InsertRow(j, "pending") /\ create' = [create EXCEPT ![j] = "configmap"]
     \/ Refuse(j)
  /\ UNCHANGED <<kubeVars, req, removers, clicked, builderVars>>

CreateStep(j) ==
  /\ create[j] \in Calls
  /\ CreateObject(j, create[j])
  /\ create' = [create EXCEPT ![j] = NextCall(create[j])]
  /\ UNCHANGED <<row, req, removers, clicked, builderVars>>

(* Any call may fail, with or without having had its effect, be it the       *)
(* INSERT of a pending or of a refused row; the Create call returns at once  *)
(* and undoes nothing.                                                       *)
Abort(j) == create' = [create EXCEPT ![j] = "aborted"]

CreateFails(j) ==
  /\ "create" \in Faults
  /\ create[j] \in Calls \cup {"insert"}
  /\ \/ UNCHANGED <<row, kubeVars>> /\ Abort(j)
     \/ create[j] = "insert" /\ InsertRow(j, "pending") /\ UNCHANGED kubeVars /\ Abort(j)
     \/ create[j] = "insert" /\ Refuse(j) /\ UNCHANGED kubeVars
     \/ create[j] \in Calls /\ CreateObject(j, create[j]) /\ UNCHANGED row /\ Abort(j)
  /\ UNCHANGED <<req, removers, clicked, builderVars>>

-----------------------------------------------------------------------------
(* CancelPipelineBuild, CancelPipelineRelease, CancelPipelineBot            *)

(* The row is read once; everything the handler does later is decided by    *)
(* what it saw.  Rows that are not live are refused without a change.       *)
CancelRead(r, j) ==
  /\ req[r].at = "idle"
  /\ row[j] \in Live
  /\ req' = [req EXCEPT ![r] = [at |-> "get", job |-> j, seen |-> row[j],
                                missing |-> FALSE, answer |-> "none"]]
  /\ clicked' = clicked \cup {j}
  /\ UNCHANGED <<row, kubeVars, create, removers, builderVars>>

(* CancelCiBuilderJob reports ErrJobNotFound for every error of its Get.    *)
CancelGet(r) ==
  /\ req[r].at = "get"
  /\ \/ /\ JobExists(req[r].job)
        /\ req' = [req EXCEPT ![r].at = "core"]
     \/ /\ ~JobExists(req[r].job) \/ "get" \in Faults
        /\ req' = [req EXCEPT ![r] = [@ EXCEPT !.at = "store", !.missing = TRUE]]
  /\ UNCHANGED <<row, kubeVars, create, removers, clicked, builderVars>>

CancelCore(r) ==
  /\ req[r].at = "core"
  /\ \E kept \in SUBSET (Objects \cup {"job"}) : RemoveCore(req[r].job, kept)
  /\ req' = [req EXCEPT ![r].at = "store"]
  /\ UNCHANGED <<row, create, removers, clicked, builderVars>>

(* Faulty variants: a job stopped by a user fails; a second click on cancel  *)
(* does what the first one did.                                              *)
TargetFailing(seen) == IF seen = "running" THEN "failed" ELSE "canceled"
TargetRepeating(seen) == IF seen = "pending" THEN "canceled" ELSE "canceling"

(* A job seen running is set canceling, for its builder to report canceled;  *)
(* a pending one is canceled straight away, a canceling one for good.        *)
Target(seen) == IF seen = "running" THEN "canceling" ELSE "canceled"

(* The handler returns; what it had read is gone.                            *)
Return(q, answer) ==
  [q EXCEPT !.at = "idle", !.seen = "pending", !.missing = FALSE, !.answer = answer]

AfterStore(q) ==
  IF q.missing /\ q.seen = "running" THEN [q EXCEPT !.at = "settle"] ELSE Return(q, "ok")

CancelStore(r) ==
  /\ req[r].at = "store"
  /\ UpdateStatus(req[r].job, Target(req[r].seen))
  /\ req' = [req EXCEPT ![r] = AfterStore(@)]
  /\ UNCHANGED <<kubeVars, create, removers, clicked, builderVars>>

(* Faulty variant: the handler never looks at the error of its UPDATE.       *)
AnyErrorIgnored(q) == TRUE

(* The handler answers 500 when its UPDATE fails, except that it ignores the *)
(* error of a repeated cancel, and that UpdateBotStatus never returns one.   *)
(* The reply of an UPDATE that was carried out may be lost.                  *)
ErrorIgnored(q) == q.seen = "canceling" \/ q.job \in Bots

CancelStoreFails(r) ==
  /\ "db" \in Faults
  /\ req[r].at = "store"
  /\ UpdateStatus(req[r].job, Target(req[r].seen)) \/ UNCHANGED row
  /\ req' = [req EXCEPT ![r] = IF ErrorIgnored(@) THEN AfterStore(@) ELSE Return(@, "error")]
  /\ UNCHANGED <<kubeVars, create, removers, clicked, builderVars>>

(* No job to cancel: nothing will report canceled, so the handler does.      *)
CancelSettle(r) ==
  /\ req[r].at = "settle"
  /\ UpdateStatus(req[r].job, "canceled")
  /\ req' = [req EXCEPT ![r] = Return(@, "ok")]
  /\ UNCHANGED <<kubeVars, create, removers, clicked, builderVars>>

CancelSettleFails(r) ==
  /\ "db" \in Faults
  /\ req[r].at = "settle"
  /\ UpdateStatus(req[r].job, "canceled") \/ UNCHANGED row
  /\ req' = [req EXCEPT ![r] = Return(@, IF req[r].job \in Bots THEN "ok" ELSE "error")]
  /\ UNCHANGED <<kubeVars, create, removers, clicked, builderVars>>

-----------------------------------------------------------------------------
(* Kubernetes and the ci-builder                                             *)

Send(j, e) ==
  /\ net' = net \cup {e}
  /\ unanswered' = [unanswered EXCEPT ![j] = e]

PodStart(j) ==
  /\ kjob[j] = "active"
  /\ builder[j] = "none"
  /\ Mounts \subseteq objs[j]
  /\ builder' = [builder EXCEPT ![j] = "running"]
  /\ Send(j, StatusEvent(j, "running"))
  /\ UNCHANGED <<row, kubeVars, apiVars, crashes, outcome>>

Report(j, s) ==
  /\ builder' = [builder EXCEPT ![j] = "reported"]
  /\ outcome' = [outcome EXCEPT ![j] = s]
  /\ Send(j, StatusEvent(j, s))
  /\ UNCHANGED <<row, kubeVars, apiVars, crashes>>

(* The run ends by itself; the next event waits for the last one's answer.   *)
BuilderFinishes(j) ==
  /\ builder[j] = "running"
  /\ unanswered[j] = NoEvent
  /\ \E s \in {"succeeded", "failed"} : Report(j, s)

(* The pod of a deleted job is told to stop, and the builder reports that.   *)
BuilderStopped(j) ==
  /\ builder[j] = "running"
  /\ kjob[j] = "deleting"
  /\ Report(j, "canceled")

BuilderCleans(j) ==
  /\ builder[j] = "reported"
  /\ unanswered[j] = NoEvent
  /\ builder' = [builder EXCEPT ![j] = "exited"]
  /\ Send(j, CleanEvent(j, outcome[j]))
  /\ UNCHANGED <<row, kubeVars, apiVars, crashes, outcome>>

(* The grace period of a deleted job's pod runs out.                         *)
PodKilled(j) ==
  /\ kjob[j] = "deleting"
  /\ builder[j] \in {"running", "reported"}
  /\ builder' = [builder EXCEPT ![j] = "exited"]
  /\ unanswered' = [unanswered EXCEPT ![j] = NoEvent]
  /\ UNCHANGED <<row, kubeVars, apiVars, crashes, outcome, net>>

(* A pod is lost; the job starts another until its backoff limit is reached. *)
PodCrash(j) ==
  /\ kjob[j] = "active"
  /\ builder[j] = "running"
  /\ crashes' = [crashes EXCEPT ![j] = @ + 1]
  /\ builder' = [builder EXCEPT ![j] = IF crashes[j] < BackoffLimit THEN "none" ELSE "exited"]
  /\ unanswered' = [unanswered EXCEPT ![j] = NoEvent]
  /\ UNCHANGED <<row, kubeVars, apiVars, outcome, net>>

(* Foreground deletion ends once no pod is left.                             *)
CollectJob(j) ==
  /\ kjob[j] = "deleting"
  /\ builder[j] \in {"none", "exited"}
  /\ kjob' = [kjob EXCEPT ![j] = "absent"]
  /\ UNCHANGED <<row, objs, apiVars, builderVars>>

-----------------------------------------------------------------------------
(* Commands: the events of the builders                                      *)

(* An event is answered, or its answer is lost and the event comes again.    *)
Answer(e, again) ==
  /\ net' = IF again THEN net ELSE net \ {e}
  /\ \/ unanswered' = [unanswered EXCEPT ![e.job] = IF @ = e THEN NoEvent ELSE @]
     \/ again /\ UNCHANGED unanswered

(* FinishBuild, FinishRelease, FinishBot: denied updates are answered 200.   *)
HandleStatus(e, again) ==
  /\ e \in net
  /\ e.type = "status"
  /\ UpdateStatus(e.job, e.status)
  /\ Answer(e, again)
  /\ UNCHANGED <<kubeVars, apiVars, builder, crashes, outcome>>

(* Faulty variant: a row its builder never reported on is canceled with it.  *)
HandleCleanCanceling(e, again) ==
  /\ e \in net
  /\ e.type = "clean"
  /\ removers[e.job].get + removers[e.job].await < RemoverBound
  /\ removers' = [removers EXCEPT ![e.job].get = @ + 1]
  /\ UpdateStatus(e.job, "canceled")
  /\ Answer(e, again)
  /\ UNCHANGED <<kubeVars, create, req, clicked, builder, crashes, outcome>>

(* A clean event starts RemoveCiBuilderJob in a goroutine, unless its status *)
(* is canceled: the job is then taken to be removed already.                 *)
HandleClean(e, again) ==
  /\ e \in net
  /\ e.type = "clean"
  /\ IF e.status = "canceled"
     THEN UNCHANGED removers
     ELSE /\ removers[e.job].get + removers[e.job].await < RemoverBound
          /\ removers' = [removers EXCEPT ![e.job].get = @ + 1]
  /\ Answer(e, again)
  /\ UNCHANGED <<row, kubeVars, create, req, clicked, builder, crashes, outcome>>

(* RemoveCiBuilderJob ends when its Get fails or finds no job.               *)
RemoverGet(j) ==
  /\ removers[j].get > 0
  /\ \/ /\ JobExists(j)
        /\ removers' = [removers EXCEPT ![j] = [get |-> @.get - 1, await |-> @.await + 1]]
     \/ /\ ~JobExists(j) \/ "get" \in Faults
        /\ removers' = [removers EXCEPT ![j].get = @ - 1]
  /\ UNCHANGED <<row, kubeVars, create, req, clicked, builderVars>>

(* awaitCiBuilderJob returns when the job succeeded or its watch timed out;  *)
(* the removal then goes ahead either way.                                   *)
RemoveJob(j) ==
  /\ removers[j].await > 0
  /\ removers' = [removers EXCEPT ![j].await = @ - 1]
  /\ \E kept \in SUBSET (Objects \cup {"job"}) : RemoveCore(j, kept)
  /\ UNCHANGED <<row, create, req, clicked, builderVars>>

(* An event the builder gives up on: it is lost, or still on its way.        *)
GiveUp(j) ==
  /\ ~Reliable
  /\ unanswered[j] # NoEvent
  /\ net' \in {net, net \ {unanswered[j]}}
  /\ unanswered' = [unanswered EXCEPT ![j] = NoEvent]
  /\ UNCHANGED <<row, kubeVars, apiVars, builder, crashes, outcome>>

-----------------------------------------------------------------------------
CreateNext(j) == StoreRow(j) \/ CreateStep(j) \/ CreateFails(j)

CancelNext(r) ==
  \/ CancelGet(r)
  \/ CancelCore(r)
  \/ CancelStore(r)
  \/ CancelStoreFails(r)
  \/ CancelSettle(r)
  \/ CancelSettleFails(r)

BuilderNext(j) ==
  \/ PodStart(j)
  \/ BuilderFinishes(j)
  \/ BuilderStopped(j)
  \/ BuilderCleans(j)
  \/ PodKilled(j)
  \/ PodCrash(j)
  \/ CollectJob(j)
  \/ GiveUp(j)

Handle(e, again) == HandleStatus(e, again) \/ HandleClean(e, again)

Next ==
  \/ \E j \in Jobs : CreateNext(j) \/ BuilderNext(j) \/ RemoverGet(j) \/ RemoveJob(j)
  \/ \E r \in Requests : CancelNext(r) \/ \E j \in Jobs : CancelRead(r, j)
  \/ \E e \in net, again \in BOOLEAN : Handle(e, again)

Spec == Init /\ [][Next]_vars

-----------------------------------------------------------------------------
(* Properties                                                                *)

(* A row only becomes canceling or canceled because a user asked for it,     *)
(* however late or often the events of the builder arrive.                   *)
CanceledByUser == \A j \in Jobs : row[j] \in {"canceling", "canceled"} => j \in clicked

(* A row that ended says what its builder reported, unless it was refused at *)
(* creation: no late event of another pod or of an earlier phase passes for  *)
(* the result, and a refused row gets no job, whether or not the caller was  *)
(* told that it was stored.                                                  *)
ResultIsReported ==
  \A j \in Jobs :
    /\ row[j] = "succeeded" => outcome[j] = "succeeded"
    /\ row[j] = "failed" => outcome[j] = "failed" \/ create[j] = "refused"
    /\ create[j] = "refused" =>
         /\ row[j] = "failed" /\ outcome[j] = "none"
         /\ kjob[j] = "absent" /\ objs[j] = {} /\ builder[j] = "none"

(* Once the builder of a job nobody canceled has had its last status event   *)
(* answered, the row holds the result, through pod restarts, repeated and    *)
(* overtaking events.  Needs a builder that repeats events (Reliable).       *)
OutcomeRecorded ==
  \A j \in Jobs :
    outcome[j] # "none" /\ j \notin clicked
      => row[j] = outcome[j] \/ unanswered[j] = StatusEvent(j, outcome[j])

(* The configmap and the secret outlive the wait for a pod: while the job    *)
(* may start one, they are there.  Needs deletions that do not fail.         *)
StartableJob == \A j \in Jobs : kjob[j] = "active" => Mounts \subseteq objs[j]

(* "Job is already removed by cancellation, no need to remove job": a clean  *)
(* event that skips the removal is only sent for a job already deleted.      *)
RemovedByCancellation ==
  \A e \in net : e.type = "clean" /\ e.status = "canceled" => kjob[e.job] # "active"

(* The life cycle a reader of the rows relies on.                            *)
Abstract == INSTANCE JobStatus WITH status <- row
StatusLifeCycle == Abstract!Spec

(* "Canceled build by user" is true of a running or canceling row: when the  *)
(* handler says so, the row is canceling or has ended, whatever events came  *)
(* in since it read the row.  A bot's handler does not see failing UPDATEs.  *)
CancelAnswerHolds ==
  [][\A r \in Requests :
       req[r].at # "idle" /\ req'[r].answer = "ok" /\ req[r].seen # "pending" /\ req[r].job \notin Bots
         => row'[req[r].job] \in {"canceling"} \cup Terminal]_vars

-----------------------------------------------------------------------------
(* The inductive invariant behind the safety properties, one part per fact   *)
(* that another process relies on.                                           *)

(* Before its last call a Create call has no job, so no pod and no events.   *)
Creating(j) == create[j] \in Calls \cup {"insert"}

CreateFirst ==
  \A j \in Jobs : Creating(j) =>
    /\ kjob[j] = "absent"
    /\ builder[j] = "none"
    /\ outcome[j] = "none"
    /\ row[j] = "none" <=> create[j] = "insert"
    /\ create[j] = "insert" => objs[j] = {}
    /\ \A r \in Requests : req[r].at = "core" => req[r].job # j

(* A pod belongs to a stored row; a row nobody canceled stays open for it.   *)
RowOpen ==
  \A j \in Jobs :
    /\ create[j] \in Calls /\ j \notin clicked => row[j] = "pending"
    /\ kjob[j] # "absent" /\ builder[j] \in {"none", "running"} /\ j \notin clicked
         => row[j] \in {"pending", "running"}
    /\ builder[j] = "running" => kjob[j] # "absent"

(* A cancel request in progress is on record; a deletion of a job whose pod  *)
(* has not exited comes from one.                                            *)
ClickRecorded ==
  /\ \A r \in Requests : req[r].at # "idle" => req[r].job \in clicked
  /\ \A j \in Jobs : kjob[j] = "deleting" => j \in clicked \/ builder[j] = "exited"

(* The builder reports once, canceled only for a deleted job.                *)
ReportedOnce ==
  \A j \in Jobs :
    /\ builder[j] \in {"none", "running"} => outcome[j] = "none"
    /\ builder[j] = "reported" => outcome[j] # "none"
    /\ outcome[j] = "canceled" => j \in clicked /\ kjob[j] # "active"

(* Events repeat what the builder said, and clean is its last word.          *)
EventTrue(e) ==
  /\ e.type = "status" /\ e.status # "running" => outcome[e.job] = e.status
  /\ e.type = "clean" => builder[e.job] = "exited" /\ outcome[e.job] = e.status
  /\ ~Creating(e.job)

EventsTrue == \A e \in net : EventTrue(e)

(* Removal goroutines run for jobs whose pod has exited.                     *)
RemoversLate ==
  \A j \in Jobs : removers[j].get > 0 \/ removers[j].await > 0 => builder[j] = "exited"

(* With a repeating builder: its run is on record, or the event that records *)
(* it is the one the builder waits on.                                       *)
RunRecorded ==
  Reliable => \A j \in Jobs : j \notin clicked =>
    /\ builder[j] = "running" /\ unanswered[j] = NoEvent => row[j] = "running"
    /\ outcome[j] # "none" => row[j] \in {"running", outcome[j]}
    /\ outcome[j] # "none" /\ row[j] = "running" => unanswered[j] = StatusEvent(j, outcome[j])

(* With working deletions: what the pod mounts is there from the secret on.  *)
MountsKept ==
  "delete" \notin Faults => \A j \in Jobs :
    /\ create[j] = "secret" => "configmap" \in objs[j]
    /\ create[j] \in {"pullsecret", "job"} \/ kjob[j] = "active" => Mounts \subseteq objs[j]

(* What a cancel handler has read still tells how far its row has come.      *)
SeenHolds ==
  \A r \in Requests : req[r].at # "idle" =>
    LET ended == {"canceling"} \cup Terminal IN
    /\ req[r].answer = "none"
    /\ req[r].seen = "running" => row[req[r].job] \in {"running"} \cup ended
    /\ req[r].seen = "canceling" => row[req[r].job] \in ended
    /\ req[r].at = "settle" /\ req[r].job \notin Bots => row[req[r].job] \in ended

IInv ==
  /\ TypeOK
  /\ CanceledByUser
  /\ ResultIsReported
  /\ CreateFirst
  /\ RowOpen
  /\ ClickRecorded
  /\ ReportedOnce
  /\ EventsTrue
  /\ RemoversLate
  /\ RunRecorded
  /\ MountsKept

-----------------------------------------------------------------------------
(* Nothing of a job is forgotten as long as the removals' calls work         *)

(* The configmap and the secrets of a job are deleted when the job is.       *)
ObjectsHaveJob(j) == create[j] \in {"insert", "refused", "done"} /\ objs[j] # {} => kjob[j] = "active"

(* Somebody is going to remove the job: a goroutine, or the handler of the   *)
(* clean event.                                                              *)
RemovalDue(j) ==
  \/ removers[j].get > 0 \/ removers[j].await > 0
  \/ \E e \in net : e.job = j /\ e.type = "clean" /\ e.status # "canceled"

(* A job that is not deleted has a pod, will have one, is going to be        *)
(* removed, or has lost its last pod.                                        *)
JobAttended(j) ==
  kjob[j] = "active" =>
    builder[j] \in {"none", "running", "reported"} \/ RemovalDue(j) \/ crashes[j] > BackoffLimit

(* The event the builder waits to be answered is on its way.                 *)
AnswerDue(j) == unanswered[j] # NoEvent => unanswered[j] \in net /\ unanswered[j].job = j

Attended == \A j \in Jobs : ObjectsHaveJob(j) /\ JobAttended(j) /\ AnswerDue(j)

=============================================================================

----------------------------- MODULE JobLiveness -----------------------------
(***************************************************************************)
(* What must eventually happen to a job, in two regimes of JobLifecycle.   *)
(* "working": no call fails, every event arrives, and the api, the builder *)
(* and Kubernetes do their part.  "persistent": calls to Kubernetes and    *)
(* events may fail without end, only the api's own processes go on and a   *)
(* user keeps asking to cancel.  A behaviour stays in its regime.          *)
(***************************************************************************)
EXTENDS JobLifecycle

VARIABLE regime

KubeFaults == {"create", "delete", "get"}

(* One cancel request, the pull secret and a pod that may crash once.        *)
Working == INSTANCE JobLifecycle WITH
             Requests <- {CHOOSE r \in Requests : TRUE},
             PullSecret <- TRUE, Faults <- {}, Reliable <- TRUE, BackoffLimit <- 1

LiveInit ==
  \/ regime = "working" /\ Working!Init
  \/ regime = "persistent" /\ Init

LiveNext ==
  \/ regime = "working" /\ Working!Next /\ UNCHANGED regime
  \/ regime = "persistent" /\ Next /\ UNCHANGED regime

(* Handlers and goroutines run until they return; Kubernetes starts and      *)
(* stops pods, a run ends, and each event the builder waits for is handled.  *)
WorkingFairness ==
  /\ \A j \in Jobs :
       /\ WF_vars(regime = "working" /\ Working!CreateStep(j))
       /\ WF_vars(regime = "working" /\ Working!RemoverGet(j))
       /\ WF_vars(regime = "working" /\ Working!RemoveJob(j))
       /\ WF_vars(regime = "working" /\ Working!PodStart(j))
       /\ WF_vars(regime = "working" /\ Working!BuilderFinishes(j))
       /\ WF_vars(regime = "working" /\ Working!BuilderCleans(j))
       /\ WF_vars(regime = "working" /\ Working!CollectJob(j))
       /\ WF_vars(regime = "working" /\ (Working!BuilderStopped(j) \/ Working!PodKilled(j)))
  /\ \A r \in Requests :
       WF_vars(regime = "working" /\ r \in DOMAIN req
                 /\ (Working!CancelGet(r) \/ Working!CancelCore(r)
                       \/ Working!CancelStore(r) \/ Working!CancelSettle(r)))
  /\ \A e \in Event : WF_vars(regime = "working" /\ Working!Handle(e, FALSE))

(* The handlers and goroutines, and a user who asks to cancel a job again    *)
(* as long as its row is live.                                               *)
PersistentFairness ==
  /\ \A j \in Jobs :
       /\ WF_vars(regime = "persistent" /\ CreateStep(j))
       /\ WF_vars(regime = "persistent" /\ RemoverGet(j))
       /\ WF_vars(regime = "persistent" /\ RemoveJob(j))
       /\ WF_vars(regime = "persistent" /\ \E r \in Requests : CancelRead(r, j))
  /\ \A r \in Requests :
       WF_vars(regime = "persistent"
                 /\ (CancelGet(r) \/ CancelCore(r) \/ CancelStore(r) \/ CancelSettle(r)))

LiveSpec ==
  /\ LiveInit
  /\ [][LiveNext]_<<regime, vars>>
  /\ WorkingFairness
  /\ PersistentFairness

(* With working calls nothing of a job is left behind in Kubernetes, whether *)
(* it ends, is canceled at any moment, or both, unless all its pods crashed. *)
JobCleanedUp ==
  \A j \in Jobs :
    regime = "working" /\ kjob[j] = "active"
      ~> (kjob[j] = "absent" /\ objs[j] = {}) \/ crashes[j] > 1

(* Asking to cancel again always ends a job's row, whatever was lost: the    *)
(* events, the pods, the Create call, the removals.                          *)
CancelConverges ==
  \A j \in Jobs : regime = "persistent" /\ row[j] # "none" ~> row[j] \in Terminal

=============================================================================

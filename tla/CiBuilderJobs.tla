--------------------------- MODULE CiBuilderJobs ----------------------------
(***************************************************************************)
(* The Kubernetes objects of a ci-builder job and the calls the builderapi *)
(* client makes on them.  Every object of a job carries the job's name,    *)
(* which ends in the row's id, so objects of different jobs never clash.   *)
(***************************************************************************)
EXTENDS Naturals

CONSTANTS
  PullSecret,    \* are container-registry-pull credentials configured?
  Faults         \* the calls that may fail: a subset of FaultKinds

FaultKinds == {"create", "delete", "get", "db"}

ASSUME PullSecretAssumption == PullSecret \in BOOLEAN
ASSUME FaultsAssumption == Faults \subseteq FaultKinds

VARIABLES
  kjob,          \* kjob[j]: the batch/v1 Job object
  objs           \* objs[j]: the configmap and the secrets that exist

kubeVars == <<kjob, objs>>

JobState == {"absent", "active", "deleting"}
Mounts   == {"configmap", "secret"}           \* what the pod cannot start without
Objects  == Mounts \cup {"pullsecret"}

(* Faulty variants: the secret is forgotten; creating the job is repeated.   *)
NextCallNoSecret(c) ==
  CASE c = "configmap"               -> "job"
    [] c \in {"secret", "pullsecret"} -> "job"
    [] c = "job"                     -> "done"

NextCallRepeating(c) ==
  CASE c = "configmap"             -> "secret"
    [] c = "secret"                -> IF PullSecret THEN "pullsecret" ELSE "job"
    [] c \in {"pullsecret", "job"}  -> "job"

(* The calls of CreateCiBuilderJob, in order: the object each one creates    *)
(* and the call that comes next.                                             *)
NextCall(c) ==
  CASE c = "configmap"  -> "secret"
    [] c = "secret"     -> IF PullSecret THEN "pullsecret" ELSE "job"
    [] c = "pullsecret" -> "job"
    [] c = "job"        -> "done"

CreateObject(j, c) ==
  IF c = "job"
  THEN kjob' = [kjob EXCEPT ![j] = "active"] /\ UNCHANGED objs
  ELSE objs' = [objs EXCEPT ![j] = @ \cup {c}] /\ UNCHANGED kjob

(* Faulty variant: the objects are removed whether or not there is a job.    *)
JobAssumed(j) == TRUE

(* The Get both CancelCiBuilderJob and RemoveCiBuilderJob start with.        *)
JobExists(j) == kjob[j] # "absent"

(* Faulty variant: the image pull secret is forgotten.                       *)
RemoveCoreLeaving(j, kept) ==
  /\ kept # {} => "delete" \in Faults
  /\ kjob' = [kjob EXCEPT ![j] = IF @ = "active" /\ "job" \notin kept THEN "deleting" ELSE @]
  /\ objs' = [objs EXCEPT ![j] = @ \cap (kept \cup {"pullsecret"})]

(* removeCiBuilderJobCore: the job and its three satellites are deleted one  *)
(* after the other; a deletion that fails does not keep the others from      *)
(* being tried.  `kept` are the objects whose Get or Delete call failed.  A  *)
(* job is deleted in the foreground: it stays until its pod is gone.         *)
RemoveCore(j, kept) ==
  /\ kept # {} => "delete" \in Faults
  /\ kjob' = [kjob EXCEPT ![j] = IF @ = "active" /\ "job" \notin kept THEN "deleting" ELSE @]
  /\ objs' = [objs EXCEPT ![j] = @ \cap kept]

=============================================================================

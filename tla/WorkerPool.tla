----------------------------- MODULE WorkerPool -----------------------------
(***************************************************************************)
(* The worker pool and its user DeleteLogs, which lists the log objects of *)
(* a repository and deletes them with a pool.  The workers share MaxRetry  *)
(* and the slice of errors; the workers of DeleteLogs assign the variable  *)
(* err of the function that lists, too.  Next to DeleteLogs a caller who   *)
(* keeps to the comments of the interface: he closes the pool, reads all   *)
(* results and then asks for the errors.                                   *)
(***************************************************************************)
EXTENDS Integers, Sequences, FiniteSets

CONSTANTS
  Listed,                            \* the jobs of the caller, at most so many objects in the list
  Workers,                           \* Size many
  JobQueueLimit, ResultQueueLimit,
  Configs                            \* the users and configurations to choose from

ASSUME ListedAssumption == Listed \in Nat
ASSUME SizeAssumption == IsFiniteSet(Workers) /\ Workers # {}
ASSUME LimitsAssumption == JobQueueLimit \in Nat \ {0} /\ ResultQueueLimit \in Nat \ {0}
ASSUME ConfigsAssumption ==
  /\ Configs \subseteq [user : {"DeleteLogs", "Close"}, MaxRetry : Nat, HandlePanic : BOOLEAN]
  /\ \A c \in Configs : c.user = "DeleteLogs" => c.MaxRetry = 0 /\ ~c.HandlePanic     \* DefaultConfig

Jobs   == 1..Listed
NilJob == 0                          \* the nil that stands at the end of the list

VARIABLES
  config,
  MaxRetry, errors,                  \* shared by the workers without a lock
  jobs, results, running,            \* the channels, and the workers that are left
  worker,                            \* worker[w]: where a worker is
  client,                            \* where the user is
  listed,                            \* objects the iterator has returned so far
  err,                               \* the variable of DeleteLogs
  received, deleted,                 \* results read, results sent of objects that are gone
  retries, past                      \* calls repeated, what happened (history)

channels == <<jobs, results, running>>
list     == <<client, listed, err>>
vars     == <<config, MaxRetry, errors, channels, worker, list, received, deleted, retries, past>>

Sent  == Jobs \cup {NilJob}
Error == {"nil", "done", "listing", "deleting"}
Ends  == {"returned", "failed", "panicked"}

Worker == [at : {"idle", "call", "assign", "check", "failed", "load", "retry", "read", "append", "store", "gone"},
           job : Sent, got : Error, value : Int, list : SUBSET Jobs]
Client == [at : {"next", "isError", "isNotDone", "isDone", "send", "close", "drain", "errors", "read"} \cup Ends,
           job : Sent, got : Error]

TypeOK ==
  /\ config \in Configs
  /\ MaxRetry \in Int /\ errors \subseteq Jobs
  /\ jobs \in Seq(Sent) /\ Len(jobs) <= JobQueueLimit
  /\ results \subseteq Jobs /\ Cardinality(results) <= ResultQueueLimit
  /\ running \in 0..Cardinality(Workers)
  /\ worker \in [Workers -> Worker] /\ client \in Client
  /\ listed \in 0..Listed /\ err \in Error
  /\ received \subseteq Jobs /\ deleted \subseteq Jobs
  /\ retries \in Nat
  /\ past \subseteq {"torn", "overlapped", "panicked", "crashed"}

Idle      == [at |-> "idle", job |-> NilJob, got |-> "nil", value |-> 0, list |-> {}]
At(point) == [at |-> point, job |-> NilJob, got |-> "nil"]

(* NewPool starts the workers.                                               *)
Init ==
  /\ config \in Configs
  /\ MaxRetry = config.MaxRetry
  /\ errors = {}
  /\ jobs = <<>> /\ results = {} /\ running = Cardinality(Workers)
  /\ worker = [w \in Workers |-> Idle]
  /\ client = At("next") /\ listed = 0 /\ err = "nil"
  /\ received = {} /\ deleted = {}
  /\ retries = 0 /\ past = {}

user       == config.user
jobsClosed == user = "Close" /\ client.at \in {"drain", "errors", "read"} \cup Ends
Alive      == "crashed" \notin past
Happens(c, e) == past' = IF c THEN past \cup {e} ELSE past

-----------------------------------------------------------------------------
(* startWorker                                                               *)

Here(w, at)   == worker[w].at = at
Becomes(w, r) == worker' = [worker EXCEPT ![w] = r]
Goto(w, at)   == Becomes(w, [worker[w] EXCEPT !.at = at])

Take(w) ==
  /\ Here(w, "idle")
  /\ jobs # <<>>
  /\ jobs' = Tail(jobs)
  /\ Becomes(w, [Idle EXCEPT !.at = "call", !.job = Head(jobs)])
  /\ UNCHANGED <<config, MaxRetry, errors, results, running, list, received, deleted, retries, past>>

(* Faulty variant: the worker is not counted.                                *)
RemoveNone(w) == running' = running /\ Goto(w, "gone")

(* removeWorker: the last one closes the results.                            *)
RemoveWorker(w) == running' = running - 1 /\ Goto(w, "gone")

(* A worker ends when the jobs are closed or, if panics are handled, on one. *)
Leave(w) ==
  /\ \/ Here(w, "idle") /\ jobs = <<>> /\ jobsClosed /\ UNCHANGED past
     \/ Here(w, "call") /\ user = "Close" /\ config.HandlePanic /\ past' = past \cup {"panicked"}
  /\ RemoveWorker(w)
  /\ UNCHANGED <<config, MaxRetry, errors, jobs, results, list, received, deleted, retries>>

(* Other panics end the process: the nil at the end of the list makes one.   *)
Crash(w) ==
  /\ Here(w, "call")
  /\ IF user = "Close" THEN ~config.HandlePanic ELSE worker[w].job = NilJob
  /\ past' = past \cup {"crashed"}
  /\ UNCHANGED <<config, MaxRetry, errors, channels, worker, list, received, deleted, retries>>

(* The Worker function: any, or that of DeleteLogs, which deletes the object *)
(* (not after the request was answered), assigns the error to the variable   *)
(* all share, and reads it in its condition.                                 *)
Call(w) ==
  /\ Here(w, "call")
  /\ IF user = "Close" THEN Goto(w, "store") \/ Goto(w, "failed")
     ELSE /\ worker[w].job # NilJob
          /\ \E e \in {"nil", "deleting"} :
               /\ e = "nil" => client.at \notin Ends
               /\ Becomes(w, [worker[w] EXCEPT !.at = "assign", !.got = e])
  /\ UNCHANGED <<config, MaxRetry, errors, channels, list, received, deleted, retries, past>>

Assign(w) ==
  /\ Here(w, "assign")
  /\ err' = worker[w].got
  /\ Goto(w, "check")
  /\ UNCHANGED <<config, MaxRetry, errors, channels, client, listed, received, deleted, retries, past>>

(* Faulty variant: the error is ignored.                                     *)
OutcomeAssumed == "store"
Outcome == IF err = "nil" THEN "store" ELSE "failed"

Check(w) ==
  /\ Here(w, "check")
  /\ Goto(w, Outcome)
  /\ Happens(err # worker[w].got, "torn")
  /\ UNCHANGED <<config, MaxRetry, errors, channels, list, received, deleted, retries>>

(* A retry is one for all jobs: MaxRetry is read, and read and decremented.  *)
(* An error is appended: the slice is read, and assigned.                    *)
Read(w) ==
  /\ \/ Here(w, "failed") /\ Goto(w, IF MaxRetry > 0 THEN "load" ELSE "read")
     \/ Here(w, "load")   /\ Becomes(w, [worker[w] EXCEPT !.at = "retry", !.value = MaxRetry])
     \/ Here(w, "read")   /\ Becomes(w, [worker[w] EXCEPT !.at = "append", !.list = errors])
  /\ UNCHANGED <<config, MaxRetry, errors, channels, list, received, deleted, retries, past>>

(* Faulty variants: the next job is taken; the decrement is forgotten.       *)
AgainNextJob(w)   == MaxRetry' = worker[w].value - 1 /\ Becomes(w, Idle)
AgainUncounted(w) == MaxRetry' = MaxRetry /\ Becomes(w, [worker[w] EXCEPT !.at = "call", !.value = 0])

Again(w) == MaxRetry' = worker[w].value - 1 /\ Becomes(w, [worker[w] EXCEPT !.at = "call", !.value = 0])

Retry(w) ==
  /\ Here(w, "retry")
  /\ Again(w)
  /\ retries' = retries + 1
  /\ Happens(worker[w].value # MaxRetry \/ worker[w].value < 1, "overlapped")
  /\ UNCHANGED <<config, errors, channels, list, received, deleted>>

AfterError(w) == Becomes(w, Idle)

AppendError(w) ==
  /\ Here(w, "append")
  /\ errors' = worker[w].list \cup {worker[w].job}
  /\ AfterError(w)
  /\ Happens(worker[w].list # errors, "overlapped")
  /\ UNCHANGED <<config, MaxRetry, channels, list, received, deleted, retries>>

StoreResult(w) ==
  /\ Here(w, "store")
  /\ Cardinality(results) < ResultQueueLimit
  /\ results' = results \cup {worker[w].job}
  /\ deleted' = IF user = "DeleteLogs" /\ worker[w].got = "nil" THEN deleted \cup {worker[w].job} ELSE deleted
  /\ Becomes(w, Idle)
  /\ UNCHANGED <<config, MaxRetry, errors, jobs, running, list, received, retries, past>>

-----------------------------------------------------------------------------
(* The user                                                                  *)

ClientGoes(at, j, e) == client' = [at |-> at, job |-> j, got |-> e]

(* objAttrs, err = it.Next()                                                 *)
ListNext ==
  /\ client.at = "next"
  /\ user = "DeleteLogs"
  /\ \/ listed < Listed /\ listed' = listed + 1 /\ ClientGoes("isError", listed', "nil")
     \/ UNCHANGED listed /\ ClientGoes("isError", NilJob, "done")
     \/ UNCHANGED listed /\ ClientGoes("isError", NilJob, "listing")
  /\ err' = client'.got
  /\ UNCHANGED <<config, MaxRetry, errors, channels, worker, received, deleted, retries, past>>

(* Three reads of err follow, workers may assign it before each of them.     *)
Reads(at, holds, yes, no) ==
  /\ client.at = at
  /\ client' = [client EXCEPT !.at = IF holds THEN yes ELSE no]
  /\ Happens(err # client.got, "torn")
  /\ UNCHANGED <<config, MaxRetry, errors, channels, worker, listed, err, received, deleted, retries>>

AtDone == "errors"

ReadsErr ==
  \/ Reads("isError", err # "nil", "isNotDone", "isDone")
  \/ Reads("isNotDone", err # "done", "failed", "isDone")
  \/ Reads("isDone", err = "done", AtDone, "send")

ListSafely ==
  /\ client.at = "next"
  /\ user = "Close"
  /\ IF listed = Listed THEN client' = At("close") /\ UNCHANGED listed
     ELSE listed' = listed + 1 /\ ClientGoes("send", listed', "nil")
  /\ UNCHANGED <<config, MaxRetry, errors, channels, worker, err, received, deleted, retries, past>>

CanSend == Len(jobs) < JobQueueLimit

SendJobs ==
  /\ client.at = "send"
  /\ CanSend
  /\ jobs' = Append(jobs, client.job)
  /\ client' = At("next")
  /\ UNCHANGED <<config, MaxRetry, errors, results, running, worker, listed, err, received, deleted, retries, past>>

Receive(at, next) ==
  /\ client.at = at
  /\ \E r \in results : results' = results \ {r} /\ received' = received \cup {r}
  /\ client' = At(next)
  /\ UNCHANGED <<config, MaxRetry, errors, jobs, running, worker, listed, err, deleted, retries, past>>

Moves(at, next) ==
  /\ client.at = at
  /\ client' = At(next)
  /\ UNCHANGED <<config, MaxRetry, errors, channels, worker, listed, err, received, deleted, retries, past>>

(* Close, and the results up to the end.                                     *)
Close  == Moves("close", "drain") \/ Receive("drain", "drain")
          \/ (results = {} /\ running = 0 /\ Moves("drain", "errors"))

(* Errors waits for one result, or for the results to be closed.  DeleteLogs *)
(* then takes the job of an error for a string, which it is not.             *)
Errors == Receive("errors", "read") \/ (results = {} /\ running = 0 /\ Moves("errors", "read"))
ReturnErrors == Moves("read", IF user = "DeleteLogs" /\ errors # {} THEN "panicked" ELSE "returned")

-----------------------------------------------------------------------------
WorkerStep(w) ==
  \/ Take(w) \/ Leave(w) \/ Crash(w)
  \/ Call(w) \/ Assign(w) \/ Check(w)
  \/ Read(w) \/ Retry(w) \/ AppendError(w) \/ StoreResult(w)

ClientStep == ListNext \/ ReadsErr \/ ListSafely \/ SendJobs \/ Close \/ Errors \/ ReturnErrors

Next == Alive /\ (ClientStep \/ \E w \in Workers : WorkerStep(w))

(* The scheduler runs every goroutine that is not blocked.                   *)
Fairness == WF_vars(Alive /\ ClientStep) /\ \A w \in Workers : WF_vars(Alive /\ WorkerStep(w))

Spec == Init /\ [][Next]_vars /\ Fairness

-----------------------------------------------------------------------------
(* Properties                                                                *)

Queued == {jobs[i] : i \in 1..Len(jobs)}

(* The results are closed once and after the last result: no worker is left  *)
(* that could send on a closed channel, which would end the process.         *)
ClosedLast == running = Cardinality({w \in Workers : ~Here(w, "gone")})

(* The caller who closes the pool learns of every job, by its result or by   *)
(* its error, unless two workers met in the slice of errors or a panic took  *)
(* the job with it.                                                          *)
NothingForgotten ==
  client.at = "returned" /\ user = "Close" /\ past = {} => received \cup errors = Jobs

(* MaxRetry "is cumulative for all jobs": it is kept, unless a worker read   *)
(* it while another one was between its read and its write.                  *)
RetriesKept ==
  "overlapped" \notin past => retries <= config.MaxRetry /\ MaxRetry = config.MaxRetry - retries

(* DeleteLogs reports success although objects are still there, but only     *)
(* after it has deleted one, unless it was misled by another worker's err.   *)
SuccessDeleted ==
  client.at = "returned" /\ user = "DeleteLogs" /\ "torn" \notin past => received \subseteq deleted /\ received # {}

(* Only a worker's assignment of err makes DeleteLogs send the nil at the    *)
(* end of the list, which ends the process.                                  *)
NilNotSent == user = "DeleteLogs" /\ "torn" \notin past => Alive /\ NilJob \notin Queued

(* The call ends, unless the process crashed; results were waited for that   *)
(* never come; or jobs are sent that no worker takes, since all wait for a   *)
(* reader of their results or are gone, which needs more jobs than fit into  *)
(* the channels and workers, a worker that panicked or a nil that was sent.  *)
NoResult == client.at = "errors" /\ ~jobsClosed /\ results = {}
NoTaker  ==
  /\ client.at = "send"
  /\ Len(jobs) = JobQueueLimit
  /\ \A w \in Workers : Here(w, "gone") \/ (Here(w, "store") /\ Cardinality(results) = ResultQueueLimit)
  /\ past \cap {"panicked", "torn"} # {} \/ listed > JobQueueLimit + Cardinality(Workers) + ResultQueueLimit
CallEnds == <>(client.at \in Ends \/ ~Alive \/ [](NoResult \/ NoTaker))

(* What makes a worker, and the user, wait.                                  *)
WorkerWaits(w) ==
  \/ Here(w, "idle") /\ jobs = <<>> /\ ~jobsClosed
  \/ Here(w, "store") /\ Cardinality(results) = ResultQueueLimit
  \/ Here(w, "gone")
ClientWaits ==
  \/ client.at = "send" /\ ~CanSend
  \/ client.at \in {"drain", "errors"} /\ results = {} /\ running # 0
  \/ client.at \in Ends

(* There is no other deadlock of a call than these two.                      *)
StuckAsKnown ==
  Alive /\ client.at \notin Ends /\ ClientWaits /\ (\A w \in Workers : WorkerWaits(w)) => NoResult \/ NoTaker

(* Every object that was listed is in one place only: sent, queued, with a   *)
(* worker or a result, or on its way to be sent, unless DeleteLogs was       *)
(* misled.                                                                   *)
Holding == {w \in Workers : worker[w].at \notin {"idle", "gone"}}
Held    == {worker[w].job : w \in Holding}
InHand  == client.at \in {"isError", "isNotDone", "isDone", "send"} /\ client.job # NilJob
InOnePlace ==
  /\ \A i, j \in 1..Len(jobs) : i # j => jobs[i] # jobs[j]
  /\ \A v, w \in Holding : v # w => worker[v].job # worker[w].job
  /\ Held \cap (Queued \cup results) = {} /\ Queued \cap results = {}
  /\ \A j \in Queued \cup Held \cup results : j <= listed
  /\ InHand => client.job = listed /\ client.job \notin Queued \cup Held \cup results

=============================================================================

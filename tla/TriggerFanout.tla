--------------------------- MODULE TriggerFanout ----------------------------
(***************************************************************************)
(* The seven FireXTriggers methods of the core service: one goroutine per  *)
(* trigger that should fire, a semaphore to limit them, an errgroup to     *)
(* wait for them.  The closures assign the variables err and ctx of the    *)
(* method that starts them, so the goroutines share both; a step here is   *)
(* one access to a shared variable or one call of the semaphore.           *)
(***************************************************************************)
EXTENDS Naturals, Sequences, FiniteSets, SequencesExt

CONSTANTS
  Triggers,      \* the triggers that should fire
  Concurrency    \* triggerConcurrency, the size of the semaphore

ASSUME ConcurrencyAssumption == Concurrency \in Nat \ {0}
ASSUME TriggersAssumption == IsFiniteSet(Triggers)

VARIABLES
  main,          \* the method: "spawning", "waiting" in g.Wait, "returned"
  pc,            \* pc[t]: the goroutine of trigger t
  got,           \* got[t]: what its Acquire returned
  seen,          \* seen[t]: the context it passed to Acquire
  err, ctx,      \* the variables the closures share
  caller,        \* "present", or its context is canceled: "left", or
                 \* "leftEarly" with goroutines still short of their permit
  groupFailed,   \* a goroutine returned an error to the errgroup
  held, queue,   \* the semaphore: permits given out, goroutines waiting
  panicked       \* a panic of a goroutine ends the process

vars == <<main, pc, got, seen, err, ctx, caller, groupFailed, held, queue, panicked>>
semaphore == <<held, queue>>

Step  == {"none", "start", "called", "waiting", "acquired", "check", "leaving", "run", "firing", "done"}
Error == {"nil", "canceled"}

TypeOK ==
  /\ main \in {"spawning", "waiting", "returned"}
  /\ pc \in [Triggers -> Step]
  /\ got \in [Triggers -> Error]
  /\ seen \in [Triggers -> {"group", "background"}]
  /\ err \in Error
  /\ ctx \in {"group", "background"}
  /\ caller \in {"present", "left", "leftEarly"}
  /\ groupFailed \in BOOLEAN
  /\ held \in Nat
  /\ queue \in Seq(Triggers)
  /\ panicked \in BOOLEAN

Init ==
  /\ main = "spawning"
  /\ pc = [t \in Triggers |-> "none"]
  /\ got = [t \in Triggers |-> "nil"]
  /\ seen = [t \in Triggers |-> "group"]
  /\ err = "nil"
  /\ ctx = "group"
  /\ caller = "present"
  /\ groupFailed = FALSE
  /\ held = 0
  /\ queue = <<>>
  /\ panicked = FALSE

Goto(t, step) == pc' = [pc EXCEPT ![t] = step]

(* Faulty variant: the permit is not asked for.                              *)
GoUnlimited(t) ==
  /\ main = "spawning"
  /\ pc[t] = "none"
  /\ Goto(t, "run")
  /\ UNCHANGED <<main, got, seen, err, ctx, caller, groupFailed, semaphore, panicked>>

(* g.Go for a trigger that fires.                                            *)
Go(t) ==
  /\ main = "spawning"
  /\ pc[t] = "none"
  /\ Goto(t, "start")
  /\ UNCHANGED <<main, got, seen, err, ctx, caller, groupFailed, semaphore, panicked>>

Wait ==
  /\ main = "spawning"
  /\ \A t \in Triggers : pc[t] # "none"
  /\ main' = "waiting"
  /\ UNCHANGED <<pc, got, seen, err, ctx, caller, groupFailed, semaphore, panicked>>

(* The argument of Acquire is the variable all goroutines share.             *)
ReadContext(t) ==
  /\ pc[t] = "start"
  /\ seen' = [seen EXCEPT ![t] = ctx]
  /\ Goto(t, "called")
  /\ UNCHANGED <<main, got, err, ctx, caller, groupFailed, semaphore, panicked>>

(* semaphore.Acquire(ctx, 1): a free permit is taken at once, even under a   *)
(* canceled context, otherwise the goroutine queues up.                      *)
Acquire(t) ==
  /\ pc[t] = "called"
  /\ IF held < Concurrency /\ queue = <<>>
     THEN /\ held' = held + 1
          /\ Goto(t, "acquired")
          /\ UNCHANGED queue
     ELSE /\ queue' = Append(queue, t)
          /\ Goto(t, "waiting")
          /\ UNCHANGED held
  /\ UNCHANGED <<main, got, seen, err, ctx, caller, groupFailed, panicked>>

(* The errgroup's context is canceled with the caller's and on an error.     *)
GroupCanceled == caller # "present" \/ groupFailed

AcquireFails(t) ==
  /\ pc[t] = "waiting"
  /\ seen[t] = "group"
  /\ GroupCanceled
  /\ queue' = Remove(queue, t)
  /\ got' = [got EXCEPT ![t] = "canceled"]
  /\ Goto(t, "acquired")
  /\ UNCHANGED <<main, seen, err, ctx, caller, groupFailed, held, panicked>>

(* err = ...: the assignment reaches the variable all goroutines share,      *)
Assign(t) ==
  /\ pc[t] = "acquired"
  /\ err' = got[t]
  /\ Goto(t, "check")
  /\ UNCHANGED <<main, got, seen, ctx, caller, groupFailed, semaphore, panicked>>

(* and if err != nil reads it again,                                         *)
Check(t) ==
  /\ pc[t] = "check"
  /\ Goto(t, IF err = "nil" THEN "run" ELSE "leaving")
  /\ UNCHANGED <<main, got, seen, err, ctx, caller, groupFailed, semaphore, panicked>>

(* as does return err.  No Release has been deferred yet.                    *)
ReturnError(t) ==
  /\ pc[t] = "leaving"
  /\ groupFailed' = (groupFailed \/ err # "nil")
  /\ Goto(t, "done")
  /\ UNCHANGED <<main, got, seen, err, ctx, caller, semaphore, panicked>>

(* ctx is replaced by a context nobody cancels, and the action is fired;     *)
(* errors of the action are logged only.                                     *)
Fire(t) ==
  /\ pc[t] = "run"
  /\ ctx' = "background"
  /\ Goto(t, "firing")
  /\ UNCHANGED <<main, got, seen, err, caller, groupFailed, semaphore, panicked>>

(* Faulty variant: a permit is given back for good.                          *)
ReleaseSilently(t) ==
  /\ pc[t] = "firing"
  /\ held' = held - 1
  /\ Goto(t, "done")
  /\ UNCHANGED <<main, got, seen, err, ctx, caller, groupFailed, queue, panicked>>

(* The deferred semaphore.Release(1): the longest waiting goroutine gets the *)
(* permit; to release more than is held panics.                              *)
Release(t) ==
  /\ pc[t] = "firing"
  /\ IF held = 0
     THEN panicked' = TRUE /\ Goto(t, "done") /\ UNCHANGED <<got, semaphore>>
     ELSE /\ IF queue = <<>>
             THEN /\ held' = held - 1
                  /\ Goto(t, "done")
                  /\ UNCHANGED <<got, queue>>
             ELSE /\ queue' = Tail(queue)
                  /\ got' = [got EXCEPT ![Head(queue)] = "nil"]
                  /\ pc' = [pc EXCEPT ![t] = "done", ![Head(queue)] = "acquired"]
                  /\ UNCHANGED held
          /\ UNCHANGED panicked
  /\ UNCHANGED <<main, seen, err, ctx, caller, groupFailed>>

Return ==
  /\ main = "waiting"
  /\ \A t \in Triggers : pc[t] = "done"
  /\ main' = "returned"
  /\ UNCHANGED <<pc, got, seen, err, ctx, caller, groupFailed, semaphore, panicked>>

(* Every goroutine got its permit: no Acquire is under way or to come.       *)
AllPermitted == \A t \in Triggers : pc[t] \notin {"none", "start", "called", "waiting"}

(* Only FirePubSubTriggers runs under a context that may be canceled: that   *)
(* of the push request it answers.                                           *)
RequestEnds ==
  /\ main # "returned"
  /\ caller = "present"
  /\ caller' = IF AllPermitted THEN "left" ELSE "leftEarly"
  /\ UNCHANGED <<main, pc, got, seen, err, ctx, groupFailed, semaphore, panicked>>

Goroutine(t) ==
  \/ ReadContext(t)
  \/ Acquire(t)
  \/ AcquireFails(t)
  \/ Assign(t)
  \/ Check(t)
  \/ ReturnError(t)
  \/ Fire(t)
  \/ Release(t)

Next ==
  /\ ~panicked
  /\ \/ Wait
     \/ Return
     \/ RequestEnds
     \/ \E t \in Triggers : Go(t) \/ Goroutine(t)

Spec == Init /\ [][Next]_vars

(* The Go scheduler runs every goroutine that is not blocked.                *)
Fairness ==
  /\ WF_vars(~panicked /\ (Wait \/ Return))
  /\ \A t \in Triggers : WF_vars(~panicked /\ (Go(t) \/ Goroutine(t)))

FairSpec == Spec /\ Fairness

-----------------------------------------------------------------------------
(* Properties                                                                *)

(* "limit concurrency using a semaphore"                                     *)
ConcurrencyLimited ==
  caller # "leftEarly" =>
    Cardinality({t \in Triggers : pc[t] \in {"run", "firing"}}) <= Concurrency

(* Every trigger is fired once, within the limit, before the method returns; *)
(* "create new context to avoid cancellation impacting execution": a caller  *)
(* that goes away once every goroutine has its permit changes nothing.       *)
Contract ==
  INSTANCE BoundedFanout WITH
    firing   <- {t \in Triggers : pc[t] = "firing"},
    finished <- {t \in Triggers : pc[t] = "done"},
    returned <- main = "returned"
FansOut ==
  Contract!Init /\ [][caller' # "leftEarly" => [Contract!Next]_(Contract!vars)]_vars

(* No wake-up is lost: a goroutine waits for a permit only while all are     *)
(* given out to others, and the method waits only while one of its           *)
(* goroutines can go on.                                                     *)
NoLostWakeup ==
  caller # "leftEarly" =>
    /\ \A t \in Triggers : pc[t] = "waiting" =>
         Cardinality({u \in Triggers : pc[u] \in {"acquired", "check", "run", "firing"}}) = Concurrency
    /\ main = "waiting" => \/ \A t \in Triggers : pc[t] = "done"
                           \/ \E t \in Triggers : pc[t] \notin {"none", "waiting", "done"}

(* "wait until all concurrent goroutines are done": the wait ends.           *)
WaitEnds == <>(main = "returned" \/ caller = "leftEarly")

-----------------------------------------------------------------------------
(* The inductive invariant                                                   *)

Holders == {t \in Triggers : pc[t] \in {"acquired", "check", "run", "firing"}}

(* No error is ever seen, and a caller that left finds no Acquire to cancel. *)
NoErrors ==
  /\ err = "nil"
  /\ \A t \in Triggers : got[t] = "nil" /\ pc[t] # "leaving"
  /\ caller = "left" => AllPermitted
  /\ ~groupFailed /\ ~panicked

PermitsAccounted == held = Cardinality(Holders) /\ held <= Concurrency

Queued ==
  /\ \A i \in 1..Len(queue) : pc[queue[i]] = "waiting"
  /\ \A i, k \in 1..Len(queue) : i # k => queue[i] # queue[k]

(* Who waits is in the queue, and there is one only while no permit is free. *)
WaitersQueued ==
  /\ \A t \in Triggers : pc[t] = "waiting" => \E i \in 1..Len(queue) : queue[i] = t
  /\ queue # <<>> => held = Concurrency

AllSpawned == main # "spawning" => \A t \in Triggers : pc[t] # "none"

Calm == TypeOK /\ NoErrors /\ PermitsAccounted /\ Queued /\ WaitersQueued /\ AllSpawned

(* The permits are those of the goroutines that fire, as long as no caller   *)
(* cancels an Acquire.                                                       *)
IInv == caller # "leftEarly" => Calm

=============================================================================

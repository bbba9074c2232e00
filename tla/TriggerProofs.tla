----------------------------- MODULE TriggerProofs ---------------------------
(***************************************************************************)
(* Theorems about the triggers: about TriggerFanout, which fires those of  *)
(* one event, for every set of triggers and every size of the semaphore as *)
(* long as no caller leaves before every goroutine has its permit; and     *)
(* about FinishedTriggers, which announces results to them, for any jobs,  *)
(* any number of goroutines and any faults.                                *)
(***************************************************************************)
EXTENDS TriggerFanout, FiniteSetTheorems, TLAPS

CONSTANTS Jobs, Announcers, Faults
VARIABLES row, builder, net, clicked, announcer, announced, lost

F == INSTANCE FinishedTriggers

-----------------------------------------------------------------------------
(* TriggerFanout                                                             *)

Holding == {"acquired", "check", "run", "firing"}
Asking  == {"none", "start", "called", "waiting"}

(* A goroutine that neither gets nor gives back a permit leaves the holders  *)
(* as they are.                                                              *)
LEMMA HoldersKept ==
  ASSUME TypeOK, NEW t \in Triggers, NEW step,
         Goto(t, step), pc[t] \in Holding <=> step \in Holding
  PROVE  Holders' = Holders
  BY DEF TypeOK, Goto, Holders, Holding

(* A goroutine outside the queue may take any step without touching it.      *)
LEMMA QueueKept ==
  ASSUME TypeOK, Queued, NEW t \in Triggers, NEW step,
         Goto(t, step), pc[t] # "waiting", queue' = queue
  PROVE  Queued'
  <1>1. \A i \in 1..Len(queue) : queue[i] \in Triggers /\ queue[i] # t
    BY DEF TypeOK, Queued
  <1>. QED  BY <1>1 DEF TypeOK, Queued, Goto

LEMMA WaitersKept ==
  ASSUME TypeOK, WaitersQueued, AllSpawned, NEW t \in Triggers, NEW step,
         Goto(t, step), step \notin {"none", "waiting"}, UNCHANGED <<main, held, queue>>
  PROVE  WaitersQueued' /\ AllSpawned'
  BY DEF TypeOK, WaitersQueued, AllSpawned, Goto

(* The set of the goroutines with a permit is finite.                        *)
LEMMA HoldersFinite == IsFiniteSet(Holders) /\ Cardinality(Holders) \in Nat
  <1>1. Holders \subseteq Triggers
    BY DEF Holders
  <1>. QED  BY <1>1, FS_Subset, FS_CardinalityType, TriggersAssumption

(* The invariant holds before the first goroutine is started.                *)
LEMMA InitCalm ==
  ASSUME Init
  PROVE  Calm
  <1>1. TypeOK
    <2>1. <<>> \in Seq(Triggers) /\ 0 \in Nat
      OBVIOUS
    <2>2. pc \in [Triggers -> Step] /\ got \in [Triggers -> Error]
      BY DEF Init, Step, Error
    <2>. QED  BY <2>1, <2>2 DEF Init, TypeOK, Error
  <1>5. Queued
    BY DEF Init, Queued
  <1>4. NoErrors
    BY DEF Init, NoErrors
  <1>2. Holders = {}
    BY DEF Init, Holders
  <1>3. PermitsAccounted
    BY <1>2, FS_EmptySet, ConcurrencyAssumption DEF Init, PermitsAccounted
  <1>6. WaitersQueued /\ AllSpawned
    BY DEF Init, WaitersQueued, AllSpawned
  <1>. QED  BY <1>1, <1>3, <1>4, <1>5, <1>6 DEF Calm

(* Steps that move one goroutine and leave the semaphore alone.              *)
LEMMA MoveStep ==
  ASSUME Calm, NEW t \in Triggers, NEW step \in Step,
         Goto(t, step), UNCHANGED semaphore,
         pc[t] # "waiting", step \notin {"none", "waiting", "leaving"},
         pc[t] \in Holding <=> step \in Holding,
         main' = main, got' = got, seen' \in [Triggers -> {"group", "background"}],
         err' = "nil", ctx' \in {"group", "background"},
         step \in Asking => pc[t] \in Asking,
         caller' = caller, groupFailed' = groupFailed, panicked' = panicked
  PROVE  Calm'
  <1>1. TypeOK'
    BY DEF Calm, TypeOK, NoErrors, Goto, Error, semaphore
  <1>4. AllPermitted => AllPermitted'
    BY DEF Calm, TypeOK, AllPermitted, Goto, Asking
  <1>5. NoErrors'
    BY <1>4 DEF Calm, TypeOK, NoErrors, Goto
  <1>2. PermitsAccounted'
    BY HoldersKept DEF Calm, PermitsAccounted, semaphore
  <1>3. Queued'
    BY QueueKept DEF Calm, semaphore
  <1>6. WaitersQueued' /\ AllSpawned'
    BY WaitersKept DEF Calm, semaphore
  <1>. QED  BY <1>1, <1>2, <1>3, <1>5, <1>6 DEF Calm

(* Acquire adds a holder, or a goroutine at the end of the queue.            *)
LEMMA AcquireStep ==
  ASSUME Calm, NEW t \in Triggers, Acquire(t)
  PROVE  Calm'
  <1>. USE DEF Calm, Acquire, semaphore
  <1>0. caller # "left"
    BY DEF NoErrors, AllPermitted
  <1>1. CASE held < Concurrency /\ queue = <<>>
    <2>1. TypeOK' /\ NoErrors'
      BY <1>0, <1>1 DEF TypeOK, NoErrors, Goto, Step
    <2>2. Holders' = Holders \cup {t} /\ t \notin Holders
      BY <1>1 DEF Holders, Goto, TypeOK
    <2>3. Cardinality(Holders') = Cardinality(Holders) + 1
      BY <2>2, HoldersFinite, FS_AddElement
    <2>4. PermitsAccounted'
      BY <1>1, <2>3, ConcurrencyAssumption DEF PermitsAccounted, TypeOK
    <2>5. Queued' /\ WaitersQueued' /\ AllSpawned'
      BY <1>1 DEF Queued, WaitersQueued, AllSpawned, Goto, TypeOK
    <2>. QED  BY <2>1, <2>4, <2>5
  <1>2. CASE ~(held < Concurrency /\ queue = <<>>)
    <2>1. TypeOK' /\ NoErrors'
      <3>1. queue' \in Seq(Triggers)
        BY <1>2 DEF TypeOK
      <3>2. pc' \in [Triggers -> Step] /\ \A u \in Triggers : pc'[u] # "leaving"
        BY <1>2 DEF TypeOK, NoErrors, Goto, Step
      <3>. QED  BY <1>0, <1>2, <3>1, <3>2 DEF TypeOK, NoErrors
    <2>2. PermitsAccounted'
      BY <1>2, HoldersKept DEF PermitsAccounted, Holding
    <2>3. \A i \in 1..Len(queue) : queue[i] \in Triggers /\ queue[i] # t /\ pc[queue[i]] = "waiting"
      BY DEF TypeOK, Queued
    <2>4. /\ queue' = Append(queue, t)
          /\ Len(queue') = Len(queue) + 1
          /\ queue'[Len(queue) + 1] = t
          /\ \A i \in 1..Len(queue) : queue'[i] = queue[i]
      BY <1>2 DEF TypeOK
    <2>5. pc' = [pc EXCEPT ![t] = "waiting"]
      BY <1>2 DEF Goto
    <2>6. \A i \in 1..Len(queue') : i \in 1..Len(queue) \/ i = Len(queue) + 1
      BY <2>4 DEF TypeOK
    <2>7. \A i \in 1..Len(queue') : pc'[queue'[i]] = "waiting"
      BY <2>3, <2>4, <2>5, <2>6 DEF TypeOK
    <2>8. \A i, k \in 1..Len(queue') : i # k => queue'[i] # queue'[k]
      BY <2>3, <2>4, <2>6 DEF Queued
    <2>9. \A u \in Triggers : pc'[u] = "waiting" => \E i \in 1..Len(queue') : queue'[i] = u
      <3> SUFFICES ASSUME NEW u \in Triggers, pc'[u] = "waiting"
                   PROVE  \E i \in 1..Len(queue') : queue'[i] = u
        OBVIOUS
      <3>1. CASE u = t
        BY <2>4, <3>1 DEF TypeOK
      <3>2. CASE u # t
        <4>1. PICK i \in 1..Len(queue) : queue[i] = u
          BY <2>5, <3>2 DEF TypeOK, WaitersQueued
        <4>. QED  BY <2>4, <4>1 DEF TypeOK
      <3>. QED  BY <3>1, <3>2
    <2>10. held' = Concurrency
      <3>1. held = Concurrency
        BY <1>2, ConcurrencyAssumption DEF TypeOK, PermitsAccounted, WaitersQueued
      <3>. QED  BY <1>2, <3>1
    <2>11. AllSpawned'
      BY <2>5 DEF AllSpawned, TypeOK
    <2>. QED  BY <2>1, <2>2, <2>7, <2>8, <2>9, <2>10, <2>11 DEF Queued, WaitersQueued
  <1>. QED  BY <1>1, <1>2

(* Release removes a holder, or passes its permit to the head of the queue.  *)
LEMMA ReleaseStep ==
  ASSUME Calm, NEW t \in Triggers, Release(t)
  PROVE  Calm'
  <1>. USE DEF Calm, semaphore
  <1>1. t \in Holders /\ pc[t] = "firing"
    BY DEF Release, Holders
  <1>2. Cardinality(Holders \ {t}) = Cardinality(Holders) - 1 /\ IsFiniteSet(Holders \ {t})
    BY <1>1, HoldersFinite, FS_RemoveElement
  <1>3. Cardinality(Holders \ {t}) \in Nat
    BY <1>2, FS_CardinalityType
  <1>4. held \in Nat /\ held # 0
    BY <1>2, <1>3, HoldersFinite DEF PermitsAccounted, TypeOK
  <1>5. CASE queue = <<>>
    <2>1. /\ held' = held - 1 /\ Goto(t, "done")
          /\ UNCHANGED <<main, got, seen, err, ctx, caller, groupFailed, queue, panicked>>
      BY <1>4, <1>5 DEF Release
    <2>2. TypeOK' /\ NoErrors'
      BY <1>4, <2>1 DEF TypeOK, NoErrors, AllPermitted, Goto, Step
    <2>3. Holders' = Holders \ {t}
      BY <2>1 DEF Holders, Goto, TypeOK
    <2>4. PermitsAccounted'
      BY <1>2, <1>4, <2>1, <2>3, ConcurrencyAssumption DEF PermitsAccounted
    <2>5. Queued'
      BY <1>5, <2>1 DEF Queued
    <2>6. WaitersQueued' /\ AllSpawned'
      BY <1>5, <2>1 DEF WaitersQueued, AllSpawned, Goto, TypeOK
    <2>. QED  BY <2>2, <2>4, <2>5, <2>6
  <1>6. CASE queue # <<>>
    <2> DEFINE h == Head(queue)
    <2>1. /\ queue' = Tail(queue) /\ held' = held
          /\ got' = [got EXCEPT ![h] = "nil"]
          /\ pc' = [pc EXCEPT ![t] = "done", ![h] = "acquired"]
          /\ UNCHANGED <<main, seen, err, ctx, caller, groupFailed, panicked>>
      BY <1>4, <1>6 DEF Release
    <2>2. /\ Len(queue) \in Nat /\ Len(queue) >= 1
          /\ h = queue[1] /\ h \in Triggers /\ pc[h] = "waiting"
      BY <1>6 DEF TypeOK, Queued
    <2>3. h # t
      BY <1>1, <2>2
    <2>4. TypeOK' /\ NoErrors'
      BY <1>6, <2>1, <2>2 DEF TypeOK, NoErrors, AllPermitted, Step, Error
    <2>5. Holders' = (Holders \ {t}) \cup {h} /\ h \notin Holders \ {t}
      BY <2>1, <2>2, <2>3 DEF Holders, TypeOK
    <2>6. Cardinality(Holders') = Cardinality(Holders)
      <3>1. Cardinality((Holders \ {t}) \cup {h}) = Cardinality(Holders \ {t}) + 1
        BY <1>2, <2>5, FS_AddElement
      <3>. QED  BY <1>2, <2>5, <3>1, HoldersFinite
    <2>7. PermitsAccounted'
      BY <2>1, <2>6 DEF PermitsAccounted
    <2>8. /\ Len(queue') = Len(queue) - 1
          /\ \A i \in 1..Len(queue') : queue'[i] = queue[i + 1]
      BY <1>6, <2>1 DEF TypeOK
    <2>9. \A i \in 1..Len(queue) : queue[i] \in Triggers /\ queue[i] # t
      BY <1>1 DEF Queued, TypeOK
    <2>10. \A i \in 1..Len(queue') : queue'[i] # h
      BY <2>2, <2>8 DEF Queued
    <2>11. Queued'
      BY <2>1, <2>2, <2>8, <2>9, <2>10 DEF Queued, TypeOK
    <2>12. WaitersQueued'
      <3>1. held' = Concurrency
        BY <1>6, <2>1 DEF WaitersQueued
      <3>2. ASSUME NEW u \in Triggers, pc'[u] = "waiting"
            PROVE  \E i \in 1..Len(queue') : queue'[i] = u
        <4>1. pc[u] = "waiting" /\ u # h
          BY <2>1, <2>2, <2>3, <3>2 DEF TypeOK
        <4>2. PICK i \in 1..Len(queue) : queue[i] = u
          BY <4>1 DEF WaitersQueued
        <4>3. i - 1 \in 1..Len(queue') /\ queue'[i - 1] = u
          BY <2>2, <2>8, <4>1, <4>2
        <4>. QED  BY <4>3
      <3>. QED  BY <3>1, <3>2 DEF WaitersQueued
    <2>13. AllSpawned'
      BY <2>1 DEF AllSpawned, TypeOK
    <2>. QED  BY <2>4, <2>7, <2>11, <2>12, <2>13
  <1>. QED  BY <1>5, <1>6

(* A caller that left early stays away.                                      *)
LEMMA NotYetEarly ==
  ASSUME [Next]_vars, caller' # "leftEarly"
  PROVE  caller # "leftEarly"
  BY DEF Next, vars, Wait, Return, RequestEnds, Go, Goroutine, ReadContext, Acquire, AcquireFails, Assign,
         Check, ReturnError, Fire, Release

(* Every other step preserves the invariant.                                 *)
LEMMA NextCalm ==
  ASSUME Calm, [Next]_vars, caller' # "leftEarly"
  PROVE  Calm'
  <1>. USE DEF Calm
  <1>1. CASE UNCHANGED vars
    BY <1>1 DEF vars, TypeOK, NoErrors, AllPermitted, PermitsAccounted, Holders, Queued,
                WaitersQueued, AllSpawned
  <1>2. CASE Wait \/ Return
    <2>1. /\ main' \in {"waiting", "returned"}
          /\ UNCHANGED <<pc, got, seen, err, ctx, caller, groupFailed, held, queue, panicked>>
      BY <1>2 DEF Wait, Return, semaphore
    <2>2. TypeOK' /\ NoErrors'
      BY <2>1 DEF TypeOK, NoErrors, AllPermitted
    <2>3. PermitsAccounted' /\ Queued' /\ WaitersQueued'
      BY <2>1 DEF PermitsAccounted, Holders, Queued, WaitersQueued
    <2>4. AllSpawned'
      BY <1>2, <2>1 DEF AllSpawned, Wait, Return
    <2>. QED  BY <2>2, <2>3, <2>4
  <1>3. CASE RequestEnds
    <2>1. /\ caller' = "left" /\ AllPermitted
          /\ UNCHANGED <<main, pc, got, seen, err, ctx, groupFailed, held, queue, panicked>>
      BY <1>3 DEF RequestEnds, semaphore
    <2>2. TypeOK' /\ NoErrors'
      BY <2>1 DEF TypeOK, NoErrors, AllPermitted
    <2>3. PermitsAccounted' /\ Queued' /\ WaitersQueued' /\ AllSpawned'
      BY <2>1 DEF PermitsAccounted, Holders, Queued, WaitersQueued, AllSpawned
    <2>. QED  BY <2>2, <2>3
  <1>4. ASSUME NEW t \in Triggers, Go(t) PROVE Calm'
    BY <1>4, MoveStep DEF Go, Holding, Asking, TypeOK, NoErrors, Step
  <1>5. ASSUME NEW t \in Triggers, ReadContext(t) PROVE Calm'
    <2>1. seen' \in [Triggers -> {"group", "background"}]
      BY <1>5 DEF ReadContext, TypeOK
    <2>. QED  BY <1>5, <2>1, MoveStep DEF ReadContext, Holding, Asking, TypeOK, NoErrors, Step
  <1>6. ASSUME NEW t \in Triggers, Acquire(t) PROVE Calm'
    BY <1>6, AcquireStep
  <1>7. ASSUME NEW t \in Triggers, AcquireFails(t) PROVE Calm'
    BY <1>7 DEF AcquireFails, GroupCanceled, NoErrors, AllPermitted, TypeOK
  <1>8. ASSUME NEW t \in Triggers, Assign(t) PROVE Calm'
    BY <1>8, MoveStep DEF Assign, Holding, Asking, TypeOK, NoErrors, Step
  <1>9. ASSUME NEW t \in Triggers, Check(t) PROVE Calm'
    BY <1>9, MoveStep DEF Check, Holding, Asking, TypeOK, NoErrors, Step
  <1>10. ASSUME NEW t \in Triggers, ReturnError(t) PROVE Calm'
    BY <1>10 DEF ReturnError, NoErrors
  <1>11. ASSUME NEW t \in Triggers, Fire(t) PROVE Calm'
    BY <1>11, MoveStep DEF Fire, Holding, Asking, TypeOK, NoErrors, Step
  <1>12. ASSUME NEW t \in Triggers, Release(t) PROVE Calm'
    BY <1>12, ReleaseStep
  <1>. QED  BY <1>1, <1>2, <1>3, <1>4, <1>5, <1>6, <1>7, <1>8, <1>9, <1>10, <1>11, <1>12
            DEF Next, Goroutine

(* Until a caller leaves early the shared err is never set, nothing panics,   *)
(* and the permits of the semaphore are those of the goroutines that fire.   *)
THEOREM FanoutSafety == Spec => []IInv
  <1>1. Init => IInv
    BY InitCalm DEF IInv
  <1>2. IInv /\ [Next]_vars => IInv'
    <2> SUFFICES ASSUME IInv, [Next]_vars, caller' # "leftEarly" PROVE Calm'
      BY DEF IInv
    <2>. QED  BY NotYetEarly, NextCalm DEF IInv
  <1>. QED  BY <1>1, <1>2, PTL DEF Spec

(* "limit concurrency using a semaphore": then it does.                      *)
THEOREM FanoutLimited == Spec => []ConcurrencyLimited
  <1>1. IInv => ConcurrencyLimited
    <2> SUFFICES ASSUME Calm
                 PROVE  Cardinality({t \in Triggers : pc[t] \in {"run", "firing"}}) <= Concurrency
      BY DEF IInv, ConcurrencyLimited
    <2> DEFINE Running == {t \in Triggers : pc[t] \in {"run", "firing"}}
    <2>1. Running \subseteq Holders
      BY DEF Holders
    <2>2. Cardinality(Running) \in Nat /\ Cardinality(Running) <= Cardinality(Holders)
      BY <2>1, HoldersFinite, FS_Subset, FS_CardinalityType
    <2>. QED  BY <2>2, HoldersFinite, ConcurrencyAssumption DEF Calm, PermitsAccounted
  <1>. QED  BY <1>1, FanoutSafety, PTL

(* A goroutine waits for a permit only while all of them are given out, and  *)
(* g.Wait only while a goroutine can go on: no wake-up is lost.              *)
THEOREM NoWakeupLost == Spec => []NoLostWakeup
  <1>1. IInv => NoLostWakeup
    <2> SUFFICES ASSUME Calm
                 PROVE  /\ \A t \in Triggers : pc[t] = "waiting" => Cardinality(Holders) = Concurrency
                        /\ main = "waiting" =>
                             \/ \A t \in Triggers : pc[t] = "done"
                             \/ \E t \in Triggers : pc[t] \notin {"none", "waiting", "done"}
      BY DEF IInv, NoLostWakeup, Holders
    <2>1. ASSUME NEW t \in Triggers, pc[t] = "waiting"
          PROVE  Cardinality(Holders) = Concurrency
      <3>1. PICK i \in 1..Len(queue) : queue[i] = t
        BY <2>1 DEF Calm, WaitersQueued
      <3>2. queue # <<>>
        BY <3>1
      <3>. QED  BY <3>2 DEF Calm, WaitersQueued, PermitsAccounted
    <2>2. ASSUME main = "waiting", NEW t \in Triggers, pc[t] # "done"
          PROVE  \E u \in Triggers : pc[u] \notin {"none", "waiting", "done"}
      <3>1. CASE pc[t] = "waiting"
        <4>1. Cardinality(Holders) # 0
          BY <2>1, <3>1, ConcurrencyAssumption
        <4>2. PICK u \in Triggers : u \in Holders
          BY <4>1, FS_EmptySet DEF Holders
        <4>. QED  BY <4>2 DEF Holders
      <3>2. CASE pc[t] # "waiting"
        BY <2>2, <3>2 DEF Calm, AllSpawned
      <3>. QED  BY <3>1, <3>2
    <2>. QED  BY <2>1, <2>2
  <1>. QED  BY <1>1, FanoutSafety, PTL

(* The contract counts with the same Cardinality.                            *)
LEMMA SameCardinality == \A S : Contract!Cardinality(S) = Cardinality(S)
  BY DEF Cardinality, Contract!Cardinality

(* A goroutine that starts its action is one of fewer than Concurrency.      *)
LEMMA FireBegins ==
  ASSUME Calm, NEW t \in Triggers, Fire(t)
  PROVE  Contract!Begin(t)
  <1> DEFINE firing == {u \in Triggers : pc[u] = "firing"}
  <1>1. t \in Holders /\ firing \subseteq Holders \ {t}
    BY DEF Fire, Holders
  <1>2. Cardinality(Holders \ {t}) = Cardinality(Holders) - 1 /\ IsFiniteSet(Holders \ {t})
    BY <1>1, HoldersFinite, FS_RemoveElement
  <1>3. Cardinality(firing) \in Nat /\ Cardinality(firing) <= Cardinality(Holders \ {t})
    BY <1>1, <1>2, FS_Subset, FS_CardinalityType
  <1>4. Cardinality(firing) < Concurrency
    BY <1>2, <1>3, HoldersFinite, ConcurrencyAssumption DEF Calm, PermitsAccounted
  <1>5. firing' = firing \cup {t}
    BY DEF Fire, Goto, Calm, TypeOK
  <1>6. {u \in Triggers : pc[u] = "done"}' = {u \in Triggers : pc[u] = "done"}
    BY DEF Fire, Goto, Calm, TypeOK
  <1>7. t \notin firing \cup {u \in Triggers : pc[u] = "done"} /\ main' = main
    BY DEF Fire
  <1>. QED  BY <1>4, <1>5, <1>6, <1>7, SameCardinality DEF Contract!Begin

(* A goroutine that gives its permit back has finished its action.           *)
LEMMA ReleaseEnds ==
  ASSUME Calm, NEW t \in Triggers, Release(t)
  PROVE  Contract!End(t)
  <1>1. pc[t] = "firing" /\ main' = main /\ held # 0
    <2>1. t \in Holders
      BY DEF Release, Holders
    <2>2. Cardinality(Holders) # 0
      BY <2>1, HoldersFinite, FS_EmptySet
    <2>. QED  BY <2>2 DEF Release, Calm, PermitsAccounted
  <1>2. pc' = [pc EXCEPT ![t] = "done"] \/ \E h \in Triggers :
          pc[h] = "waiting" /\ pc' = [pc EXCEPT ![t] = "done", ![h] = "acquired"]
    <2>1. CASE queue = <<>>
      BY <1>1, <2>1 DEF Release, Goto
    <2>2. CASE queue # <<>>
      <3>1. Head(queue) \in Triggers /\ pc[Head(queue)] = "waiting"
        BY <2>2 DEF Calm, TypeOK, Queued
      <3>. QED  BY <1>1, <2>2, <3>1 DEF Release
    <2>. QED  BY <2>1, <2>2
  <1>3. {u \in Triggers : pc[u] = "firing"}' = {u \in Triggers : pc[u] = "firing"} \ {t}
    BY <1>1, <1>2 DEF Calm, TypeOK
  <1>4. {u \in Triggers : pc[u] = "done"}' = {u \in Triggers : pc[u] = "done"} \cup {t}
    BY <1>1, <1>2 DEF Calm, TypeOK
  <1>. QED  BY <1>1, <1>3, <1>4 DEF Contract!End

(* Every other step of a goroutine is invisible to the caller.               *)
LEMMA OtherStepsHidden ==
  ASSUME Calm, NEW t \in Triggers,
         Go(t) \/ ReadContext(t) \/ Acquire(t) \/ Assign(t) \/ Check(t)
  PROVE  UNCHANGED Contract!vars
  <1>1. \E step \in Step \ {"firing", "done"} : Goto(t, step)
    BY DEF Go, ReadContext, Acquire, Assign, Check, Step
  <1>2. pc[t] \notin {"firing", "done"} /\ main' = main
    BY DEF Go, ReadContext, Acquire, Assign, Check
  <1>3. {u \in Triggers : pc[u] = "firing"}' = {u \in Triggers : pc[u] = "firing"}
    BY <1>1, <1>2 DEF Goto, Calm, TypeOK
  <1>4. {u \in Triggers : pc[u] = "done"}' = {u \in Triggers : pc[u] = "done"}
    BY <1>1, <1>2 DEF Goto, Calm, TypeOK
  <1>. QED  BY <1>2, <1>3, <1>4 DEF Contract!vars

(* FireXTriggers implements its contract: each trigger is fired once, at     *)
(* most Concurrency at a time, and the method returns when all are done,     *)
(* whether its caller stays or leaves late.                                  *)
THEOREM FanoutImplementsContract == Spec => FansOut
  <1>1. Init => Contract!Init
    BY DEF Init, Contract!Init
  <1>2. IInv /\ [Next]_vars => [caller' # "leftEarly" => [Contract!Next]_(Contract!vars)]_vars
    <2> SUFFICES ASSUME IInv, [Next]_vars, caller' # "leftEarly"
                 PROVE  [Contract!Next]_(Contract!vars)
      OBVIOUS
    <2>0. Calm
      BY NotYetEarly DEF IInv
    <2>1. CASE UNCHANGED vars \/ Wait \/ RequestEnds
      BY <2>1 DEF vars, Wait, RequestEnds, Contract!vars
    <2>2. CASE Return
      <3>1. {u \in Triggers : pc[u] = "done"} = Triggers /\ pc' = pc /\ main' = "returned"
        BY <2>2 DEF Return
      <3>. QED  BY <3>1 DEF Contract!Return, Contract!Next
    <2>3. ASSUME NEW t \in Triggers, Fire(t) PROVE Contract!Next
      BY <2>0, <2>3, FireBegins DEF Contract!Next
    <2>4. ASSUME NEW t \in Triggers, Release(t) PROVE Contract!Next
      BY <2>0, <2>4, ReleaseEnds DEF Contract!Next
    <2>5. ASSUME NEW t \in Triggers,
                 Go(t) \/ ReadContext(t) \/ Acquire(t) \/ Assign(t) \/ Check(t)
          PROVE  UNCHANGED Contract!vars
      BY <2>0, <2>5, OtherStepsHidden
    <2>6. \A t \in Triggers : ~AcquireFails(t) /\ ~ReturnError(t)
      <3> TAKE t \in Triggers
      <3>1. ~ReturnError(t)
        BY <2>0 DEF ReturnError, Calm, NoErrors
      <3>2. ASSUME AcquireFails(t) PROVE FALSE
        BY <2>0, <3>2, NotYetEarly DEF AcquireFails, GroupCanceled, Calm, NoErrors, AllPermitted, TypeOK
      <3>. QED  BY <3>1, <3>2
    <2>. QED  BY <2>1, <2>2, <2>3, <2>4, <2>5, <2>6 DEF Next, Goroutine
  <1>. QED  BY <1>1, <1>2, FanoutSafety, PTL DEF Spec, FansOut

-----------------------------------------------------------------------------
(* FinishedTriggers                                                          *)

(* The UPDATE leaves a row that has a result as it is.                       *)
LEMMA ResultsStay ==
  ASSUME F!TypeOK, NEW j \in Jobs, NEW s \in F!Status, F!UpdateStatus(j, s)
  PROVE  /\ row' \in [Jobs -> F!Status]
         /\ \A k \in Jobs : row[k] \in F!Terminal => row'[k] = row[k]
  <1>1. F!AllowedFrom(s) \cap F!Terminal = {}
    BY DEF F!AllowedFrom, F!Terminal, F!Status, F!Live
  <1>. QED  BY <1>1 DEF F!TypeOK, F!UpdateStatus

(* A goroutine that fires knows its job and the status it read.              *)
LEMMA FiringFields ==
  ASSUME NEW x \in F!Announcer, x.at = "fire"
  PROVE  x.job \in Jobs /\ x.seen \in F!Status /\ x = F!Firing(x.job, x.seen)
  BY DEF F!Announcer, F!Idle, F!Reading, F!Firing

(* A goroutine that reads knows its job.                                     *)
LEMMA ReadingFields ==
  ASSUME NEW x \in F!Announcer, x.at = "read"
  PROVE  x.job \in Jobs
  BY DEF F!Announcer, F!Idle, F!Reading, F!Firing

(* Steps that change rows by the UPDATE and start goroutines at most.        *)
LEMMA UpdatePreserves ==
  ASSUME F!IInv, NEW j \in Jobs, NEW s \in F!Status, F!UpdateStatus(j, s) \/ UNCHANGED row,
         UNCHANGED announced, announcer' \in [Announcers -> F!Announcer],
         \A a \in Announcers : announcer'[a].at = "fire" => announcer'[a] = announcer[a]
  PROVE  F!ReadResultHolds' /\ F!AnnouncedResultHolds'
  <1>1. \A k \in Jobs : row[k] \in F!Terminal => row'[k] = row[k]
    BY ResultsStay DEF F!IInv
  <1>2. F!AnnouncedResultHolds'
    BY <1>1 DEF F!IInv, F!AnnouncedResultHolds
  <1>3. F!ReadResultHolds'
    <2> SUFFICES ASSUME NEW a \in Announcers,
                        announcer'[a].at = "fire", announcer'[a].seen \in F!Terminal
                 PROVE  row'[announcer'[a].job] = announcer'[a].seen
      BY DEF F!ReadResultHolds
    <2>1. announcer'[a] = announcer[a] /\ announcer[a].job \in Jobs
      BY FiringFields DEF F!IInv, F!TypeOK
    <2>. QED  BY <1>1, <2>1 DEF F!IInv, F!ReadResultHolds
  <1>. QED  BY <1>2, <1>3

(* A row gets a result from the UPDATE to that result only.                  *)
LEMMA ResultsCome ==
  ASSUME F!TypeOK, NEW j \in Jobs, NEW s, F!UpdateStatus(j, s) \/ UNCHANGED row,
         NEW k \in Jobs, NEW r \in {"succeeded", "failed"}, row'[k] = r
  PROVE  row[k] = r \/ (k = j /\ s = r)
  BY DEF F!TypeOK, F!UpdateStatus

(* What goroutines are: which of the three phases they are in.               *)
LEMMA Phases ==
  ASSUME NEW j, NEW k, NEW s, NEW r
  PROVE  /\ F!Idle # F!Reading(j) /\ F!Idle # F!Firing(j, s)
         /\ F!Reading(j) # F!Firing(k, r)
         /\ F!Reading(j).at = "read" /\ F!Reading(j).job = j
         /\ F!Firing(j, s).at = "fire" /\ F!Firing(j, s).job = j /\ F!Firing(j, s).seen = s
  <1>1. F!Idle.at = "idle" /\ F!Reading(j).at = "read" /\ F!Firing(j, s).at = "fire" /\ F!Firing(k, r).at = "fire"
    BY DEF F!Idle, F!Reading, F!Firing
  <1>. QED  BY <1>1 DEF F!Reading, F!Firing

(* Steps that keep the goroutines, or start one in a free slot.              *)
LEMMA EventKeepsResults ==
  ASSUME F!IInv, NEW j \in Jobs, NEW s, F!UpdateStatus(j, s) \/ UNCHANGED row,
         UNCHANGED <<announced, lost>>,
         \A a \in Announcers : announcer[a] # F!Idle => announcer'[a] = announcer[a],
         \A k \in Jobs, r \in {"succeeded", "failed"} :
           /\ <<k, r>> \in net =>
                <<k, r>> \in net' \/ \E a \in Announcers : announcer'[a] = F!Reading(k)
           /\ row'[k] = r /\ row[k] # r =>
                <<k, r>> \in net' \/ \E a \in Announcers : announcer'[a] = F!Reading(k)
  PROVE  F!ResultUnderWay'
  <1> SUFFICES ASSUME NEW k \in Jobs, NEW r \in {"succeeded", "failed"}, row'[k] = r
               PROVE  \/ <<k, r>> \in announced \/ k \in lost
                      \/ <<k, r>> \in net'
                      \/ \E a \in Announcers : announcer'[a] = F!Reading(k) \/ announcer'[a] = F!Firing(k, r)
    BY DEF F!ResultUnderWay
  <1>1. CASE row[k] # r
    BY <1>1
  <1>2. CASE row[k] = r
    <2>1. \/ <<k, r>> \in announced \/ k \in lost
          \/ <<k, r>> \in net
          \/ \E a \in Announcers : announcer[a] = F!Reading(k) \/ announcer[a] = F!Firing(k, r)
      BY <1>2 DEF F!IInv, F!ResultUnderWay
    <2>2. \A a \in Announcers : announcer[a] = F!Reading(k) \/ announcer[a] = F!Firing(k, r)
                                => announcer'[a] = announcer[a]
      BY Phases
    <2>. QED  BY <2>1, <2>2
  <1>. QED  BY <1>1, <1>2

(* Every step of the api, a builder or a user preserves the invariant.       *)
LEMMA NextIInv ==
  ASSUME F!IInv, [F!Next]_(F!vars)
  PROVE  F!IInv'
  <1>1. CASE UNCHANGED F!vars
    BY <1>1 DEF F!vars, F!IInv, F!TypeOK, F!ReadResultHolds, F!AnnouncedResultHolds,
                F!ResultUnderWay
  <1>2. ASSUME NEW j \in Jobs, NEW s \in F!Status,
               F!PostRunning(j) \/ F!UserAsks(j) \/ (s \in F!Outcome /\ F!PostResult(j, s))
        PROVE  F!IInv'
    <2>1. UNCHANGED <<row, announcer, announced>>
      BY <1>2 DEF F!PostRunning, F!UserAsks, F!PostResult
    <2>2. F!TypeOK'
      BY <1>2 DEF F!IInv, F!TypeOK, F!PostRunning, F!UserAsks, F!PostResult, F!Post, F!Outcome
    <2>3. UNCHANGED lost /\ net \subseteq net'
      BY <1>2 DEF F!PostRunning, F!UserAsks, F!PostResult
    <2>4. F!ResultUnderWay'
      BY <2>1, <2>3, EventKeepsResults
    <2>. QED  BY <2>1, <2>2, <2>4 DEF F!IInv, F!ReadResultHolds, F!AnnouncedResultHolds
  <1>3. ASSUME NEW j \in Jobs, NEW s \in F!Status, F!UserCancels(j, s) \/ (s \in F!Post /\ F!HandleFails(j, s))
        PROVE  F!IInv'
    <2>1. /\ F!UpdateStatus(j, s) \/ UNCHANGED row
          /\ UNCHANGED <<builder, net, clicked, announcer, announced, lost>>
      BY <1>3 DEF F!UserCancels, F!HandleFails
    <2>2. F!TypeOK'
      BY <2>1, ResultsStay DEF F!IInv, F!TypeOK
    <2>3. announcer' \in [Announcers -> F!Announcer] /\ \A a \in Announcers : announcer'[a] = announcer[a]
      BY <2>1 DEF F!IInv, F!TypeOK
    <2>4. s \in {"succeeded", "failed"} => <<j, s>> \in net
      BY <1>3 DEF F!UserCancels, F!HandleFails
    <2>5. F!ResultUnderWay'
      BY <2>1, <2>4, ResultsCome, EventKeepsResults DEF F!IInv
    <2>. QED  BY <2>1, <2>2, <2>3, <2>5, UpdatePreserves DEF F!IInv
  <1>4. ASSUME NEW j \in Jobs, NEW s \in F!Post, NEW a \in Announcers, NEW again \in BOOLEAN,
               F!Handle(j, s, a, again)
        PROVE  F!IInv'
    <2>1. s \in F!Status /\ F!UpdateStatus(j, s) /\ UNCHANGED <<announced, lost>>
      BY <1>4 DEF F!Handle, F!Post, F!Outcome, F!Status, F!Live, F!Terminal
    <2>2. announcer' = [announcer EXCEPT ![a] = F!Reading(j)] /\ F!Reading(j) \in F!Announcer
      BY <1>4 DEF F!Handle, F!Announcer
    <2>3. announcer' \in [Announcers -> F!Announcer]
      BY <2>2 DEF F!IInv, F!TypeOK
    <2>4. \A b \in Announcers : announcer'[b].at = "fire" => announcer'[b] = announcer[b]
      BY <2>2 DEF F!IInv, F!TypeOK, F!Reading
    <2>5. F!TypeOK'
      <3>1. builder' \in [Jobs -> {"none", "starting", "running"} \cup F!Outcome]
        BY <1>4 DEF F!Handle, F!Answered, F!IInv, F!TypeOK
      <3>2. net' \subseteq Jobs \X F!Post /\ clicked' = clicked /\ lost' = lost
        BY <1>4 DEF F!Handle, F!Answered, F!IInv, F!TypeOK
      <3>. QED  BY <2>1, <2>3, <3>1, <3>2, ResultsStay DEF F!IInv, F!TypeOK
    <2>6. F!ResultUnderWay'
      <3>1. announcer[a] = F!Idle /\ net \ {<<j, s>>} \subseteq net'
        BY <1>4 DEF F!Handle, F!Answered
      <3>2. announcer'[a] = F!Reading(j) /\ \A b \in Announcers \ {a} : announcer'[b] = announcer[b]
        BY <2>2 DEF F!IInv, F!TypeOK
      <3>. QED  BY <2>1, <3>1, <3>2, ResultsCome, EventKeepsResults DEF F!IInv
    <2>. QED  BY <2>1, <2>3, <2>4, <2>5, <2>6, UpdatePreserves DEF F!IInv
  <1>5. ASSUME NEW a \in Announcers, F!ReadRow(a)
        PROVE  F!IInv'
    <2> DEFINE k == announcer[a].job
    <2>1. k \in Jobs /\ row[k] \in F!Status
      BY <1>5, ReadingFields DEF F!ReadRow, F!IInv, F!TypeOK
    <2>2. /\ announcer' = [announcer EXCEPT ![a] = F!Firing(k, row[k])]
          /\ UNCHANGED <<row, builder, net, clicked, announced, lost>>
      BY <1>5 DEF F!ReadRow
    <2>3. F!TypeOK'
      BY <2>1, <2>2 DEF F!IInv, F!TypeOK, F!Announcer
    <2>4. F!ReadResultHolds'
      BY <2>1, <2>2 DEF F!IInv, F!TypeOK, F!ReadResultHolds, F!Firing
    <2>5. F!ResultUnderWay'
      <3>1. \A j \in Jobs : \A r : announcer[a] = F!Reading(j) /\ row[j] = r => announcer'[a] = F!Firing(j, r)
        BY <2>1, <2>2, Phases DEF F!IInv, F!TypeOK
      <3>2. \A j \in Jobs : \A r : announcer[a] # F!Firing(j, r)
        BY <1>5, Phases DEF F!ReadRow
      <3>3. \A b \in Announcers \ {a} : announcer'[b] = announcer[b]
        BY <2>2 DEF F!IInv, F!TypeOK
      <3>. QED  BY <2>2, <3>1, <3>2, <3>3 DEF F!IInv, F!ResultUnderWay
    <2>. QED  BY <2>2, <2>3, <2>4, <2>5 DEF F!IInv, F!AnnouncedResultHolds
  <1>6. ASSUME NEW a \in Announcers, F!Fire(a)
        PROVE  F!IInv'
    <2>1. announcer[a].job \in Jobs /\ announcer[a].seen \in F!Status
      BY <1>6, FiringFields DEF F!Fire, F!IInv, F!TypeOK
    <2>2. F!TypeOK'
      BY <1>6, <2>1 DEF F!Fire, F!IInv, F!TypeOK, F!Announcer
    <2>3. F!ReadResultHolds'
      BY <1>6 DEF F!Fire, F!IInv, F!TypeOK, F!ReadResultHolds, F!Idle
    <2>4. F!AnnouncedResultHolds'
      BY <1>6, <2>1 DEF F!Fire, F!IInv, F!ReadResultHolds, F!AnnouncedResultHolds
    <2>5. F!ResultUnderWay'
      <3>1. \A j \in Jobs : \A r : announcer[a] = F!Firing(j, r) => <<j, r>> \in announced'
        BY <1>6, Phases DEF F!Fire
      <3>2. \A j \in Jobs : announcer[a] # F!Reading(j)
        BY <1>6, Phases DEF F!Fire
      <3>3. \A b \in Announcers \ {a} : announcer'[b] = announcer[b]
        BY <1>6 DEF F!Fire, F!IInv, F!TypeOK
      <3>4. announced \subseteq announced' /\ UNCHANGED <<row, net, lost>>
        BY <1>6 DEF F!Fire
      <3>. QED  BY <3>1, <3>2, <3>3, <3>4 DEF F!IInv, F!ResultUnderWay
    <2>. QED  BY <2>2, <2>3, <2>4, <2>5 DEF F!IInv
  <1>7. ASSUME NEW a \in Announcers, F!Quit(a)
        PROVE  F!IInv'
    <2>1. announcer[a].job \in Jobs
      BY <1>7, ReadingFields, FiringFields DEF F!Quit, F!IInv, F!TypeOK
    <2>2. F!TypeOK' /\ F!ReadResultHolds' /\ F!AnnouncedResultHolds'
      BY <1>7, <2>1 DEF F!Quit, F!IInv, F!TypeOK, F!Announcer, F!ReadResultHolds, F!AnnouncedResultHolds, F!Idle
    <2>3. F!ResultUnderWay'
      <3>1. \A j \in Jobs : \A r : announcer[a] = F!Reading(j) \/ announcer[a] = F!Firing(j, r) => j \in lost'
        BY <1>7, Phases DEF F!Quit
      <3>2. \A b \in Announcers \ {a} : announcer'[b] = announcer[b]
        BY <1>7 DEF F!Quit, F!IInv, F!TypeOK
      <3>3. lost \subseteq lost' /\ UNCHANGED <<row, net, announced>>
        BY <1>7 DEF F!Quit
      <3>. QED  BY <3>1, <3>2, <3>3 DEF F!IInv, F!ResultUnderWay
    <2>. QED  BY <2>2, <2>3 DEF F!IInv
  <1>8. F!Post \subseteq F!Status /\ F!Outcome \subseteq F!Status
    BY DEF F!Post, F!Outcome, F!Status, F!Live, F!Terminal
  <1>9. "none" \in F!Status
    BY DEF F!Status
  <1>. QED  BY <1>1, <1>2, <1>3, <1>4, <1>5, <1>6, <1>7, <1>8, <1>9 DEF F!Next

(* The invariant holds always: goroutines that are about to fire a result    *)
(* have read one that will not change.                                       *)
THEOREM AnnouncementsSafety == F!Spec => []F!IInv
  <1>1. F!Init => F!IInv
    BY DEF F!Init, F!IInv, F!TypeOK, F!ReadResultHolds, F!AnnouncedResultHolds, F!ResultUnderWay, F!Announcer,
           F!Idle, F!Status, F!Live
  <1>2. F!IInv /\ [F!Next]_(F!vars) => F!IInv'
    BY NextIInv
  <1>. QED  BY <1>1, <1>2, PTL DEF F!Spec

(* A result announced to the triggers is the one the row has and keeps.      *)
THEOREM AnnouncedIsFinal == F!Spec => []F!AnnouncedResultHolds
  BY AnnouncementsSafety, PTL DEF F!IInv

(* A result that is in a row is announced, or an event or a goroutine that   *)
(* will do so is still there, or a goroutine's call failed.                  *)
THEOREM ResultNotForgotten == F!Spec => []F!ResultUnderWay
  BY AnnouncementsSafety, PTL DEF F!IInv

=============================================================================

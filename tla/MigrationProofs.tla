-------------------------- MODULE MigrationProofs --------------------------
(***************************************************************************)
(* Theorems about Migration for any repositories, pods, requests, stages,  *)
(* builds and faults.                                                      *)
(***************************************************************************)
EXTENDS Migration, SequenceTheorems, FiniteSetTheorems, TLAPS

-----------------------------------------------------------------------------
(* Types                                                                     *)

LEMMA Rowed ==
  ASSUME TypeOK
  PROVE  /\ None \notin Task /\ None \notin Worker
         /\ \A f \in Rows : queue[f] \in Task
         /\ \A s \in Working : worker[s] \in Worker
  BY RowAssumption DEF TypeOK, Rows, Working

LEMMA StagesTyped ==
  /\ Len(Stages) \in Nat /\ Len(Stages) > 0
  /\ \A n \in Numbers : n \in Nat /\ n >= 1 /\ n <= Len(Stages) /\ Stages[n] \in Steps
  /\ 1 \in Numbers
  BY StagesAssumption DEF Numbers

LEMMA CapacityTyped ==
  ASSUME TypeOK, NEW p \in Pods
  PROVE  Capacity(p) \in Int /\ Capacity(p) <= maximumParallelMigrations
  <1>1. IsFiniteSet({p} \X Slots)
    BY SlotsAssumption, FS_Singleton, FS_Product
  <1>2. Busy(p) \subseteq {p} \X Slots
    BY DEF Busy, Working
  <1>3. IsFiniteSet(Busy(p)) /\ Cardinality(Busy(p)) \in Nat
    BY <1>1, <1>2, FS_Subset, FS_CardinalityType
  <1>. QED  BY <1>3, ParallelAssumption DEF Capacity

LEMMA PastTyped ==
  ASSUME TypeOK, NEW f \in Sources, NEW E \in SUBSET Event, Happened(f, E)
  PROVE  past' \in [Sources -> SUBSET Event]
  BY DEF TypeOK, Happened

LEMMA LostTyped ==
  ASSUME TypeOK, NEW S
  PROVE  Lost(S) \in [Sources -> SUBSET Event]
  BY DEF TypeOK, Lost, When, Event

LEMMA LiveTyped == \A f, n : LiveIn(f, n) \in SUBSET Event
  BY DEF LiveIn, Event

LEMMA StoredTyped ==
  ASSUME TypeOK, NEW f \in Sources, NEW stage
  PROVE  Stored(f, stage) \in SUBSET (Tables \cup Objects)
  BY DEF TypeOK, Stored

LEMMA ArchivedTyped ==
  ASSUME TypeOK, NEW f \in Sources, NEW stage
  PROVE  ArchivedBy(f, stage) \in SUBSET {"from", "to"}
  <1>1. archived[f] \in SUBSET {"from", "to"}
    BY DEF TypeOK
  <1>. QED  BY <1>1 DEF ArchivedBy

LEMMA OlderTyped ==
  ASSUME TypeOK, NEW f \in Sources, Len(builds[f]) > 0
  PROVE  OlderBuilds(f) \in Nat
  <1>1. Len(builds[f]) \in Nat
    BY DEF TypeOK
  <1>. QED  BY <1>1 DEF OlderBuilds

(* Builds are never deleted.                                                 *)
BuildsKept == \A f \in Sources : Len(builds[f]) >= OldBuilds

(* A request under way knows its repository and its task.                    *)
RequestReal(q) == q.at \in {"transaction", "delete", "objects"} => q.from \in Sources /\ q.id \in Ids
RequestsReal   == \A u \in Requests : RequestReal(request[u])

TypeInv == TypeOK /\ BuildsKept /\ RequestsReal

LEMMA InitType == Init => TypeInv
  <1>. SUFFICES ASSUME Init PROVE TypeInv
    OBVIOUS
  <1>1. Unsent \in Request
    BY DEF Unsent, Request
  <1>2. Polling("check") \in Poll
    BY ParallelAssumption DEF Polling, Poll
  <1>3. [n \in 1..OldBuilds |-> "over"] \in Seq(BuildStatus) /\ Len([n \in 1..OldBuilds |-> "over"]) = OldBuilds
    BY BuildsAssumption DEF BuildStatus
  <1>. QED  BY <1>1, <1>2, <1>3, BuildsAssumption DEF Init, TypeInv, TypeOK, BuildsKept, RequestsReal, RequestReal, Unsent

LEMMA AnswerTyped ==
  /\ Unsent \in Request /\ Answered \in Request
  /\ Unsent = [at |-> "none", from |-> None, id |-> None, existing |-> None, restart |-> None]
  /\ Answered = [at |-> "answered", from |-> None, id |-> None, existing |-> None, restart |-> None]
  <1>1. Unsent = [at |-> "none", from |-> None, id |-> None, existing |-> None, restart |-> None]
    BY DEF Unsent
  <1>2. Answered = [at |-> "answered", from |-> None, id |-> None, existing |-> None, restart |-> None]
    BY <1>1 DEF Answered
  <1>. QED  BY <1>1, <1>2 DEF Request

LEMMA RequestTyped ==
  ASSUME TypeInv, NEW u \in Requests, NEW q \in Request, RequestReal(q), request' = [request EXCEPT ![u] = q]
  PROVE  request' \in [Requests -> Request] /\ RequestsReal'
  BY DEF TypeInv, TypeOK, RequestsReal, RequestReal

LEMMA AnswerKept ==
  ASSUME TypeInv, NEW u \in Requests, Answer(u)
  PROVE  request' \in [Requests -> Request] /\ RequestsReal'
  <1>1. RequestReal(Answered)
    BY AnswerTyped DEF RequestReal
  <1>. QED  BY <1>1, AnswerTyped, RequestTyped DEF Answer

LEMMA QueueMigrationType ==
  ASSUME TypeInv, NEW u \in Requests, NEW f \in Sources, NEW id \in Ids \cup {None}, NEW restart \in Restarts,
         QueueMigration(u, f, id, restart)
  PROVE  TypeInv'
  <1>1. Existing(f) \in Ids \cup {None}
    BY DEF Existing, TypeInv, TypeOK
  <1>2. request' \in [Requests -> Request] /\ RequestsReal'
    <2>1. CASE request' = [request EXCEPT ![u] = Answered]
      BY <2>1, AnswerKept DEF Answer
    <2>2. CASE request' = [request EXCEPT ![u] = [at |-> "transaction", from |-> f,
                            id |-> IF id = None THEN u ELSE id, existing |-> Existing(f), restart |-> restart]]
      <3>. DEFINE q == [at |-> "transaction", from |-> f, id |-> IF id = None THEN u ELSE id,
                        existing |-> Existing(f), restart |-> restart]
      <3>1. restart \in Numbers \cup {0, None}
        BY RestartsAssumption
      <3>2. q \in Request /\ RequestReal(q)
        BY <1>1, <3>1 DEF Request, Ids, RequestReal
      <3>. QED  BY <2>2, <3>2, RequestTyped
    <2>. QED  BY <2>1, <2>2 DEF QueueMigration
  <1>. QED  BY <1>2 DEF QueueMigration, TypeInv, TypeOK, BuildsKept, db, pod

(* What a transaction of QueueMigration finds and does.                      *)
LEMMA QueueTransactionFacts ==
  ASSUME TypeInv, NEW u \in Requests, QueueTransaction(u)
  PROVE  /\ request[u] \in Request /\ request[u].from \in Sources /\ request[u].id \in Ids
         /\ \/ request[u].from \notin Rows /\ Inserted(request[u].from, request[u].id)
            \/ request[u].from \in Rows /\ Requeued(request[u].from, request[u].restart)
         /\ Answer(u)
         /\ UNCHANGED <<copied, moved, archived, pod, builds, faults>>
  BY DEF QueueTransaction, TypeInv, TypeOK, RequestsReal, RequestReal, Rows

LEMMA InsertedTyped ==
  ASSUME TypeInv, NEW f \in Sources, NEW id \in Ids, Inserted(f, id)
  PROVE  /\ queue' = [queue EXCEPT ![f] = [id |-> id, status |-> "queued", next |-> 1, details |-> FALSE, queuedAt |-> clock + 1]]
         /\ queue'[f] \in Task /\ queue' \in [Sources -> Task \cup {None}] /\ clock' \in Nat
         /\ \A g \in Rows : queue[g].id # id
  <1>1. clock \in Nat /\ 1 \in Numbers
    BY StagesTyped DEF TypeInv, TypeOK
  <1>2. [id |-> id, status |-> "queued", next |-> 1, details |-> FALSE, queuedAt |-> clock + 1] \in Task
    BY <1>1 DEF Task
  <1>. QED  BY <1>1, <1>2 DEF Inserted, TypeInv, TypeOK

LEMMA RequeuedTyped ==
  ASSUME TypeInv, NEW f \in Rows, NEW restart \in Numbers \cup {0, None}, Requeued(f, restart)
  PROVE  /\ restart = None => queue' = queue
         /\ restart # None =>
              /\ queue' = [queue EXCEPT ![f] = queue'[f]]
              /\ queue'[f] \in Task /\ queue'[f].status = "queued" /\ queue'[f].id = queue[f].id
              /\ queue'[f].next = IF restart = 0 THEN queue[f].next ELSE restart
              /\ queue'[f].details = FALSE
         /\ queue' \in [Sources -> Task \cup {None}] /\ clock' = clock
  <1>1. f \in Sources /\ queue[f] \in Task /\ queue \in [Sources -> Task \cup {None}]
    BY Rowed DEF Rows, TypeInv, TypeOK
  <1>2. CASE restart = None
    BY <1>1, <1>2 DEF Requeued
  <1>3. CASE restart # None
    <2>. DEFINE row == [queue[f] EXCEPT !.status = "queued", !.details = FALSE,
                                        !.next = IF restart = 0 THEN queue[f].next ELSE restart]
    <2>1. queue' = [queue EXCEPT ![f] = row] /\ clock' = clock
      BY <1>3 DEF Requeued
    <2>2. row \in Task
      BY <1>1, <1>3 DEF Task
    <2>3. row.status = "queued" /\ row.id = queue[f].id /\ row.details = FALSE
          /\ row.next = IF restart = 0 THEN queue[f].next ELSE restart
      BY <1>1 DEF Task
    <2>. HIDE DEF row
    <2>4. queue'[f] = row
      BY <1>1, <2>1
    <2>. QED  BY <1>1, <1>3, <2>1, <2>2, <2>3, <2>4
  <1>. QED  BY <1>2, <1>3

LEMMA QueueTransactionType ==
  ASSUME TypeInv, NEW u \in Requests, QueueTransaction(u)
  PROVE  TypeInv'
  <1>. DEFINE q == request[u]
              f == q.from
  <1>1. q \in Request /\ f \in Sources /\ q.id \in Ids /\ q.restart \in Numbers \cup {0, None}
    BY QueueTransactionFacts DEF Request
  <1>2. queue' \in [Sources -> Task \cup {None}] /\ clock' \in Nat
    <2>1. clock \in Nat
      BY DEF TypeInv, TypeOK
    <2>. QED  BY <1>1, <2>1, QueueTransactionFacts, InsertedTyped, RequeuedTyped
  <1>3. linked' \in [Sources -> Ids \cup {None}]
    BY <1>1 DEF QueueTransaction, Link, TypeInv, TypeOK
  <1>4. past' \in [Sources -> SUBSET Event]
    <2>1. past[f] \in SUBSET Event
      BY <1>1 DEF TypeInv, TypeOK
    <2>2. Noted(q) \in SUBSET Event
      BY <2>1 DEF Noted, When, Event
    <2>. QED  BY <1>1, <2>2 DEF QueueTransaction, TypeInv, TypeOK
  <1>5. request' \in [Requests -> Request] /\ RequestsReal'
    BY QueueTransactionFacts, AnswerKept
  <1>. QED  BY <1>2, <1>3, <1>4, <1>5, QueueTransactionFacts DEF TypeInv, TypeOK, BuildsKept, pod

LEMMA RollbackMigrationType ==
  ASSUME TypeInv, NEW u \in Requests, NEW f \in Sources, RollbackMigration(u, f)
  PROVE  TypeInv'
  <1>. DEFINE q == [at |-> "delete", from |-> f, id |-> queue[f].id, existing |-> None, restart |-> None]
  <1>1. queue[f].id \in Ids
    BY Rowed DEF RollbackMigration, TypeInv, Task
  <1>3. q \in Request /\ RequestReal(q)
    BY <1>1 DEF Request, RequestReal
  <1>4. request' = [request EXCEPT ![u] = q]
    BY DEF RollbackMigration
  <1>. HIDE DEF q
  <1>5. request' \in [Requests -> Request] /\ RequestsReal'
    BY <1>3, <1>4, RequestTyped
  <1>. QED  BY <1>5 DEF RollbackMigration, TypeInv, TypeOK, BuildsKept, db, pod

LEMMA RollbackTransactionType ==
  ASSUME TypeInv, NEW u \in Requests, RollbackTransaction(u)
  PROVE  TypeInv'
  <1>1. request[u] \in Request /\ request[u].at = "delete" /\ request[u].from \in Sources /\ request[u].id \in Ids
    BY DEF RollbackTransaction, TypeInv, TypeOK, RequestsReal, RequestReal
  <1>. DEFINE q == [request[u] EXCEPT !.at = "objects"]
  <1>2. q \in Request /\ RequestReal(q)
    BY <1>1 DEF Request, RequestReal
  <1>3. request' = [request EXCEPT ![u] = q]
    BY DEF RollbackTransaction
  <1>. HIDE DEF q
  <1>4. request' \in [Requests -> Request] /\ RequestsReal'
    BY <1>2, <1>3, RequestTyped
  <1>5. past' \in [Sources -> SUBSET Event]
    BY <1>1, PastTyped DEF RollbackTransaction, TypeInv, When, Event
  <1>6. /\ queue' \in [Sources -> Task \cup {None}] /\ copied' \in [Sources -> SUBSET (Tables \cup Objects)]
        /\ moved' \in [Sources -> Nat] /\ archived' \in [Sources -> SUBSET {"from", "to"}]
    BY <1>1 DEF RollbackTransaction, TypeInv, TypeOK
  <1>. QED  BY <1>4, <1>5, <1>6 DEF RollbackTransaction, TypeInv, TypeOK, BuildsKept, pod

LEMMA RollbackObjectsType ==
  ASSUME TypeInv, NEW u \in Requests, RollbackObjects(u)
  PROVE  TypeInv'
  <1>1. request[u].from \in Sources /\ request' \in [Requests -> Request] /\ RequestsReal'
    BY AnswerKept DEF RollbackObjects, TypeInv, RequestsReal, RequestReal
  <1>2. copied' \in [Sources -> SUBSET (Tables \cup Objects)]
    BY <1>1 DEF RollbackObjects, TypeInv, TypeOK
  <1>3. past' \in [Sources -> SUBSET Event]
    BY <1>1, PastTyped DEF RollbackObjects, TypeInv, When, Event
  <1>. QED  BY <1>1, <1>2, <1>3 DEF RollbackObjects, TypeInv, TypeOK, BuildsKept, pod

LEMMA RequestStepType ==
  ASSUME TypeInv, NEW u \in Requests, RequestStep(u)
  PROVE  TypeInv'
  <1>1. CASE \E f \in Sources, id \in Ids \cup {None}, restart \in Restarts : QueueMigration(u, f, id, restart)
    BY <1>1, QueueMigrationType
  <1>2. CASE \E f \in Sources : RollbackMigration(u, f)
    BY <1>2, RollbackMigrationType
  <1>3. CASE RequestFails(u)
    BY <1>3, AnswerKept DEF RequestFails, TypeInv, TypeOK, BuildsKept, db, pod
  <1>4. CASE \E f \in Sources, call \in Archivals : SetPipelineArchival(u, f, call[1], call[2])
    <2>1. PICK f \in Sources, call \in Archivals : SetPipelineArchival(u, f, call[1], call[2])
      BY <1>4
    <2>2. request' \in [Requests -> Request] /\ RequestsReal'
      BY <2>1, AnswerKept DEF SetPipelineArchival
    <2>3. past' \in [Sources -> SUBSET Event]
      BY <2>1, PastTyped DEF SetPipelineArchival, TypeInv, When, Event
    <2>4. archived' \in [Sources -> SUBSET {"from", "to"}]
      BY <2>1, ArchivalsAssumption DEF SetPipelineArchival, TypeInv, TypeOK
    <2>. QED  BY <2>1, <2>2, <2>3, <2>4 DEF SetPipelineArchival, TypeInv, TypeOK, BuildsKept, pod
  <1>. QED  BY <1>1, <1>2, <1>3, <1>4, QueueTransactionType, RollbackTransactionType, RollbackObjectsType DEF RequestStep

LEMMA CountTasksType ==
  ASSUME TypeInv, NEW p \in Pods, CountTasks(p)
  PROVE  TypeInv'
  <1>1. maximumParallelMigrations \in Nat /\ Capacity(p) \in Int /\ Capacity(p) <= maximumParallelMigrations
    BY CapacityTyped, ParallelAssumption DEF TypeInv
  <1>2. Polling("done") \in Poll
    BY <1>1 DEF Polling, Poll
  <1>3. ~stop[p] => [at |-> "pick", maxTasks |-> Capacity(p)] \in Poll
    BY <1>1 DEF CountTasks, Poll
  <1>4. poll' \in [Pods -> Poll]
    BY <1>2, <1>3 DEF CountTasks, TypeInv, TypeOK
  <1>. QED  BY <1>4 DEF CountTasks, TypeInv, TypeOK, BuildsKept, RequestsReal, db

(* What PickMigration does, for the tasks it picks, the slots of their       *)
(* goroutines and the outcome of its commit.                                 *)
Picks(p, F, slot, committed) ==
  /\ F \subseteq Pickable
  /\ \A f \in F : slot[f] \in Free(p)
  /\ \A f, g \in F : slot[f] = slot[g] => f = g
  /\ worker' \in [Pods \X Slots -> Worker \cup {None}]
  /\ \A f \in F : worker'[slot[f]] = Started(f) /\ Started(f) \in Worker
  /\ \A s \in Pods \X Slots : (\A f \in F : slot[f] # s) => worker'[s] = worker[s]
  /\ queue' \in [Sources -> Task \cup {None}]
  /\ \A f \in Sources : ~(committed /\ f \in F) => queue'[f] = queue[f]
  /\ committed => \A f \in F : /\ queue'[f] \in Task /\ queue'[f].status = "in_progress"
                               /\ queue'[f].id = queue[f].id /\ queue'[f].next = queue[f].next
                               /\ queue'[f].details = queue[f].details
  /\ archived' = IF committed THEN Archive(F) ELSE archived
  /\ past' = [f \in Sources |->
       IF f \in F THEN (past[f] \ When(committed, "shown")) \cup When(~committed, "uncommitted")
                       \cup When(Active(f, "pending"), "unguarded")
       ELSE past[f]]

LEMMA PickMigrationFacts ==
  ASSUME TypeInv, NEW p \in Pods, PickMigration(p)
  PROVE  \E F \in SUBSET Sources : \E slot \in [F -> Free(p)] : \E committed \in BOOLEAN :
           Picks(p, F, slot, committed)
  <1>1. PICK F \in Picked(poll[p].maxTasks) : \E slot \in [F -> Free(p)] : \E committed \in BOOLEAN :
          StartTasks(p, F, slot, committed)
    BY DEF PickMigration
  <1>2. PICK slot \in [F -> Free(p)] : \E committed \in BOOLEAN : StartTasks(p, F, slot, committed)
    BY <1>1
  <1>3. PICK committed \in BOOLEAN : StartTasks(p, F, slot, committed)
    BY <1>2
  <1>4. F \subseteq Pickable /\ F \subseteq Rows /\ F \subseteq Sources
    BY <1>1 DEF Picked, Pickable, Rows
  <1>5. \A f \in F : slot[f] \in Free(p) /\ slot[f] \in Pods \X Slots
    BY <1>2 DEF Free
  <1>6. \A f, g \in F : slot[f] = slot[g] => f = g
    BY <1>3 DEF StartTasks
  <1>7. \A f \in F : queue[f] \in Task /\ Started(f) \in Worker
    <2>1. SUFFICES ASSUME NEW f \in F PROVE queue[f] \in Task /\ Started(f) \in Worker
      OBVIOUS
    <2>2. queue[f] \in Task
      BY <1>4, Rowed DEF TypeInv
    <2>. QED  BY <1>4, <2>2 DEF Started, Worker, Task
  <1>8. \A f \in F : worker'[slot[f]] = Started(f)
    <2>1. SUFFICES ASSUME NEW f \in F PROVE worker'[slot[f]] = Started(f)
      OBVIOUS
    <2>2. worker'[slot[f]] = Started(CHOOSE g \in F : slot[g] = slot[f])
      <3>1. worker' = [s \in Pods \X Slots |->
              IF \E g \in F : slot[g] = s THEN Started(CHOOSE g \in F : slot[g] = s) ELSE worker[s]]
        BY <1>3 DEF StartTasks
      <3>2. \E g \in F : slot[g] = slot[f]
        OBVIOUS
      <3>3. slot[f] \in Pods \X Slots
        BY <1>5
      <3>. QED  BY <3>1, <3>2, <3>3, Zenon
    <2>3. (CHOOSE g \in F : slot[g] = slot[f]) = f
      BY <1>6
    <2>. QED  BY <2>2, <2>3
  <1>9. \A s \in Pods \X Slots : (\A f \in F : slot[f] # s) => worker'[s] = worker[s]
    BY <1>3 DEF StartTasks
  <1>10. worker' \in [Pods \X Slots -> Worker \cup {None}]
    <2>1. ASSUME NEW s \in Pods \X Slots PROVE worker'[s] \in Worker \cup {None}
      <3>1. CASE \E f \in F : slot[f] = s
        BY <1>7, <1>8, <3>1
      <3>2. CASE \A f \in F : slot[f] # s
        <4>1. worker[s] \in Worker \cup {None}
          BY DEF TypeInv, TypeOK
        <4>. QED  BY <1>9, <3>2, <4>1
      <3>. QED  BY <3>1, <3>2
    <2>. QED  BY <1>3, <2>1 DEF StartTasks
  <1>11. /\ \A f \in Sources : ~(committed /\ f \in F) => queue'[f] = queue[f]
         /\ committed => \A f \in F : queue'[f] = [queue[f] EXCEPT !.status = "in_progress"]
         /\ DOMAIN queue' = Sources
    BY <1>3, <1>4 DEF StartTasks
  <1>12. committed => \A f \in F : /\ queue'[f] \in Task /\ queue'[f].status = "in_progress"
                                   /\ queue'[f].id = queue[f].id /\ queue'[f].next = queue[f].next
                                   /\ queue'[f].details = queue[f].details
    BY <1>7, <1>11 DEF Task
  <1>13. queue' \in [Sources -> Task \cup {None}]
    <2>1. \A f \in Sources : queue'[f] \in Task \cup {None}
      BY <1>11, <1>12 DEF TypeInv, TypeOK
    <2>. QED  BY <1>3, <2>1 DEF StartTasks
  <1>14. Picks(p, F, slot, committed)
    BY <1>3, <1>4, <1>5, <1>6, <1>7, <1>8, <1>9, <1>10, <1>11, <1>12, <1>13 DEF Picks, StartTasks
  <1>. QED  BY <1>2, <1>3, <1>4, <1>14

LEMMA PickMigrationType ==
  ASSUME TypeInv, NEW p \in Pods, PickMigration(p)
  PROVE  TypeInv'
  <1>1. PICK F \in SUBSET Sources : \E slot \in [F -> Free(p)] : \E committed \in BOOLEAN : Picks(p, F, slot, committed)
    BY PickMigrationFacts
  <1>2. PICK slot \in [F -> Free(p)], committed \in BOOLEAN : Picks(p, F, slot, committed)
    BY <1>1
  <1>3. Polling("check") \in Poll
    BY ParallelAssumption DEF Polling, Poll
  <1>4. poll' \in [Pods -> Poll]
    BY <1>3 DEF PickMigration, TypeInv, TypeOK
  <1>5. past' \in [Sources -> SUBSET Event]
    BY <1>2 DEF Picks, When, Event, TypeInv, TypeOK
  <1>6. archived' \in [Sources -> SUBSET {"from", "to"}]
    BY <1>2 DEF Picks, Archive, When, TypeInv, TypeOK
  <1>7. faults' \in Nat
    BY DEF PickMigration, StartTasks, TypeInv, TypeOK
  <1>8. queue' \in [Sources -> Task \cup {None}] /\ worker' \in [Pods \X Slots -> Worker \cup {None}]
    BY <1>2 DEF Picks
  <1>. QED  BY <1>4, <1>5, <1>6, <1>7, <1>8 DEF PickMigration, TypeInv, TypeOK, BuildsKept, RequestsReal

(* A goroutine that has executed its stage.                                  *)
LEMMA ToUpdateFacts ==
  ASSUME TypeInv, NEW s \in Working, NEW ok \in BOOLEAN, NEW details \in BOOLEAN, ToUpdate(s, ok, details)
  PROVE  /\ worker' = [worker EXCEPT ![s] = worker'[s]]
         /\ worker' \in [Pods \X Slots -> Worker \cup {None}]
         /\ worker'[s] \in Worker /\ worker'[s] # None
         /\ worker'[s].from = worker[s].from /\ worker'[s].id = worker[s].id
         /\ worker'[s].next = worker[s].next /\ worker'[s].at = "update"
         /\ worker'[s].ok = ok
         /\ worker'[s].details = (worker[s].details \/ details)
  <1>1. s \in Pods \X Slots /\ worker[s] \in Worker /\ worker \in [Pods \X Slots -> Worker \cup {None}]
    BY Rowed DEF Working, TypeInv, TypeOK
  <1>. DEFINE x == [worker[s] EXCEPT !.at = "update", !.ok = ok, !.details = worker[s].details \/ details]
  <1>2. worker' = [worker EXCEPT ![s] = x]
    BY DEF ToUpdate
  <1>3. x \in Worker
    BY <1>1 DEF Worker
  <1>4. x.from = worker[s].from /\ x.id = worker[s].id /\ x.next = worker[s].next /\ x.at = "update"
    BY <1>1 DEF Worker
  <1>5. x.ok = ok /\ x.details = (worker[s].details \/ details)
    BY <1>1 DEF Worker
  <1>. HIDE DEF x
  <1>6. worker'[s] = x
    BY <1>1, <1>2
  <1>. QED  BY <1>1, <1>2, <1>3, <1>4, <1>5, <1>6, Rowed DEF TypeInv

LEMMA WorkerTyped ==
  ASSUME TypeInv, NEW s \in Working
  PROVE  /\ s \in Pods \X Slots
         /\ worker[s] \in Worker /\ worker[s].from \in Sources /\ worker[s].id \in Ids
         /\ worker[s].next \in Numbers /\ Stage(worker[s]) \in Steps
         /\ OlderBuilds(worker[s].from) \in Nat
  <1>1. s \in Pods \X Slots /\ worker[s] \in Worker
    BY Rowed DEF Working, TypeInv
  <1>2. worker[s].from \in Sources /\ worker[s].id \in Ids /\ worker[s].next \in Numbers
    BY <1>1 DEF Worker
  <1>3. Stage(worker[s]) \in Steps
    BY <1>2, StagesTyped DEF Stage
  <1>4. Len(builds[worker[s].from]) > 0
    <2>1. Len(builds[worker[s].from]) \in Nat
      BY <1>2 DEF TypeInv, TypeOK
    <2>. QED  BY <1>2, <2>1, BuildsAssumption DEF TypeInv, BuildsKept
  <1>. QED  BY <1>1, <1>2, <1>3, <1>4, OlderTyped DEF TypeInv

LEMMA MigrateBuildsType ==
  ASSUME TypeInv, NEW f \in Sources, NEW n \in Nat, MigrateBuilds(f, n)
  PROVE  moved' \in [Sources -> Nat] /\ past' \in [Sources -> SUBSET Event]
  BY LiveTyped, PastTyped DEF MigrateBuilds, TypeInv, TypeOK

LEMMA ExecuteType ==
  ASSUME TypeInv, NEW s \in Pods \X Slots, Execute(s)
  PROVE  TypeInv'
  <1>1. s \in Working
    BY DEF Execute
  <1>. DEFINE f == worker[s].from
              stage == Stage(worker[s])
  <1>2. f \in Sources /\ OlderBuilds(f) \in Nat
    BY <1>1, WorkerTyped
  <1>3. worker' \in [Pods \X Slots -> Worker \cup {None}]
    BY <1>1, ToUpdateFacts DEF Execute
  <1>4. copied' \in [Sources -> SUBSET (Tables \cup Objects)]
    <2>1. Stored(f, stage) \in SUBSET (Tables \cup Objects)
      BY <1>2, StoredTyped DEF TypeInv
    <2>2. copied' = copied \/ copied' = [copied EXCEPT ![f] = Stored(f, stage)]
      BY DEF Execute
    <2>. QED  BY <1>2, <2>1, <2>2 DEF TypeInv, TypeOK
  <1>5. archived' \in [Sources -> SUBSET {"from", "to"}]
    <2>1. ArchivedBy(f, stage) \in SUBSET {"from", "to"}
      BY <1>2, ArchivedTyped DEF TypeInv
    <2>2. archived' = archived \/ archived' = [archived EXCEPT ![f] = ArchivedBy(f, stage)]
      BY DEF Execute
    <2>. QED  BY <1>2, <2>1, <2>2 DEF TypeInv, TypeOK
  <1>6. moved' \in [Sources -> Nat] /\ past' \in [Sources -> SUBSET Event]
    BY <1>2, MigrateBuildsType DEF Execute, TypeInv, TypeOK
  <1>. QED  BY <1>3, <1>4, <1>5, <1>6 DEF Execute, TypeInv, TypeOK, BuildsKept, RequestsReal

LEMMA ExecuteFailsType ==
  ASSUME TypeInv, NEW s \in Pods \X Slots, ExecuteFails(s)
  PROVE  TypeInv'
  <1>1. s \in Working
    BY DEF ExecuteFails
  <1>. DEFINE f == worker[s].from
              stage == Stage(worker[s])
  <1>2. f \in Sources /\ OlderBuilds(f) \in Nat
    BY <1>1, WorkerTyped
  <1>3. worker' \in [Pods \X Slots -> Worker \cup {None}]
    BY <1>1, ToUpdateFacts DEF ExecuteFails
  <1>4. copied' \in [Sources -> SUBSET (Tables \cup Objects)]
    <2>1. Stored(f, stage) \in SUBSET (Tables \cup Objects)
      BY <1>2, StoredTyped DEF TypeInv
    <2>2. copied' = copied \/ copied' = [copied EXCEPT ![f] = Stored(f, stage)]
      BY DEF ExecuteFails
    <2>. QED  BY <1>2, <2>1, <2>2 DEF TypeInv, TypeOK
  <1>5. archived' \in [Sources -> SUBSET {"from", "to"}]
    BY <1>2 DEF ExecuteFails, TypeInv, TypeOK
  <1>6. moved' \in [Sources -> Nat] /\ past' \in [Sources -> SUBSET Event]
    <2>1. moved[f] \in Nat
      BY <1>2 DEF TypeInv, TypeOK
    <2>2. CASE UNCHANGED <<moved, past>>
      BY <2>2 DEF TypeInv, TypeOK
    <2>3. CASE \E n \in moved[f]..OlderBuilds(f) : MigrateBuilds(f, n)
      BY <1>2, <2>1, <2>3, MigrateBuildsType
    <2>. QED  BY <2>2, <2>3 DEF ExecuteFails
  <1>. QED  BY <1>3, <1>4, <1>5, <1>6 DEF ExecuteFails, TypeInv, TypeOK, BuildsKept, RequestsReal

(* The row of the task of a goroutine after UpdateMigration.                 *)
LEMMA UpdatedFacts ==
  ASSUME TypeInv, NEW s \in Working, NEW f \in Rows
  PROVE  LET w   == worker[s]
             row == Updated(queue[f], w)
         IN  /\ row \in Task /\ row # None /\ row.id = queue[f].id
             /\ row.status = IF ~w.ok THEN "failed" ELSE IF w.next = Len(Stages) THEN "completed" ELSE "in_progress"
             /\ row.next = IF w.ok /\ w.next # Len(Stages) THEN w.next + 1 ELSE w.next
             /\ row.details = (queue[f].details \/ w.details)
  <1>. DEFINE w == worker[s]
              status == IF ~w.ok THEN "failed" ELSE IF w.next = Len(Stages) THEN "completed" ELSE "in_progress"
              next == IF w.ok /\ w.next # Len(Stages) THEN w.next + 1 ELSE w.next
              details == queue[f].details \/ w.details
  <1>1. w \in Worker /\ w.next \in Numbers /\ queue[f] \in Task
    BY WorkerTyped, Rowed DEF TypeInv
  <1>2. Updated(queue[f], w) = [queue[f] EXCEPT !.status = status, !.next = next, !.details = details]
    BY DEF Updated
  <1>3. next \in Numbers
    BY <1>1, StagesTyped DEF Numbers
  <1>4. status \in {"queued", "in_progress", "failed", "completed"} /\ details \in BOOLEAN
    BY <1>1 DEF Task, Worker
  <1>. HIDE DEF status, next, details
  <1>5. [queue[f] EXCEPT !.status = status, !.next = next, !.details = details] \in Task
    BY <1>1, <1>3, <1>4 DEF Task
  <1>6. /\ [queue[f] EXCEPT !.status = status, !.next = next, !.details = details].id = queue[f].id
        /\ [queue[f] EXCEPT !.status = status, !.next = next, !.details = details].status = status
        /\ [queue[f] EXCEPT !.status = status, !.next = next, !.details = details].next = next
        /\ [queue[f] EXCEPT !.status = status, !.next = next, !.details = details].details = details
    BY <1>1 DEF Task
  <1>7. Updated(queue[f], w) # None
    BY <1>2, <1>5, Rowed DEF TypeInv
  <1>. QED  BY <1>2, <1>5, <1>6, <1>7 DEF status, next, details

LEMMA UpdateMigrationType ==
  ASSUME TypeInv, NEW s \in Pods \X Slots, UpdateMigration(s)
  PROVE  TypeInv'
  <1>. DEFINE w == worker[s]
  <1>1. s \in Working
    BY DEF UpdateMigration
  <1>2. queue' \in [Sources -> Task \cup {None}]
    <2>1. ASSUME NEW f \in Sources
          PROVE  (IF f \in Rows /\ queue[f].id = w.id THEN Updated(queue[f], w) ELSE queue[f]) \in Task \cup {None}
      <3>1. CASE f \in Rows
        BY <1>1, <3>1, UpdatedFacts DEF TypeInv, TypeOK
      <3>2. CASE f \notin Rows
        BY <3>2 DEF TypeInv, TypeOK
      <3>. QED  BY <3>1, <3>2
    <2>. QED  BY <2>1 DEF UpdateMigration
  <1>3. worker' \in [Pods \X Slots -> Worker \cup {None}]
    <2>1. w \in Worker /\ w.next \in Numbers
      BY <1>1, WorkerTyped
    <2>2. ASSUME w.next # Len(Stages) PROVE [w EXCEPT !.at = "execute", !.next = w.next + 1] \in Worker
      <3>1. w.next + 1 \in Numbers
        BY <2>1, <2>2, StagesTyped DEF Numbers
      <3>. QED  BY <2>1, <3>1 DEF Worker
    <2>. QED  BY <2>2 DEF UpdateMigration, TypeInv, TypeOK
  <1>4. past' \in [Sources -> SUBSET Event]
    BY LostTyped DEF UpdateMigration, TypeInv, TypeOK
  <1>. QED  BY <1>2, <1>3, <1>4 DEF UpdateMigration, TypeInv, TypeOK, BuildsKept, RequestsReal

LEMMA TaskStepType ==
  ASSUME TypeInv, NEW s \in Pods \X Slots, TaskStep(s)
  PROVE  TypeInv'
  <1>1. CASE UpdateFails(s)
    <2>1. past' \in [Sources -> SUBSET Event]
      BY <1>1, LostTyped DEF UpdateFails, TypeInv
    <2>. QED  BY <1>1, <2>1 DEF UpdateFails, TypeInv, TypeOK, BuildsKept, RequestsReal, db
  <1>. QED  BY <1>1, ExecuteType, ExecuteFailsType, UpdateMigrationType DEF TaskStep

LEMMA PodStepType ==
  ASSUME TypeInv, NEW p \in Pods, PodStep(p)
  PROVE  TypeInv'
  <1>1. CASE Restart(p) /\ faults' \in Nat
    <2>1. Polling("check") \in Poll
      BY ParallelAssumption DEF Polling, Poll
    <2>2. past' \in [Sources -> SUBSET Event]
      BY <1>1, LostTyped DEF Restart, TypeInv
    <2>3. worker' \in [Pods \X Slots -> Worker \cup {None}]
      BY <1>1 DEF Restart, TypeInv, TypeOK
    <2>. QED  BY <1>1, <2>1, <2>2, <2>3 DEF Restart, TypeInv, TypeOK, BuildsKept, RequestsReal, db
  <1>2. CASE Stop(p)
    BY <1>2 DEF Stop, TypeInv, TypeOK, BuildsKept, RequestsReal, db
  <1>3. (Crash(p) \/ Exit(p)) => Restart(p) /\ faults' \in Nat
    BY DEF Crash, Exit, TypeInv, TypeOK
  <1>. QED  BY <1>1, <1>2, <1>3 DEF PodStep

LEMMA BuildInsertedType ==
  ASSUME TypeInv, NEW f \in Sources, BuildInserted(f)
  PROVE  TypeInv'
  <1>1. builds[f] \in Seq(BuildStatus) /\ Len(builds[f]) \in Nat /\ "pending" \in BuildStatus
    BY DEF TypeInv, TypeOK, BuildStatus
  <1>2. Append(builds[f], "pending") \in Seq(BuildStatus) /\ Len(Append(builds[f], "pending")) = Len(builds[f]) + 1
    BY <1>1, AppendProperties
  <1>3. builds' = [builds EXCEPT ![f] = Append(builds[f], "pending")]
    BY DEF BuildInserted
  <1>4. builds' \in [Sources -> Seq(BuildStatus)] /\ BuildsKept'
    BY <1>1, <1>2, <1>3, BuildsAssumption DEF TypeInv, TypeOK, BuildsKept
  <1>5. past' \in [Sources -> SUBSET Event]
    BY PastTyped DEF BuildInserted, TypeInv, When, Event
  <1>. QED  BY <1>4, <1>5 DEF BuildInserted, TypeInv, TypeOK, RequestsReal, db, pod

LEMMA BuildStepType ==
  ASSUME TypeInv, NEW f \in Sources, NEW n \in DOMAIN builds[f], BuildStep(f, n)
  PROVE  TypeInv'
  <1>1. PICK from \in BuildStatus, to \in BuildStatus : BuildGoes(f, n, from, to)
    BY DEF BuildStep, BuildStarts, BuildEnds, UpsertComputedPipeline, BuildStatus
  <1>2. builds[f] \in Seq(BuildStatus) /\ n \in 1..Len(builds[f])
    BY DEF TypeInv, TypeOK
  <1>3. [builds[f] EXCEPT ![n] = to] \in Seq(BuildStatus) /\ Len([builds[f] EXCEPT ![n] = to]) = Len(builds[f])
    BY <1>2, ExceptSeq
  <1>4. builds' = [builds EXCEPT ![f] = [builds[f] EXCEPT ![n] = to]]
    BY <1>1 DEF BuildGoes
  <1>5. builds' \in [Sources -> Seq(BuildStatus)] /\ BuildsKept'
    BY <1>3, <1>4 DEF TypeInv, TypeOK, BuildsKept
  <1>6. past' \in [Sources -> SUBSET Event] /\ archived' \in [Sources -> SUBSET {"from", "to"}]
    <2>1. CASE UNCHANGED <<archived, past>>
      BY <2>1 DEF TypeInv, TypeOK
    <2>2. CASE UpsertComputedPipeline(f, n)
      BY <2>2, PastTyped DEF UpsertComputedPipeline, TypeInv, TypeOK, Event
    <2>. QED  BY <2>1, <2>2 DEF BuildStep, BuildStarts, BuildEnds
  <1>. QED  BY <1>1, <1>5, <1>6 DEF BuildGoes, TypeInv, TypeOK, RequestsReal, pod

LEMMA TypeStep == TypeInv /\ [Next]_vars => TypeInv'
  <1>. SUFFICES ASSUME TypeInv, [Next]_vars PROVE TypeInv'
    OBVIOUS
  <1>1. CASE \E p \in Pods : PollStep(p) \/ PodStep(p)
    BY <1>1, CountTasksType, PickMigrationType, PodStepType DEF PollStep
  <1>2. CASE \E f \in Sources : BuildInserted(f) \/ \E n \in DOMAIN builds[f] : BuildStep(f, n)
    BY <1>2, BuildInsertedType, BuildStepType
  <1>3. CASE UNCHANGED vars
    BY <1>3 DEF TypeInv, TypeOK, BuildsKept, RequestsReal, vars, db, pod
  <1>. QED  BY <1>1, <1>2, <1>3, RequestStepType, TaskStepType DEF Next

(* Every state of the tables, pods and requests is of its type, no build is  *)
(* lost and a request under way knows its repository and its task.           *)
THEOREM TypeCorrect == Spec => []TypeInv
  BY InitType, TypeStep, PTL DEF Spec

-----------------------------------------------------------------------------
(* Rows and goroutines                                                       *)

Flag(f, E) == past[f] \cap E # {}
Twice      == {"doubled", "reused", "uncommitted"}

UniqueIds == \A f, g \in Rows : queue[f].id = queue[g].id => f = g

(* A queued task is not executed yet.                                        *)
QueuedFree == \A f \in Rows : queue[f].status = "queued" => Executing(queue[f].id) = {} \/ Flag(f, Twice)

(* The source of a task stays archived while it is executed, although the    *)
(* task may be queued once more by then.                                     *)
ExecutedArchived ==
  \A f \in Rows : Executing(queue[f].id) # {} => "from" \in archived[f] \/ Flag(f, {"shown", "uncommitted", "reused"})

(* Builds are under way in a source that is worked on only if they were      *)
(* pending when its task was picked or inserted since.                       *)
Guarded ==
  \A f \in Sources :
    WorkingFor(f) # {} /\ (Active(f, "pending") \/ Active(f, "running")) => "unguarded" \in past[f]

(* A source without a task is worked on only after a rollback.               *)
OvertakenWorkers == \A f \in Sources \ Rows : WorkingFor(f) # {} => "overtaken" \in past[f]

RowsSafe ==
  /\ UniqueIds /\ QueuedFree /\ ExecutedArchived /\ Guarded /\ OvertakenWorkers
  /\ OneExecutor /\ InProgressExecuted /\ SourceArchived /\ LiveCopyUnguarded /\ TargetHasTask /\ Linked

RowsInv == TypeInv /\ RowsSafe

LEMMA InitRows == Init => RowsSafe
  <1>. SUFFICES ASSUME Init PROVE RowsSafe
    OBVIOUS
  <1>1. Rows = {} /\ Working = {}
    BY DEF Init, Rows, Working
  <1>2. \A f \in Sources : WorkingFor(f) = {}
    BY <1>1 DEF WorkingFor
  <1>. QED
    BY <1>1, <1>2 DEF Init, RowsSafe, UniqueIds, QueuedFree, ExecutedArchived, Guarded, OvertakenWorkers,
       OneExecutor, InProgressExecuted, SourceArchived, LiveCopyUnguarded, TargetHasTask, Linked

(* A step that leaves rows and goroutines alone.                             *)
RequestsSwept == \A u \in Requests : request[u].at = "objects" => request'[u] = request[u]
QuietStep     == UNCHANGED <<queue, linked, copied, moved, archived, worker, builds, past>> /\ RequestsSwept

LEMMA QuietRows ==
  ASSUME RowsSafe, QuietStep
  PROVE  RowsSafe'
  <1>1. Rows' = Rows /\ Working' = Working
    BY DEF QuietStep, Rows, Working
  <1>2. \A f \in Sources : /\ WorkingFor(f)' = WorkingFor(f) /\ Executing(queue[f].id)' = Executing(queue[f].id)
                           /\ Active(f, "pending")' = Active(f, "pending") /\ Active(f, "running")' = Active(f, "running")
    BY <1>1 DEF QuietStep, WorkingFor, Executing, Active
  <1>3. Rows \subseteq Sources
    BY DEF Rows
  <1>4. TargetHasTask'
    <2>. SUFFICES ASSUME NEW f \in Sources \ Rows, "overtaken" \notin past[f]
         PROVE  /\ copied'[f] \cap Tables = {} /\ moved'[f] = 0
                /\ copied'[f] \cap Objects # {} =>
                     "left" \in past'[f] \/ \E u \in Requests : request'[u].at = "objects" /\ request'[u].from = f
      BY <1>1 DEF TargetHasTask, QuietStep
    <2>. QED  BY DEF RowsSafe, TargetHasTask, QuietStep, RequestsSwept
  <1>5. UniqueIds' /\ QueuedFree' /\ ExecutedArchived'
    BY <1>1, <1>2, <1>3 DEF RowsSafe, QuietStep, UniqueIds, QueuedFree, ExecutedArchived, Flag
  <1>6. Guarded' /\ OvertakenWorkers' /\ LiveCopyUnguarded'
    BY <1>1, <1>2, <1>3 DEF RowsSafe, QuietStep, Guarded, OvertakenWorkers, LiveCopyUnguarded
  <1>7. OneExecutor' /\ InProgressExecuted' /\ SourceArchived' /\ Linked'
    BY <1>1, <1>2, <1>3 DEF RowsSafe, QuietStep, OneExecutor, InProgressExecuted, SourceArchived, Linked
  <1>. QED  BY <1>4, <1>5, <1>6, <1>7 DEF RowsSafe

(* The steps that are quiet.                                                 *)
LEMMA AnswerSwept ==
  ASSUME TypeInv, NEW u \in Requests, request[u].at # "objects", NEW q, request' = [request EXCEPT ![u] = q]
  PROVE  RequestsSwept
  BY DEF RequestsSwept, TypeInv, TypeOK

LEMMA QuietSteps ==
  ASSUME TypeInv,
         \/ \E u \in Requests : \E f \in Sources :
              \/ \E id \in Ids \cup {None}, restart \in Restarts : QueueMigration(u, f, id, restart)
              \/ RollbackMigration(u, f)
         \/ \E u \in Requests : RequestFails(u)
         \/ \E p \in Pods : CountTasks(p) \/ Stop(p)
         \/ UNCHANGED vars
  PROVE  QuietStep
  <1>1. ASSUME NEW u \in Requests, NEW f \in Sources, NEW id, NEW restart, QueueMigration(u, f, id, restart)
        PROVE  QuietStep
    <2>1. PICK q : request' = [request EXCEPT ![u] = q]
      BY <1>1 DEF QueueMigration
    <2>2. RequestsSwept
      BY <1>1, <2>1, AnswerSwept DEF QueueMigration
    <2>. QED  BY <1>1, <2>2 DEF QueueMigration, QuietStep, db, pod
  <1>2. ASSUME NEW u \in Requests, NEW f \in Sources, RollbackMigration(u, f)
        PROVE  QuietStep
    <2>1. RequestsSwept
      BY <1>2, AnswerSwept DEF RollbackMigration
    <2>. QED  BY <1>2, <2>1 DEF RollbackMigration, QuietStep, db, pod
  <1>3. ASSUME NEW u \in Requests, RequestFails(u)
        PROVE  QuietStep
    <2>1. RequestsSwept
      BY <1>3, AnswerSwept DEF RequestFails, Answer
    <2>. QED  BY <1>3, <2>1 DEF RequestFails, QuietStep, db, pod
  <1>4. CASE \E p \in Pods : CountTasks(p) \/ Stop(p)
    BY <1>4 DEF CountTasks, Stop, QuietStep, RequestsSwept, db
  <1>5. CASE UNCHANGED vars
    BY <1>5 DEF vars, QuietStep, RequestsSwept, db, pod
  <1>. QED  BY <1>1, <1>2, <1>3, <1>4, <1>5

(* The transaction of QueueMigration.                                        *)
LEMMA InsertedRows ==
  ASSUME RowsInv, NEW u \in Requests, QueueTransaction(u),
         NEW q, q = request[u], NEW f \in Sources, f = q.from, f \notin Rows
  PROVE  RowsSafe'
  <1>1. /\ f \in Sources /\ q.id \in Ids /\ Inserted(f, q.id) /\ Answer(u) /\ q.at = "transaction"
        /\ UNCHANGED <<copied, moved, archived, pod, builds, faults>>
        /\ past' = [past EXCEPT ![f] = Noted(q)] /\ linked' = Link(q)
    BY QueueTransactionFacts DEF RowsInv, QueueTransaction
  <1>2. /\ queue' = [queue EXCEPT ![f] = queue'[f]] /\ queue'[f] \in Task /\ queue'[f] # None
        /\ queue'[f].id = q.id /\ queue'[f].status = "queued"
        /\ \A g \in Rows : queue[g].id # q.id
    <2>1. /\ queue' = [queue EXCEPT ![f] = [id |-> q.id, status |-> "queued", next |-> 1, details |-> FALSE, queuedAt |-> clock + 1]]
          /\ queue'[f] \in Task
          /\ \A g \in Rows : queue[g].id # q.id
      BY <1>1, InsertedTyped DEF RowsInv
    <2>2. queue'[f] = [id |-> q.id, status |-> "queued", next |-> 1, details |-> FALSE, queuedAt |-> clock + 1]
      BY <1>1, <2>1 DEF RowsInv, TypeInv, TypeOK
    <2>3. queue'[f] # None
      BY <2>1, Rowed DEF RowsInv, TypeInv
    <2>4. queue'[f].id = q.id /\ queue'[f].status = "queued"
      BY <2>2
    <2>. QED  BY <2>1, <2>2, <2>3, <2>4
  <1>3. Rows' = Rows \cup {f} /\ Working' = Working /\ Rows \subseteq Sources
    BY <1>1, <1>2 DEF Rows, Working, pod, RowsInv, TypeInv, TypeOK
  <1>4. \A g \in Sources \ {f} : queue'[g] = queue[g] /\ past'[g] = past[g] /\ linked'[g] = linked[g]
    BY <1>1, <1>2 DEF RowsInv, TypeInv, TypeOK, Link
  <1>5. \A g \in Sources : /\ WorkingFor(g)' = WorkingFor(g)
                           /\ Active(g, "pending")' = Active(g, "pending") /\ Active(g, "running")' = Active(g, "running")
    BY <1>1, <1>3 DEF WorkingFor, Active, pod
  <1>6. \A g \in Rows : Executing(queue[g].id)' = Executing(queue[g].id)
    BY <1>1, <1>3, <1>4 DEF Executing, pod
  <1>7. Executing(queue[f].id)' = Executing(q.id)
    BY <1>1, <1>2, <1>3 DEF Executing, pod
  <1>8. /\ past'[f] = Noted(q)
        /\ Executing(q.id) # {} => "reused" \in past'[f]
        /\ q.existing # None => "raced" \in past'[f]
        /\ \A e \in {"overtaken", "left", "shown", "unguarded", "live"} : e \in past'[f] <=> e \in past[f]
    <2>1. past'[f] = Noted(q)
      BY <1>1 DEF RowsInv, TypeInv, TypeOK
    <2>. QED  BY <2>1 DEF Noted, When
  <1>9. UniqueIds' /\ QueuedFree' /\ ExecutedArchived'
    BY <1>1, <1>2, <1>3, <1>4, <1>6, <1>7, <1>8
       DEF RowsInv, RowsSafe, UniqueIds, QueuedFree, ExecutedArchived, Flag, Twice
  <1>10. Guarded' /\ OvertakenWorkers' /\ LiveCopyUnguarded'
    BY <1>1, <1>3, <1>4, <1>5, <1>8 DEF RowsInv, RowsSafe, Guarded, OvertakenWorkers, LiveCopyUnguarded
  <1>11. OneExecutor' /\ InProgressExecuted' /\ SourceArchived'
    BY <1>1, <1>2, <1>3, <1>4, <1>6, <1>7, <1>8 DEF RowsInv, RowsSafe, OneExecutor, InProgressExecuted, SourceArchived
  <1>12. Linked'
    <2>1. q.existing = None => linked'[f] = q.id
      BY <1>1 DEF Link, RowsInv, TypeInv, TypeOK
    <2>. QED  BY <1>1, <1>2, <1>3, <1>4, <1>8, <2>1 DEF RowsInv, RowsSafe, Linked
  <1>13. TargetHasTask'
    <2>1. RequestsSwept
      BY <1>1, AnswerSwept DEF Answer, RowsInv
    <2>2. SUFFICES ASSUME NEW g \in Sources \ Rows, g # f, "overtaken" \notin past[g]
          PROVE  /\ copied[g] \cap Tables = {} /\ moved[g] = 0
                 /\ copied[g] \cap Objects # {} =>
                      "left" \in past[g] \/ \E v \in Requests : request'[v].at = "objects" /\ request'[v].from = g
      BY <1>1, <1>3, <1>4 DEF TargetHasTask
    <2>. QED  BY <2>1, <2>2 DEF RowsInv, RowsSafe, TargetHasTask, RequestsSwept
  <1>. QED  BY <1>9, <1>10, <1>11, <1>12, <1>13 DEF RowsSafe

LEMMA RequeuedRows ==
  ASSUME RowsInv, NEW u \in Requests, QueueTransaction(u),
         NEW q, q = request[u], NEW f \in Sources, f = q.from, f \in Rows
  PROVE  RowsSafe'
  <1>1. /\ f \in Sources /\ f \in Rows /\ q.id \in Ids /\ q \in Request /\ Requeued(f, q.restart) /\ Answer(u)
        /\ q.at = "transaction" /\ q.restart \in Numbers \cup {0, None}
        /\ UNCHANGED <<copied, moved, archived, pod, builds, faults>>
        /\ past' = [past EXCEPT ![f] = Noted(q)] /\ linked' = Link(q)
    BY QueueTransactionFacts DEF RowsInv, QueueTransaction, Request
  <1>2. \/ q.restart = None /\ queue' = queue
        \/ /\ q.restart # None
           /\ queue' = [queue EXCEPT ![f] = queue'[f]]
           /\ queue'[f] \in Task /\ queue'[f].status = "queued" /\ queue'[f].id = queue[f].id
    BY <1>1, RequeuedTyped DEF RowsInv
  <1>3. /\ Rows' = Rows /\ Working' = Working /\ Rows \subseteq Sources
        /\ \A g \in Rows : queue'[g].id = queue[g].id
        /\ \A g \in Sources \ {f} : queue'[g] = queue[g]
    <2>1. \A g \in Sources \ {f} : queue'[g] = queue[g]
      BY <1>2 DEF RowsInv, TypeInv, TypeOK
    <2>2. queue'[f].id = queue[f].id /\ queue'[f] # None
      BY <1>1, <1>2, Rowed DEF RowsInv, TypeInv, Rows
    <2>. QED  BY <1>1, <2>1, <2>2 DEF Rows, Working, pod
  <1>4. \A g \in Sources \ {f} : queue'[g] = queue[g] /\ past'[g] = past[g] /\ linked'[g] = linked[g]
    BY <1>1, <1>3 DEF RowsInv, TypeInv, TypeOK, Link
  <1>5. \A g \in Sources : /\ WorkingFor(g)' = WorkingFor(g)
                           /\ Active(g, "pending")' = Active(g, "pending") /\ Active(g, "running")' = Active(g, "running")
    BY <1>1, <1>3 DEF WorkingFor, Active, pod
  <1>6. \A g \in Rows : Executing(queue[g].id)' = Executing(queue[g].id)
    BY <1>1, <1>3 DEF Executing, pod
  <1>7. /\ past[f] \ {"lost"} \subseteq past'[f]
        /\ q.restart # None /\ Executing(queue[f].id) # {} => "doubled" \in past'[f]
        /\ q.restart = None => past[f] \subseteq past'[f]
        /\ q.existing # queue[f].id => "raced" \in past'[f]
        /\ "live" \in past'[f] => "live" \in past[f]
    <2>1. past'[f] = Noted(q)
      BY <1>1 DEF RowsInv, TypeInv, TypeOK
    <2>. QED  BY <1>1, <2>1 DEF Noted, When
  <1>8. ASSUME NEW g \in Rows
        PROVE  /\ past[g] \ {"lost"} \subseteq past'[g]
               /\ \/ queue'[g] = queue[g] /\ past[g] \subseteq past'[g]
                  \/ queue'[g].status = "queued" /\ (Executing(queue[g].id) # {} => "doubled" \in past'[g])
    <2>1. CASE g = f
      BY <1>2, <1>7, <2>1
    <2>2. CASE g # f
      BY <1>3, <1>4, <2>2
    <2>. QED  BY <2>1, <2>2
  <1>. DEFINE Grown(g, E) == past[g] \cap E # {} => past'[g] \cap E # {}
  <1>9. \A g \in Rows : Grown(g, Twice) /\ Grown(g, {"shown", "uncommitted", "reused"})
                        /\ Grown(g, {"doubled", "reused", "uncommitted"})
    BY <1>8 DEF Twice
  <1>. HIDE DEF Grown
  <1>10. UniqueIds' /\ QueuedFree' /\ ExecutedArchived'
    <2>1. UniqueIds'
      BY <1>3 DEF RowsInv, RowsSafe, UniqueIds
    <2>2. QueuedFree'
      <3>. SUFFICES ASSUME NEW g \in Rows, queue'[g].status = "queued", Executing(queue[g].id) # {}
           PROVE  past'[g] \cap Twice # {}
        BY <1>3, <1>6 DEF QueuedFree, Flag
      <3>. QED  BY <1>8, <1>9 DEF RowsInv, RowsSafe, QueuedFree, Flag, Grown, Twice
    <2>3. ExecutedArchived'
      BY <1>1, <1>3, <1>6, <1>9 DEF RowsInv, RowsSafe, ExecutedArchived, Flag, Grown
    <2>. QED  BY <2>1, <2>2, <2>3
  <1>13. Guarded' /\ OvertakenWorkers' /\ LiveCopyUnguarded'
    <2>1. \A g \in Sources : /\ \A e \in {"unguarded", "overtaken"} : e \in past[g] => e \in past'[g]
                             /\ "live" \in past'[g] => "live" \in past[g]
      BY <1>4, <1>7
    <2>. QED  BY <1>1, <1>3, <1>5, <2>1 DEF RowsInv, RowsSafe, Guarded, OvertakenWorkers, LiveCopyUnguarded
  <1>14. OneExecutor' /\ InProgressExecuted' /\ SourceArchived'
    <2>1. OneExecutor'
      BY <1>3, <1>6, <1>9 DEF RowsInv, RowsSafe, OneExecutor, Grown
    <2>2. InProgressExecuted'
      BY <1>3, <1>6, <1>8 DEF RowsInv, RowsSafe, InProgressExecuted
    <2>3. SourceArchived'
      BY <1>1, <1>3, <1>8, <1>9 DEF RowsInv, RowsSafe, SourceArchived, Grown
    <2>. QED  BY <2>1, <2>2, <2>3
  <1>11. Linked'
    <2>1. queue[f].id \in Ids /\ None \notin Ids
      BY <1>1, Rowed, NoneAssumption DEF RowsInv, TypeInv, Task, Ids
    <2>2. q.existing # None => linked' = linked
      BY <1>1 DEF Link
    <2>3. q.existing = None => "raced" \in past'[f]
      BY <1>7, <2>1
    <2>. QED  BY <1>1, <1>3, <1>4, <1>7, <2>2, <2>3 DEF RowsInv, RowsSafe, Linked
  <1>12. TargetHasTask'
    <2>1. RequestsSwept
      BY <1>1, AnswerSwept DEF Answer, RowsInv
    <2>2. SUFFICES ASSUME NEW g \in Sources \ Rows, g # f, "overtaken" \notin past[g]
          PROVE  /\ copied[g] \cap Tables = {} /\ moved[g] = 0
                 /\ copied[g] \cap Objects # {} =>
                      "left" \in past[g] \/ \E v \in Requests : request'[v].at = "objects" /\ request'[v].from = g
      BY <1>1, <1>3, <1>4 DEF TargetHasTask
    <2>. QED  BY <2>1, <2>2 DEF RowsInv, RowsSafe, TargetHasTask, RequestsSwept
  <1>. QED  BY <1>10, <1>11, <1>12, <1>13, <1>14 DEF RowsSafe

(* Rollbacks and the archival by users.                                      *)
LEMMA RollbackTransactionRows ==
  ASSUME RowsInv, NEW u \in Requests, RollbackTransaction(u), NEW f \in Sources, f = request[u].from
  PROVE  RowsSafe'
  <1>1. /\ queue' = [queue EXCEPT ![f] = None] /\ copied' = [copied EXCEPT ![f] = copied[f] \ Tables]
        /\ moved' = [moved EXCEPT ![f] = 0] /\ archived' = [archived EXCEPT ![f] = {}]
        /\ Happened(f, When(WorkingFor(f) # {}, "overtaken"))
        /\ request[u].at = "delete" /\ request' = [request EXCEPT ![u] = [request[u] EXCEPT !.at = "objects"]]
        /\ UNCHANGED <<linked, clock, pod, builds, faults>>
    BY DEF RollbackTransaction
  <1>2. /\ Rows' = Rows \ {f} /\ Working' = Working /\ Rows \subseteq Sources
        /\ \A g \in Sources \ {f} : queue'[g] = queue[g] /\ copied'[g] = copied[g] /\ moved'[g] = moved[g]
                                    /\ archived'[g] = archived[g] /\ past'[g] = past[g]
    BY <1>1 DEF Rows, Working, pod, Happened, RowsInv, TypeInv, TypeOK
  <1>3. past'[f] = past[f] \cup When(WorkingFor(f) # {}, "overtaken")
    BY <1>1 DEF Happened, RowsInv, TypeInv, TypeOK
  <1>4. \A g \in Sources : /\ WorkingFor(g)' = WorkingFor(g)
                           /\ Active(g, "pending")' = Active(g, "pending") /\ Active(g, "running")' = Active(g, "running")
    BY <1>1, <1>2 DEF WorkingFor, Active, pod
  <1>5. \A g \in Rows \ {f} : Executing(queue[g].id)' = Executing(queue[g].id)
    BY <1>1, <1>2 DEF Executing, pod
  <1>6. UniqueIds' /\ QueuedFree' /\ ExecutedArchived'
    BY <1>2, <1>5 DEF RowsInv, RowsSafe, UniqueIds, QueuedFree, ExecutedArchived, Flag
  <1>7. Guarded' /\ LiveCopyUnguarded'
    BY <1>2, <1>3, <1>4 DEF RowsInv, RowsSafe, Guarded, LiveCopyUnguarded, When
  <1>8. OvertakenWorkers'
    BY <1>2, <1>3, <1>4 DEF RowsInv, RowsSafe, OvertakenWorkers, When
  <1>9. OneExecutor' /\ InProgressExecuted' /\ SourceArchived'
    BY <1>2, <1>5 DEF RowsInv, RowsSafe, OneExecutor, InProgressExecuted, SourceArchived
  <1>10. Linked'
    BY <1>1, <1>2 DEF RowsInv, RowsSafe, Linked
  <1>11. TargetHasTask'
    <2>1. request'[u].at = "objects" /\ request'[u].from = f
      <3>1. request[u] \in Request
        BY DEF RowsInv, TypeInv, TypeOK
      <3>. QED  BY <1>1, <3>1 DEF Request, RowsInv, TypeInv, TypeOK
    <2>2. RequestsSwept
      BY <1>1, AnswerSwept DEF RowsInv
    <2>3. copied'[f] \cap Tables = {} /\ moved'[f] = 0
      BY <1>1 DEF RowsInv, TypeInv, TypeOK
    <2>4. ASSUME NEW g \in Sources \ Rows, g # f, "overtaken" \notin past[g]
          PROVE  /\ copied[g] \cap Tables = {} /\ moved[g] = 0
                 /\ copied[g] \cap Objects # {} =>
                      "left" \in past[g] \/ \E v \in Requests : request'[v].at = "objects" /\ request'[v].from = g
      BY <2>2, <2>4 DEF RowsInv, RowsSafe, TargetHasTask, RequestsSwept
    <2>. QED  BY <1>2, <2>1, <2>3, <2>4 DEF TargetHasTask
  <1>. QED  BY <1>6, <1>7, <1>8, <1>9, <1>10, <1>11 DEF RowsSafe

LEMMA RollbackObjectsRows ==
  ASSUME RowsInv, NEW u \in Requests, RollbackObjects(u), NEW f \in Sources, f = request[u].from
  PROVE  RowsSafe'
  <1>1. PICK left \in SUBSET (copied[f] \cap Objects) :
          /\ copied' = [copied EXCEPT ![f] = (copied[f] \ Objects) \cup left]
          /\ Happened(f, When(left # {}, "left") \cup When(queue[f] # None, "swept"))
    BY DEF RollbackObjects
  <1>2. /\ request[u].at = "objects" /\ Answer(u)
        /\ UNCHANGED <<queue, linked, moved, archived, clock, pod, builds, faults>>
    BY DEF RollbackObjects
  <1>3. /\ Rows' = Rows /\ Working' = Working /\ Rows \subseteq Sources
        /\ \A g \in Sources \ {f} : copied'[g] = copied[g] /\ past'[g] = past[g]
    BY <1>1, <1>2 DEF Rows, Working, pod, Happened, RowsInv, TypeInv, TypeOK
  <1>4. /\ copied'[f] = (copied[f] \ Objects) \cup left
        /\ past'[f] = past[f] \cup When(left # {}, "left") \cup When(queue[f] # None, "swept")
    BY <1>1 DEF Happened, RowsInv, TypeInv, TypeOK
  <1>5. \A g \in Sources : /\ WorkingFor(g)' = WorkingFor(g) /\ Executing(queue[g].id)' = Executing(queue[g].id)
                           /\ Active(g, "pending")' = Active(g, "pending") /\ Active(g, "running")' = Active(g, "running")
    BY <1>2, <1>3 DEF WorkingFor, Executing, Active, pod
  <1>6. \A g \in Sources : /\ past[g] \subseteq past'[g]
                           /\ past'[g] \subseteq past[g] \cup {"left", "swept"}
    BY <1>3, <1>4 DEF When
  <1>7. UniqueIds' /\ QueuedFree' /\ ExecutedArchived'
    BY <1>2, <1>3, <1>5, <1>6 DEF RowsInv, RowsSafe, UniqueIds, QueuedFree, ExecutedArchived, Flag
  <1>8. Guarded' /\ LiveCopyUnguarded' /\ OvertakenWorkers'
    BY <1>3, <1>5, <1>6 DEF RowsInv, RowsSafe, Guarded, LiveCopyUnguarded, OvertakenWorkers
  <1>9. OneExecutor' /\ InProgressExecuted' /\ SourceArchived' /\ Linked'
    BY <1>2, <1>3, <1>5, <1>6 DEF RowsInv, RowsSafe, OneExecutor, InProgressExecuted, SourceArchived, Linked
  <1>10. TargetHasTask'
    <2>1. \A v \in Requests \ {u} : request'[v] = request[v]
      BY <1>2 DEF Answer, RowsInv, TypeInv, TypeOK
    <2>2. ASSUME NEW g \in Sources \ Rows, g # f, "overtaken" \notin past[g]
          PROVE  /\ copied[g] \cap Tables = {} /\ moved[g] = 0
                 /\ copied[g] \cap Objects # {} =>
                      "left" \in past[g] \/ \E v \in Requests : request'[v].at = "objects" /\ request'[v].from = g
      BY <2>1, <2>2 DEF RowsInv, RowsSafe, TargetHasTask
    <2>3. ASSUME f \notin Rows, "overtaken" \notin past[f]
          PROVE  /\ copied'[f] \cap Tables = {} /\ moved'[f] = 0
                 /\ copied'[f] \cap Objects # {} => "left" \in past'[f]
      <3>1. copied[f] \cap Tables = {} /\ moved[f] = 0
        BY <2>3 DEF RowsInv, RowsSafe, TargetHasTask
      <3>2. left # {} => "left" \in past'[f]
        BY <1>4 DEF When
      <3>3. left \subseteq copied[f]
        OBVIOUS
      <3>. QED  BY <1>2, <1>4, <3>1, <3>2, <3>3
    <2>. QED  BY <1>2, <1>3, <1>6, <2>2, <2>3 DEF TargetHasTask
  <1>. QED  BY <1>7, <1>8, <1>9, <1>10 DEF RowsSafe

LEMMA ArchivalRows ==
  ASSUME RowsInv, NEW u \in Requests, NEW f \in Sources, NEW name, NEW archive, SetPipelineArchival(u, f, name, archive)
  PROVE  RowsSafe'
  <1>1. /\ archived' = [archived EXCEPT ![f] = IF archive THEN archived[f] \cup {name} ELSE archived[f] \ {name}]
        /\ Happened(f, When(name = "from" /\ ~archive, "shown"))
        /\ request[u].at = "none" /\ Answer(u)
        /\ UNCHANGED <<queue, linked, copied, moved, clock, pod, builds, faults>>
    BY DEF SetPipelineArchival
  <1>2. /\ Rows' = Rows /\ Working' = Working /\ Rows \subseteq Sources
        /\ \A g \in Sources \ {f} : archived'[g] = archived[g] /\ past'[g] = past[g]
    BY <1>1 DEF Rows, Working, pod, Happened, RowsInv, TypeInv, TypeOK
  <1>3. /\ past'[f] = past[f] \cup When(name = "from" /\ ~archive, "shown")
        /\ archived'[f] = IF archive THEN archived[f] \cup {name} ELSE archived[f] \ {name}
    BY <1>1 DEF Happened, RowsInv, TypeInv, TypeOK
  <1>4. \A g \in Sources : /\ WorkingFor(g)' = WorkingFor(g) /\ Executing(queue[g].id)' = Executing(queue[g].id)
                           /\ Active(g, "pending")' = Active(g, "pending") /\ Active(g, "running")' = Active(g, "running")
    BY <1>1, <1>2 DEF WorkingFor, Executing, Active, pod
  <1>5. \A g \in Sources : /\ past[g] \subseteq past'[g] /\ past'[g] \subseteq past[g] \cup {"shown"}
                           /\ "from" \in archived[g] => "from" \in archived'[g] \/ "shown" \in past'[g]
    BY <1>2, <1>3 DEF When
  <1>6. UniqueIds' /\ QueuedFree' /\ ExecutedArchived'
    BY <1>1, <1>2, <1>4, <1>5 DEF RowsInv, RowsSafe, UniqueIds, QueuedFree, ExecutedArchived, Flag
  <1>7. Guarded' /\ LiveCopyUnguarded' /\ OvertakenWorkers'
    BY <1>2, <1>4, <1>5 DEF RowsInv, RowsSafe, Guarded, LiveCopyUnguarded, OvertakenWorkers
  <1>8. OneExecutor' /\ InProgressExecuted' /\ SourceArchived' /\ Linked'
    BY <1>1, <1>2, <1>4, <1>5 DEF RowsInv, RowsSafe, OneExecutor, InProgressExecuted, SourceArchived, Linked
  <1>9. TargetHasTask'
    <2>1. RequestsSwept
      BY <1>1, AnswerSwept DEF Answer, RowsInv
    <2>. QED  BY <1>1, <1>2, <1>5, <2>1 DEF RowsInv, RowsSafe, TargetHasTask, RequestsSwept
  <1>. QED  BY <1>6, <1>7, <1>8, <1>9 DEF RowsSafe

LEMMA RequestStepRows ==
  ASSUME RowsInv, NEW u \in Requests, RequestStep(u)
  PROVE  RowsSafe'
  <1>1. CASE QueueTransaction(u)
    <2>1. PICK q : q = request[u]
      OBVIOUS
    <2>2. PICK f \in Sources : f = q.from
      BY <1>1, <2>1, QueueTransactionFacts DEF RowsInv
    <2>. QED  BY <1>1, <2>1, <2>2, InsertedRows, RequeuedRows
  <1>2. CASE RollbackTransaction(u) \/ RollbackObjects(u)
    <2>1. PICK f \in Sources : f = request[u].from
      BY <1>2 DEF RollbackTransaction, RollbackObjects, RowsInv, TypeInv, RequestsReal, RequestReal
    <2>. QED  BY <1>2, <2>1, RollbackTransactionRows, RollbackObjectsRows
  <1>. QED  BY <1>1, <1>2, QuietSteps, QuietRows, ArchivalRows DEF RequestStep, RowsInv

(* The tasks that are picked.                                                *)
LEMMA PickMigrationRows ==
  ASSUME RowsInv, NEW p \in Pods, PickMigration(p)
  PROVE  RowsSafe'
  <1>1. PICK F \in SUBSET Sources : \E slot \in [F -> Free(p)] : \E committed \in BOOLEAN : Picks(p, F, slot, committed)
    BY PickMigrationFacts DEF RowsInv
  <1>2. PICK slot \in [F -> Free(p)], committed \in BOOLEAN : Picks(p, F, slot, committed)
    BY <1>1
  <1>3. UNCHANGED <<linked, copied, moved, clock, stop, builds, request>>
    BY DEF PickMigration
  <1>4. /\ \A f \in F : f \in Rows /\ queue[f].status = "queued" /\ ~Active(f, "running")
        /\ Rows \subseteq Sources
    BY <1>2 DEF Picks, Pickable, Rows
  <1>5. /\ Rows' = Rows
        /\ \A g \in Rows : queue'[g].id = queue[g].id
        /\ \A g \in Sources : ~(committed /\ g \in F) => queue'[g] = queue[g]
        /\ committed => \A g \in F : queue'[g].status = "in_progress"
    <2>1. \A g \in F : queue'[g] # None
      BY <1>2, <1>4, Rowed DEF Picks, Rows, RowsInv, TypeInv
    <2>. QED  BY <1>2, <1>4, <2>1 DEF Picks, Rows
  <1>6. \A g \in F : /\ slot[g] \in Pods \X Slots /\ slot[g] \notin Working
                     /\ worker'[slot[g]] # None
                     /\ worker'[slot[g]].id = queue[g].id /\ worker'[slot[g]].from = g
    <2>. SUFFICES ASSUME NEW g \in F
         PROVE  /\ slot[g] \in Pods \X Slots /\ slot[g] \notin Working
                /\ worker'[slot[g]] # None
                /\ worker'[slot[g]].id = queue[g].id /\ worker'[slot[g]].from = g
      OBVIOUS
    <2>1. slot[g] \in Pods \X Slots /\ slot[g] \notin Working
      BY <1>2 DEF Picks, Free, Working
    <2>2. worker'[slot[g]] = Started(g) /\ Started(g) \in Worker
      BY <1>2 DEF Picks
    <2>3. Started(g).id = queue[g].id /\ Started(g).from = g
      BY DEF Started
    <2>. QED  BY <2>1, <2>2, <2>3, Rowed DEF RowsInv, TypeInv
  <1>7. \A s \in Pods \X Slots : (\A g \in F : slot[g] # s) => worker'[s] = worker[s]
    BY <1>2 DEF Picks
  <1>8. Working' = Working \cup {slot[g] : g \in F} /\ \A s \in Working : worker'[s] = worker[s]
    BY <1>6, <1>7 DEF Working
  <1>9. /\ \A g \in Rows \ F : Executing(queue[g].id)' = Executing(queue[g].id)
        /\ \A g \in F : Executing(queue[g].id)' = Executing(queue[g].id) \cup {slot[g]}
    <2>1. \A f \in F, g \in Rows : queue[f].id = queue[g].id => f = g
      BY <1>4 DEF RowsInv, RowsSafe, UniqueIds
    <2>. QED  BY <1>4, <1>5, <1>6, <1>8, <2>1 DEF Executing
  <1>10. \A g \in Sources \ F : WorkingFor(g)' = WorkingFor(g)
    BY <1>6, <1>8 DEF WorkingFor
  <1>11. \A g \in Sources : /\ Active(g, "pending")' = Active(g, "pending")
                            /\ Active(g, "running")' = Active(g, "running")
    BY <1>3 DEF Active
  <1>12. /\ \A g \in Sources \ F : past'[g] = past[g]
         /\ \A g \in F : /\ past[g] \ {"shown"} \subseteq past'[g]
                         /\ "live" \in past'[g] => "live" \in past[g]
                         /\ ~committed => "uncommitted" \in past'[g] /\ past[g] \subseteq past'[g]
                         /\ Active(g, "pending") => "unguarded" \in past'[g]
    BY <1>2 DEF Picks, When
  <1>13. /\ \A g \in Sources : "from" \in archived[g] => "from" \in archived'[g]
         /\ committed => \A g \in F : "from" \in archived'[g]
    BY <1>2 DEF Picks, Archive, When
  <1>14. UniqueIds' /\ Linked'
    BY <1>3, <1>4, <1>5, <1>12 DEF RowsInv, RowsSafe, UniqueIds, Linked
  <1>15. QueuedFree'
    <2>. SUFFICES ASSUME NEW g \in Rows, queue'[g].status = "queued"
         PROVE  Executing(queue[g].id)' = {} \/ past'[g] \cap Twice # {}
      BY <1>5 DEF QueuedFree, Flag
    <2>1. CASE g \in F
      BY <1>5, <1>12, <2>1 DEF Twice
    <2>2. CASE g \notin F
      BY <1>4, <1>5, <1>9, <1>12, <2>2 DEF RowsInv, RowsSafe, QueuedFree, Flag
    <2>. QED  BY <2>1, <2>2
  <1>16. ExecutedArchived' /\ SourceArchived'
    <2>1. \A g \in F : "from" \in archived'[g] \/ "uncommitted" \in past'[g]
      BY <1>12, <1>13
    <2>2. ASSUME NEW g \in Rows, Executing(queue[g].id)' # {}
          PROVE  "from" \in archived'[g] \/ past'[g] \cap {"shown", "uncommitted", "reused"} # {}
      <3>1. CASE g \in F
        BY <2>1, <3>1
      <3>2. CASE g \notin F
        BY <1>4, <1>9, <1>12, <1>13, <2>2, <3>2 DEF RowsInv, RowsSafe, ExecutedArchived, Flag
      <3>. QED  BY <3>1, <3>2
    <2>3. ASSUME NEW g \in Rows, queue'[g].status \in {"in_progress", "completed"}
          PROVE  "from" \in archived'[g] \/ past'[g] \cap {"shown", "uncommitted", "reused"} # {}
      <3>1. CASE g \in F
        BY <2>1, <3>1
      <3>2. CASE g \notin F
        BY <1>4, <1>5, <1>12, <1>13, <2>3, <3>2 DEF RowsInv, RowsSafe, SourceArchived
      <3>. QED  BY <3>1, <3>2
    <2>. QED  BY <1>5, <2>2, <2>3 DEF ExecutedArchived, SourceArchived, Flag
  <1>17. Guarded'
    <2>. SUFFICES ASSUME NEW g \in Sources, WorkingFor(g)' # {}, Active(g, "pending") \/ Active(g, "running")
         PROVE  "unguarded" \in past'[g]
      BY <1>11 DEF Guarded
    <2>1. CASE g \in F
      BY <1>4, <1>12, <2>1
    <2>2. CASE g \notin F
      BY <1>10, <1>12, <2>2 DEF RowsInv, RowsSafe, Guarded
    <2>. QED  BY <2>1, <2>2
  <1>18. OvertakenWorkers' /\ LiveCopyUnguarded'
    BY <1>4, <1>5, <1>10, <1>12 DEF RowsInv, RowsSafe, OvertakenWorkers, LiveCopyUnguarded
  <1>19. OneExecutor'
    <2>. SUFFICES ASSUME NEW g \in Rows, NEW s \in Executing(queue[g].id)', NEW t \in Executing(queue[g].id)', s # t
         PROVE  past'[g] \cap {"doubled", "reused", "uncommitted"} # {}
      BY <1>5 DEF OneExecutor
    <2>1. CASE g \in F
      <3>1. Executing(queue[g].id) # {}
        BY <1>9, <2>1
      <3>2. past[g] \cap {"doubled", "reused", "uncommitted"} # {}
        BY <1>4, <2>1, <3>1 DEF RowsInv, RowsSafe, QueuedFree, Flag, Twice
      <3>. QED  BY <1>12, <2>1, <3>2
    <2>2. CASE g \notin F
      BY <1>4, <1>9, <1>12, <2>2 DEF RowsInv, RowsSafe, OneExecutor
    <2>. QED  BY <2>1, <2>2
  <1>20. InProgressExecuted'
    <2>. SUFFICES ASSUME NEW g \in Rows, queue'[g].status = "in_progress"
         PROVE  Executing(queue[g].id)' # {} \/ "lost" \in past'[g]
      BY <1>5 DEF InProgressExecuted
    <2>1. CASE g \in F
      BY <1>9, <2>1
    <2>2. CASE g \notin F
      BY <1>4, <1>5, <1>9, <1>12, <2>2 DEF RowsInv, RowsSafe, InProgressExecuted
    <2>. QED  BY <2>1, <2>2
  <1>21. TargetHasTask'
    <2>1. \A g \in Sources \ Rows : g \notin F
      BY <1>4
    <2>. QED  BY <1>3, <1>5, <1>12, <2>1 DEF RowsInv, RowsSafe, TargetHasTask
  <1>. QED  BY <1>14, <1>15, <1>16, <1>17, <1>18, <1>19, <1>20, <1>21 DEF RowsSafe

(* A stage that ends, well or not.                                           *)
StageEnds(s, f) ==
  /\ worker' = [worker EXCEPT ![s] = worker'[s]]
  /\ worker'[s] # None /\ worker'[s].from = f /\ worker'[s].id = worker[s].id
  /\ UNCHANGED <<queue, linked, clock, poll, stop, builds, request, faults>>
  /\ \A g \in Sources \ {f} :
       copied'[g] = copied[g] /\ moved'[g] = moved[g] /\ archived'[g] = archived[g] /\ past'[g] = past[g]
  /\ past[f] \subseteq past'[f] /\ past'[f] \subseteq past[f] \cup {"live"}
  /\ "live" \in past'[f] => "live" \in past[f] \/ Active(f, "pending") \/ Active(f, "running")
  /\ "from" \in archived[f] => "from" \in archived'[f]

LEMMA StageEndsRows ==
  ASSUME RowsInv, NEW s \in Working, NEW f \in Sources, f = worker[s].from, StageEnds(s, f)
  PROVE  RowsSafe'
  <1>1. s \in Pods \X Slots /\ worker \in [Pods \X Slots -> Worker \cup {None}] /\ Rows \subseteq Sources
    BY DEF RowsInv, TypeInv, TypeOK, Working, Rows
  <1>2. \A t \in Pods \X Slots : t # s => worker'[t] = worker[t]
    BY <1>1 DEF StageEnds
  <1>3. Working' = Working /\ Rows' = Rows
    BY <1>1, <1>2 DEF StageEnds, Working, Rows
  <1>4. \A g \in Sources : /\ WorkingFor(g)' = WorkingFor(g) /\ Executing(queue[g].id)' = Executing(queue[g].id)
                           /\ Active(g, "pending")' = Active(g, "pending") /\ Active(g, "running")' = Active(g, "running")
    <2>1. \A t \in Working : worker'[t].id = worker[t].id /\ worker'[t].from = worker[t].from
      BY <1>1, <1>2 DEF StageEnds, Working
    <2>. QED  BY <1>3, <2>1 DEF StageEnds, WorkingFor, Executing, Active
  <1>5. \A g \in Sources :
          /\ past[g] \subseteq past'[g] /\ past'[g] \subseteq past[g] \cup {"live"}
          /\ "from" \in archived[g] => "from" \in archived'[g]
    BY DEF StageEnds
  <1>6. s \in WorkingFor(f)
    BY DEF WorkingFor
  <1>7. UniqueIds' /\ QueuedFree' /\ ExecutedArchived'
    BY <1>1, <1>3, <1>4, <1>5 DEF StageEnds, RowsInv, RowsSafe, UniqueIds, QueuedFree, ExecutedArchived, Flag
  <1>8. Guarded' /\ OvertakenWorkers'
    BY <1>1, <1>3, <1>4, <1>5 DEF RowsInv, RowsSafe, Guarded, OvertakenWorkers
  <1>9. LiveCopyUnguarded'
    <2>1. "live" \in past'[f] => "unguarded" \in past[f]
      BY <1>6 DEF StageEnds, RowsInv, RowsSafe, Guarded, LiveCopyUnguarded
    <2>. QED  BY <1>5, <2>1 DEF StageEnds, RowsInv, RowsSafe, LiveCopyUnguarded
  <1>10. OneExecutor' /\ InProgressExecuted' /\ SourceArchived' /\ Linked'
    <2>1. queue' = queue /\ linked' = linked
      BY DEF StageEnds
    <2>2. OneExecutor'
      BY <1>1, <1>3, <1>4, <1>5, <2>1 DEF RowsInv, RowsSafe, OneExecutor
    <2>3. InProgressExecuted'
      BY <1>1, <1>3, <1>4, <1>5, <2>1 DEF RowsInv, RowsSafe, InProgressExecuted
    <2>4. SourceArchived'
      BY <1>1, <1>3, <1>5, <2>1 DEF RowsInv, RowsSafe, SourceArchived
    <2>5. Linked'
      BY <1>1, <1>3, <1>5, <2>1 DEF RowsInv, RowsSafe, Linked
    <2>. QED  BY <2>2, <2>3, <2>4, <2>5
  <1>11. TargetHasTask'
    <2>1. SUFFICES ASSUME NEW g \in Sources \ Rows, "overtaken" \notin past'[g]
          PROVE  /\ copied'[g] \cap Tables = {} /\ moved'[g] = 0
                 /\ copied'[g] \cap Objects # {} =>
                      "left" \in past'[g] \/ \E v \in Requests : request[v].at = "objects" /\ request[v].from = g
      BY <1>3 DEF TargetHasTask, StageEnds
    <2>2. g # f
      BY <1>5, <1>6, <2>1 DEF RowsInv, RowsSafe, OvertakenWorkers
    <2>. QED  BY <2>1, <2>2 DEF StageEnds, RowsInv, RowsSafe, TargetHasTask
  <1>. QED  BY <1>7, <1>8, <1>9, <1>10, <1>11 DEF RowsSafe

(* Builds that are copied while they are under way are the source's.         *)
LEMMA MigrateBuildsFacts ==
  ASSUME TypeInv, NEW f \in Sources, NEW n, MigrateBuilds(f, n)
  PROVE  /\ moved' = [moved EXCEPT ![f] = n]
         /\ \A g \in Sources \ {f} : moved'[g] = moved[g] /\ past'[g] = past[g]
         /\ past[f] \subseteq past'[f] /\ past'[f] \subseteq past[f] \cup {"live"}
         /\ "live" \in past'[f] => "live" \in past[f] \/ Active(f, "pending") \/ Active(f, "running")
  <1>1. LiveIn(f, n) \subseteq {"live"} /\ (LiveIn(f, n) # {} => Active(f, "pending") \/ Active(f, "running"))
    BY DEF LiveIn, Active, In
  <1>2. past'[f] = past[f] \cup LiveIn(f, n) /\ \A g \in Sources \ {f} : past'[g] = past[g]
    BY DEF MigrateBuilds, Happened, TypeInv, TypeOK
  <1>. QED  BY <1>1, <1>2 DEF MigrateBuilds, TypeInv, TypeOK

LEMMA ExecuteRows ==
  ASSUME RowsInv, NEW s \in Pods \X Slots, Execute(s) \/ ExecuteFails(s)
  PROVE  RowsSafe'
  <1>1. s \in Working /\ TypeInv
    BY DEF Execute, ExecuteFails, RowsInv
  <1>2. PICK f \in Sources : f = worker[s].from
    BY <1>1, WorkerTyped
  <1>3. PICK stage \in Steps : stage = Stage(worker[s])
    BY <1>1, WorkerTyped
  <1>4. PICK ok \in BOOLEAN, details \in BOOLEAN : ToUpdate(s, ok, details)
    BY DEF Execute, ExecuteFails
  <1>5. /\ worker' = [worker EXCEPT ![s] = worker'[s]]
        /\ worker'[s] # None /\ worker'[s].from = f /\ worker'[s].id = worker[s].id
    BY <1>1, <1>2, <1>4, ToUpdateFacts
  <1>6. /\ UNCHANGED <<queue, linked, clock, poll, stop, builds, request, faults>>
    BY DEF Execute, ExecuteFails
  <1>7. \A g \in Sources \ {f} : copied'[g] = copied[g]
    BY <1>1, <1>2 DEF Execute, ExecuteFails, TypeInv, TypeOK
  <1>8. /\ \A g \in Sources \ {f} : archived'[g] = archived[g]
        /\ "from" \in archived[f] => "from" \in archived'[f]
    <2>1. \/ archived' = archived
          \/ \E E \in {archived[f], archived[f] \cup {"to"}, archived[f] \ {"to"}} : archived' = [archived EXCEPT ![f] = E]
      BY <1>2, <1>3 DEF Execute, ExecuteFails, ArchivedBy
    <2>. QED  BY <1>1, <2>1 DEF TypeInv, TypeOK
  <1>9. /\ \A g \in Sources \ {f} : moved'[g] = moved[g] /\ past'[g] = past[g]
        /\ past[f] \subseteq past'[f] /\ past'[f] \subseteq past[f] \cup {"live"}
        /\ "live" \in past'[f] => "live" \in past[f] \/ Active(f, "pending") \/ Active(f, "running")
    <2>1. CASE UNCHANGED <<moved, past>>
      BY <2>1
    <2>2. CASE \E n : MigrateBuilds(f, n)
      BY <1>1, <2>2, MigrateBuildsFacts
    <2>. QED  BY <1>2, <2>1, <2>2 DEF Execute, ExecuteFails
  <1>10. StageEnds(s, f)
    BY <1>5, <1>6, <1>7, <1>8, <1>9 DEF StageEnds
  <1>. QED  BY <1>1, <1>2, <1>10, StageEndsRows

(* Goroutines end or go on, and the rows of their tasks are updated.         *)
GoroutinesGo ==
  /\ UNCHANGED <<linked, copied, moved, archived, builds, request>>
  /\ Rows' = Rows /\ \A g \in Rows : queue'[g].id = queue[g].id
  /\ Working' \subseteq Working
  /\ \A t \in Working' : worker'[t].id = worker[t].id /\ worker'[t].from = worker[t].from
  /\ \A g \in Sources : past[g] \subseteq past'[g] /\ past'[g] \subseteq past[g] \cup {"lost"}
  /\ \A g \in Rows : \/ queue'[g] = queue[g]
                     \/ queue'[g].status # "queued" /\ Executing(queue[g].id) # {}

LEMMA GoroutinesGoRows ==
  ASSUME RowsInv, GoroutinesGo, InProgressExecuted'
  PROVE  RowsSafe'
  <1>1. Rows' = Rows /\ Rows \subseteq Sources /\ \A g \in Rows : queue'[g].id = queue[g].id
    BY DEF GoroutinesGo, Rows
  <1>2. /\ \A g \in Rows : Executing(queue[g].id)' \subseteq Executing(queue[g].id)
        /\ \A g \in Sources : WorkingFor(g)' \subseteq WorkingFor(g)
    BY DEF GoroutinesGo, Executing, WorkingFor
  <1>3. \A g \in Sources : /\ Active(g, "pending")' = Active(g, "pending")
                           /\ Active(g, "running")' = Active(g, "running")
    BY DEF GoroutinesGo, Active
  <1>4. \A g \in Sources : past[g] \subseteq past'[g] /\ past'[g] \subseteq past[g] \cup {"lost"}
    BY DEF GoroutinesGo
  <1>5. UniqueIds'
    BY <1>1 DEF RowsInv, RowsSafe, UniqueIds
  <1>6. QueuedFree'
    <2>. SUFFICES ASSUME NEW g \in Rows, queue'[g].status = "queued"
         PROVE  Executing(queue[g].id)' = {} \/ past'[g] \cap Twice # {}
      BY <1>1 DEF QueuedFree, Flag
    <2>1. queue'[g] = queue[g]
      BY DEF GoroutinesGo
    <2>2. Executing(queue[g].id) = {} \/ past[g] \cap Twice # {}
      BY <2>1 DEF RowsInv, RowsSafe, QueuedFree, Flag
    <2>. QED  BY <1>1, <1>2, <1>4, <2>2
  <1>7. ExecutedArchived' /\ SourceArchived'
    <2>1. ASSUME NEW g \in Rows, Executing(queue[g].id) # {}
          PROVE  "from" \in archived'[g] \/ past'[g] \cap {"shown", "uncommitted", "reused"} # {}
      BY <1>1, <1>4, <2>1 DEF GoroutinesGo, RowsInv, RowsSafe, ExecutedArchived, Flag
    <2>2. ASSUME NEW g \in Rows, queue'[g] = queue[g], queue[g].status \in {"in_progress", "completed"}
          PROVE  "from" \in archived'[g] \/ past'[g] \cap {"shown", "uncommitted", "reused"} # {}
      BY <1>1, <1>4, <2>2 DEF GoroutinesGo, RowsInv, RowsSafe, SourceArchived
    <2>3. ExecutedArchived'
      BY <1>1, <1>2, <2>1 DEF ExecutedArchived, Flag
    <2>4. SourceArchived'
      BY <1>1, <2>1, <2>2 DEF SourceArchived, GoroutinesGo
    <2>. QED  BY <2>3, <2>4
  <1>8. Guarded' /\ OvertakenWorkers' /\ LiveCopyUnguarded'
    BY <1>1, <1>2, <1>3, <1>4 DEF RowsInv, RowsSafe, Guarded, OvertakenWorkers, LiveCopyUnguarded
  <1>9. OneExecutor'
    <2>. SUFFICES ASSUME NEW g \in Rows, NEW s \in Executing(queue[g].id)', NEW t \in Executing(queue[g].id)', s # t
         PROVE  past'[g] \cap {"doubled", "reused", "uncommitted"} # {}
      BY <1>1 DEF OneExecutor
    <2>. QED  BY <1>1, <1>2, <1>4 DEF RowsInv, RowsSafe, OneExecutor
  <1>10. Linked' /\ TargetHasTask'
    BY <1>1, <1>4 DEF GoroutinesGo, RowsInv, RowsSafe, Linked, TargetHasTask
  <1>. QED  BY <1>5, <1>6, <1>7, <1>8, <1>9, <1>10 DEF RowsSafe

LEMMA LostFacts ==
  ASSUME TypeInv, NEW S \in SUBSET Working, past' = Lost(S)
  PROVE  /\ \A g \in Sources : past[g] \subseteq past'[g] /\ past'[g] \subseteq past[g] \cup {"lost"}
         /\ \A g \in Rows : S \cap Executing(queue[g].id) # {} => "lost" \in past'[g]
  BY DEF Lost, When, Executing, Rows

(* The goroutines of a pod that ends, or one that cannot store the outcome.  *)
LEMMA LostRows ==
  ASSUME RowsInv, NEW S \in SUBSET Working, past' = Lost(S),
         worker' = [s \in Pods \X Slots |-> IF s \in S THEN None ELSE worker[s]],
         UNCHANGED <<db, builds, request>>
  PROVE  RowsSafe'
  <1>1. Working' = Working \ S /\ \A t \in Working' : worker'[t] = worker[t]
    BY DEF Working
  <1>2. Rows' = Rows /\ queue' = queue
    BY DEF Rows, db
  <1>3. GoroutinesGo
    BY <1>1, <1>2, LostFacts DEF GoroutinesGo, RowsInv, db
  <1>4. InProgressExecuted'
    <2>. SUFFICES ASSUME NEW g \in Rows, queue[g].status = "in_progress"
         PROVE  Executing(queue[g].id)' # {} \/ "lost" \in past'[g]
      BY <1>2 DEF InProgressExecuted
    <2>1. Executing(queue[g].id) # {} \/ "lost" \in past[g]
      BY DEF RowsInv, RowsSafe, InProgressExecuted
    <2>2. Executing(queue[g].id)' = Executing(queue[g].id) \ S
      BY <1>1, <1>2 DEF Executing
    <2>3. g \in Sources
      BY DEF Rows
    <2>. QED  BY <2>1, <2>2, <2>3, LostFacts DEF RowsInv
  <1>. QED  BY <1>3, <1>4, GoroutinesGoRows

LEMMA PodStepRows ==
  ASSUME RowsInv, NEW p \in Pods, PodStep(p)
  PROVE  RowsSafe'
  <1>1. CASE Restart(p)
    <2>1. Busy(p) \in SUBSET Working
      BY DEF Busy
    <2>2. worker' = [s \in Pods \X Slots |-> IF s \in Busy(p) THEN None ELSE worker[s]]
      BY <1>1 DEF Restart, Busy, Working
    <2>. QED  BY <1>1, <2>1, <2>2, LostRows DEF Restart
  <1>2. CASE Stop(p)
    BY <1>2, QuietSteps, QuietRows DEF RowsInv
  <1>. QED  BY <1>1, <1>2 DEF PodStep, Crash, Exit

LEMMA UpdateFailsRows ==
  ASSUME RowsInv, NEW s \in Pods \X Slots, UpdateFails(s)
  PROVE  RowsSafe'
  <1>1. {s} \in SUBSET Working
    BY DEF UpdateFails
  <1>2. worker' = [t \in Pods \X Slots |-> IF t \in {s} THEN None ELSE worker[t]]
    BY DEF UpdateFails, RowsInv, TypeInv, TypeOK
  <1>. QED  BY <1>1, <1>2, LostRows DEF UpdateFails

LEMMA UpdateMigrationRows ==
  ASSUME RowsInv, NEW s \in Pods \X Slots, UpdateMigration(s)
  PROVE  RowsSafe'
  <1>. DEFINE w == worker[s]
              ends == ~w.ok \/ w.next = Len(Stages)
  <1>1. s \in Working /\ w \in Worker /\ TypeInv
    BY WorkerTyped DEF UpdateMigration, RowsInv
  <1>2. /\ queue' = [f \in Sources |-> IF f \in Rows /\ queue[f].id = w.id THEN Updated(queue[f], w) ELSE queue[f]]
        /\ worker' = [worker EXCEPT ![s] = IF ends \/ stop[s[1]] THEN None ELSE [w EXCEPT !.at = "execute", !.next = w.next + 1]]
        /\ past' = IF ~ends /\ stop[s[1]] THEN Lost({s}) ELSE past
        /\ UNCHANGED <<linked, copied, moved, archived, clock, poll, stop, builds, request, faults>>
    BY DEF UpdateMigration
  <1>3. \A g \in Rows : \/ queue'[g] = queue[g] /\ queue[g].id # w.id
                        \/ /\ queue[g].id = w.id /\ queue'[g] # None /\ queue'[g].id = queue[g].id
                           /\ queue'[g].status # "queued"
                           /\ ends => queue'[g].status # "in_progress"
    <2>. SUFFICES ASSUME NEW g \in Rows
         PROVE  \/ queue'[g] = queue[g] /\ queue[g].id # w.id
                \/ /\ queue[g].id = w.id /\ queue'[g] # None /\ queue'[g].id = queue[g].id
                   /\ queue'[g].status # "queued"
                   /\ ends => queue'[g].status # "in_progress"
      OBVIOUS
    <2>1. g \in Sources
      BY DEF Rows
    <2>2. CASE queue[g].id # w.id
      BY <1>2, <2>1, <2>2
    <2>3. CASE queue[g].id = w.id
      <3>1. queue'[g] = Updated(queue[g], w)
        BY <1>2, <2>1, <2>3
      <3>2. /\ queue'[g] # None /\ queue'[g].id = queue[g].id
            /\ queue'[g].status = IF ~w.ok THEN "failed" ELSE IF w.next = Len(Stages) THEN "completed" ELSE "in_progress"
        BY <1>1, <3>1, UpdatedFacts
      <3>. QED  BY <2>3, <3>2
    <2>. QED  BY <2>2, <2>3
  <1>4. Rows' = Rows
    <2>1. \A g \in Sources : g \notin Rows => queue'[g] = None
      BY <1>2 DEF Rows
    <2>2. \A g \in Rows : queue'[g] # None
      BY <1>3 DEF Rows
    <2>. QED  BY <2>1, <2>2 DEF Rows
  <1>5. /\ \A t \in Pods \X Slots : t # s => worker'[t] = worker[t]
        /\ ~ends /\ ~stop[s[1]] => s \in Working' /\ worker'[s].id = w.id /\ worker'[s].from = w.from
        /\ ends \/ stop[s[1]] => s \notin Working'
    <2>1. ~ends => [w EXCEPT !.at = "execute", !.next = w.next + 1] \in Worker
      <3>1. w.next \in Numbers
        BY <1>1, WorkerTyped
      <3>2. ~ends => w.next + 1 \in Numbers
        BY <3>1, StagesTyped DEF Numbers
      <3>. QED  BY <1>1, <3>2 DEF Worker
    <2>2. /\ [w EXCEPT !.at = "execute", !.next = w.next + 1].id = w.id
          /\ [w EXCEPT !.at = "execute", !.next = w.next + 1].from = w.from
      BY <1>1 DEF Worker
    <2>. QED  BY <1>1, <1>2, <2>1, <2>2, Rowed DEF Working, TypeInv, TypeOK
  <1>6. Working' \subseteq Working /\ \A t \in Working' : worker'[t].id = worker[t].id /\ worker'[t].from = worker[t].from
    BY <1>1, <1>5 DEF Working
  <1>7. \A g \in Sources : past[g] \subseteq past'[g] /\ past'[g] \subseteq past[g] \cup {"lost"}
    BY <1>1, <1>2, LostFacts
  <1>8. \A g \in Rows : queue[g].id = w.id => Executing(queue[g].id) # {}
    BY <1>1 DEF Executing
  <1>9. GoroutinesGo
    BY <1>2, <1>3, <1>4, <1>6, <1>7, <1>8 DEF GoroutinesGo
  <1>10. InProgressExecuted'
    <2>. SUFFICES ASSUME NEW g \in Rows, queue'[g].status = "in_progress"
         PROVE  Executing(queue[g].id)' # {} \/ "lost" \in past'[g]
      BY <1>4 DEF InProgressExecuted
    <2>1. g \in Sources /\ queue'[g].id = queue[g].id
      BY <1>3 DEF Rows
    <2>2. CASE queue[g].id = w.id /\ ~stop[s[1]]
      BY <1>3, <1>5, <2>1, <2>2 DEF Executing
    <2>3. CASE queue[g].id = w.id /\ stop[s[1]]
      <3>1. past' = Lost({s})
        BY <1>2, <1>3, <2>3
      <3>2. {s} \cap Executing(queue[g].id) # {}
        BY <1>1, <2>3 DEF Executing
      <3>. QED  BY <1>1, <3>1, <3>2, LostFacts
    <2>4. CASE queue[g].id # w.id
      <3>1. queue'[g] = queue[g]
        BY <1>3, <2>4
      <3>2. Executing(queue[g].id) # {} \/ "lost" \in past[g]
        BY <3>1 DEF RowsInv, RowsSafe, InProgressExecuted
      <3>3. Executing(queue[g].id) \subseteq Executing(queue[g].id)'
        BY <1>5, <2>1, <2>4 DEF Executing, Working
      <3>. QED  BY <1>7, <2>1, <3>2, <3>3
    <2>. QED  BY <2>2, <2>3, <2>4
  <1>. QED  BY <1>9, <1>10, GoroutinesGoRows

(* The builds of a source change.                                            *)
BuildsGo(f) ==
  /\ UNCHANGED <<queue, linked, copied, moved, worker, request>>
  /\ \A g \in Sources \ {f} : builds'[g] = builds[g] /\ archived'[g] = archived[g] /\ past'[g] = past[g]
  /\ past[f] \subseteq past'[f] /\ past'[f] \subseteq past[f] \cup {"shown", "unguarded"}
  /\ "from" \in archived[f] => "from" \in archived'[f] \/ "shown" \in past'[f]
  /\ Active(f, "pending")' \/ Active(f, "running")' =>
       Active(f, "pending") \/ Active(f, "running") \/ WorkingFor(f) = {} \/ "unguarded" \in past'[f]

LEMMA BuildsGoRows ==
  ASSUME RowsInv, NEW f \in Sources, BuildsGo(f)
  PROVE  RowsSafe'
  <1>1. Rows' = Rows /\ Working' = Working /\ Rows \subseteq Sources
    BY DEF BuildsGo, Rows, Working
  <1>2. \A g \in Sources : WorkingFor(g)' = WorkingFor(g) /\ Executing(queue[g].id)' = Executing(queue[g].id)
    BY <1>1 DEF BuildsGo, WorkingFor, Executing
  <1>3. \A g \in Sources :
          /\ past[g] \subseteq past'[g] /\ past'[g] \subseteq past[g] \cup {"shown", "unguarded"}
          /\ "from" \in archived[g] => "from" \in archived'[g] \/ "shown" \in past'[g]
    BY DEF BuildsGo
  <1>4. \A g \in Sources \ {f} : /\ Active(g, "pending")' = Active(g, "pending")
                                 /\ Active(g, "running")' = Active(g, "running")
    BY DEF BuildsGo, Active
  <1>5. UniqueIds' /\ QueuedFree' /\ ExecutedArchived'
    BY <1>1, <1>2, <1>3 DEF BuildsGo, RowsInv, RowsSafe, UniqueIds, QueuedFree, ExecutedArchived, Flag
  <1>6. Guarded'
    <2>. SUFFICES ASSUME NEW g \in Sources, WorkingFor(g) # {}, Active(g, "pending")' \/ Active(g, "running")'
         PROVE  "unguarded" \in past'[g]
      BY <1>2 DEF Guarded
    <2>1. CASE g = f
      BY <1>3, <2>1 DEF BuildsGo, RowsInv, RowsSafe, Guarded
    <2>2. CASE g # f
      BY <1>3, <1>4, <2>2 DEF RowsInv, RowsSafe, Guarded
    <2>. QED  BY <2>1, <2>2
  <1>7. OvertakenWorkers' /\ LiveCopyUnguarded'
    BY <1>1, <1>2, <1>3 DEF RowsInv, RowsSafe, OvertakenWorkers, LiveCopyUnguarded
  <1>8. OneExecutor' /\ InProgressExecuted' /\ SourceArchived' /\ Linked'
    BY <1>1, <1>2, <1>3 DEF BuildsGo, RowsInv, RowsSafe, OneExecutor, InProgressExecuted, SourceArchived, Linked
  <1>9. TargetHasTask'
    BY <1>1, <1>3 DEF BuildsGo, RowsInv, RowsSafe, TargetHasTask
  <1>. QED  BY <1>5, <1>6, <1>7, <1>8, <1>9 DEF RowsSafe

LEMMA BuildInsertedRows ==
  ASSUME RowsInv, NEW f \in Sources, BuildInserted(f)
  PROVE  RowsSafe'
  <1>1. /\ builds' = [builds EXCEPT ![f] = Append(builds[f], "pending")]
        /\ Happened(f, When(WorkingFor(f) # {}, "unguarded"))
        /\ UNCHANGED <<db, pod, request, faults>>
    BY DEF BuildInserted
  <1>2. /\ \A g \in Sources \ {f} : builds'[g] = builds[g] /\ past'[g] = past[g]
        /\ past'[f] = past[f] \cup When(WorkingFor(f) # {}, "unguarded")
    BY <1>1 DEF Happened, RowsInv, TypeInv, TypeOK
  <1>3. BuildsGo(f)
    BY <1>1, <1>2 DEF BuildsGo, When, db, pod
  <1>. QED  BY <1>3, BuildsGoRows

LEMMA BuildStepRows ==
  ASSUME RowsInv, NEW f \in Sources, NEW n \in DOMAIN builds[f], BuildStep(f, n)
  PROVE  RowsSafe'
  <1>1. PICK from \in {"pending", "running", "upserting"}, to \in {"running", "upserting", "over"} :
          /\ BuildGoes(f, n, from, to)
          /\ from = "upserting" => to = "over"
    BY DEF BuildStep, BuildStarts, BuildEnds, UpsertComputedPipeline
  <1>2. /\ builds' = [builds EXCEPT ![f] = [builds[f] EXCEPT ![n] = to]]
        /\ builds[f][n] = from
        /\ UNCHANGED <<queue, linked, copied, moved, clock, pod, request, faults>>
    BY <1>1 DEF BuildGoes, In
  <1>3. \A g \in Sources \ {f} : builds'[g] = builds[g]
    BY <1>2 DEF RowsInv, TypeInv, TypeOK
  <1>4. builds'[f] = [builds[f] EXCEPT ![n] = to] /\ DOMAIN builds'[f] = DOMAIN builds[f]
    BY <1>2 DEF RowsInv, TypeInv, TypeOK
  <1>5. Active(f, "pending")' \/ Active(f, "running")' => Active(f, "pending") \/ Active(f, "running")
    <2>. SUFFICES ASSUME NEW k \in DOMAIN builds[f], builds'[f][k] \in {"pending", "running"}
         PROVE  \E m \in DOMAIN builds[f] : builds[f][m] \in {"pending", "running"}
      BY <1>4 DEF Active
    <2>1. CASE k = n
      <3>1. to \in {"pending", "running"}
        BY <1>4, <2>1
      <3>2. from \in {"pending", "running"}
        BY <1>1, <3>1
      <3>. QED  BY <1>2, <3>2
    <2>2. CASE k # n
      BY <1>4, <2>2
    <2>. QED  BY <2>1, <2>2
  <1>6. /\ \A g \in Sources \ {f} : archived'[g] = archived[g] /\ past'[g] = past[g]
        /\ past[f] \subseteq past'[f] /\ past'[f] \subseteq past[f] \cup {"shown", "unguarded"}
        /\ "from" \in archived[f] => "from" \in archived'[f] \/ "shown" \in past'[f]
    <2>1. CASE UNCHANGED <<archived, past>>
      BY <2>1
    <2>2. CASE UpsertComputedPipeline(f, n)
      <3>1. archived' = [archived EXCEPT ![f] = archived[f] \ {"from"}] /\ Happened(f, {"shown"})
        BY <2>2 DEF UpsertComputedPipeline
      <3>. QED  BY <3>1 DEF Happened, RowsInv, TypeInv, TypeOK
    <2>. QED  BY <2>1, <2>2 DEF BuildStep, BuildStarts, BuildEnds
  <1>7. BuildsGo(f)
    BY <1>2, <1>3, <1>5, <1>6 DEF BuildsGo, pod
  <1>. QED  BY <1>7, BuildsGoRows

LEMMA RowsStep == RowsInv /\ [Next]_vars => RowsInv'
  <1>. SUFFICES ASSUME RowsInv, [Next]_vars PROVE RowsSafe'
    BY TypeStep DEF RowsInv
  <1>1. CASE \E p \in Pods : PollStep(p) \/ PodStep(p)
    BY <1>1, QuietSteps, QuietRows, PickMigrationRows, PodStepRows DEF PollStep, RowsInv
  <1>2. CASE \E s \in Pods \X Slots : TaskStep(s)
    BY <1>2, ExecuteRows, UpdateMigrationRows, UpdateFailsRows DEF TaskStep
  <1>3. CASE \E f \in Sources : BuildInserted(f) \/ \E n \in DOMAIN builds[f] : BuildStep(f, n)
    BY <1>3, BuildInsertedRows, BuildStepRows
  <1>4. CASE UNCHANGED vars
    BY <1>4, QuietSteps, QuietRows DEF RowsInv
  <1>. QED  BY <1>1, <1>2, <1>3, <1>4, RequestStepRows DEF Next

(* Rows, goroutines, links and archival agree: the inductive invariant.      *)
THEOREM RowsAgree == Spec => []RowsInv
  BY InitType, InitRows, TypeStep, RowsStep, PTL DEF Spec, RowsInv

(* No task is executed twice at the same time but for the named exceptions.  *)
THEOREM ExecutedOnce == Spec => []OneExecutor
  BY RowsAgree, PTL DEF RowsInv, RowsSafe

(* A task in progress is executed or was abandoned by a pod.                 *)
THEOREM ProgressIsReal == Spec => []InProgressExecuted
  BY RowsAgree, PTL DEF RowsInv, RowsSafe

(* Nothing is left under the target's name without a task, unless a rollback *)
(* overtook its goroutine or could not delete the objects.                   *)
THEOREM TargetsHaveTasks == Spec => []TargetHasTask
  BY RowsAgree, PTL DEF RowsInv, RowsSafe

(* The pipeline is linked to its task unless requests raced.                 *)
THEOREM TasksLinked == Spec => []Linked
  BY RowsAgree, PTL DEF RowsInv, RowsSafe

(* The source of a task that is executed or completed stays archived unless  *)
(* something showed it.                                                      *)
THEOREM SourcesArchived == Spec => []SourceArchived
  BY RowsAgree, PTL DEF RowsInv, RowsSafe

(* Builds under way are copied only if nothing kept them from starting.      *)
THEOREM LiveCopiesUnguarded == Spec => []LiveCopyUnguarded
  BY RowsAgree, PTL DEF RowsInv, RowsSafe

-----------------------------------------------------------------------------
(* Stages                                                                    *)

(* What is stored once a stage was executed, for the moved builds, the       *)
(* copies and the past of the source, told if the details tell what failed.  *)
Reached(n, told, moves, copies, events) ==
  /\ Stages[n] = "builds" => moves >= OldBuilds - 1
  /\ OldBuilds > 1 /\ Stages[n] \in Tables => Stages[n] \in copies
  /\ OldBuilds > 1 /\ Stages[n] \in Objects =>
       Stages[n] \in copies \/ told = TRUE \/ events \cap {"restarted", "swept"} # {}

Done(f, n, told) == Reached(n, told, moved[f], copied[f], past[f])
DoneUpTo(f, m)   == \A n \in Numbers : n < m => Done(f, n, queue[f].details)
WorkDone(f, w)   == DoneUpTo(f, w.next) /\ (w.at = "update" /\ w.ok = TRUE => Done(f, w.next, w.details))

(* Goroutines belong to the task of their source, unless it was rolled back  *)
(* under them or its id was used again.                                      *)
OwnOf(f) ==
  \A s \in Working : /\ worker[s].from = f /\ worker[s].id # queue[f].id => "overtaken" \in past[f]
                     /\ worker[s].id = queue[f].id /\ worker[s].from # f => "reused" \in past[f]

(* The stages before the next one of a row, or of a goroutine, were executed *)
(* and what they stored is there.                                            *)
ProgressOf(f) ==
  past[f] \cap {"skipped", "reused"} = {} =>
    /\ DoneUpTo(f, queue[f].next)
    /\ queue[f].status = "completed" => queue[f].next = Len(Stages)
    /\ \A s \in Executing(queue[f].id) : WorkDone(f, worker[s])

(* The computed pipeline of the target was copied and hidden by the stages   *)
(* before m.                                                                 *)
HiddenBy(m, copies, hidden) ==
  \A n \in Numbers : n < m => /\ Stages[n] = "computed_tables" => "computed_tables" \in copies
                              /\ Stages[n] = "archive" => "to" \in hidden

Others == {"doubled", "reused", "uncommitted", "overtaken", "skipped"}

HiddenOf(f) ==
  past[f] \cap Others = {} =>
    /\ HiddenBy(queue[f].next, copied[f], archived[f])
    /\ queue[f].status = "completed" => queue[f].next = Len(Stages)
    /\ \A s \in Executing(queue[f].id) :
         /\ worker[s].next = queue[f].next
         /\ worker[s].at = "update" /\ worker[s].ok = TRUE => HiddenBy(worker[s].next + 1, copied[f], archived[f])

StagesSafe == \A f \in Rows : OwnOf(f) /\ ProgressOf(f)
Hidden     == \A f \in Rows : HiddenOf(f)

StagesInv == RowsInv /\ StagesSafe

(* Users do not unarchive targets.                                           *)
TargetsStayHidden == <<"to", FALSE>> \notin Archivals

LEMMA SourceKept ==
  ASSUME NEW g, moved[g] \in Nat, moved'[g] \in Nat,
         moved'[g] >= moved[g] \/ moved'[g] >= OldBuilds - 1,
         copied[g] \ Objects \subseteq copied'[g], copied[g] \subseteq copied'[g] \/ "swept" \in past'[g],
         past[g] \cap {"restarted", "swept"} \subseteq past'[g],
         NEW n, NEW told, NEW tells, told = TRUE => tells = TRUE \/ "restarted" \in past'[g],
         Done(g, n, told)
  PROVE  Reached(n, tells, moved'[g], copied'[g], past'[g])
  <1>1. OldBuilds \in Nat
    BY BuildsAssumption
  <1>2. Tables \cap Objects = {}
    BY DEF Tables, Objects
  <1>3. Stages[n] = "builds" => moved'[g] >= OldBuilds - 1
    BY <1>1 DEF Done, Reached
  <1>4. OldBuilds > 1 /\ Stages[n] \in Tables => Stages[n] \in copied'[g]
    BY <1>2 DEF Done, Reached
  <1>5. OldBuilds > 1 /\ Stages[n] \in Objects =>
          Stages[n] \in copied'[g] \/ tells = TRUE \/ past'[g] \cap {"restarted", "swept"} # {}
    BY DEF Done, Reached
  <1>. QED  BY <1>3, <1>4, <1>5 DEF Reached

(* A row that a step leaves alone.                                           *)
RowKept(g) ==
  /\ g \in Rows /\ queue'[g] = queue[g]
  /\ past[g] \cap (Others \cup {"restarted", "swept"}) \subseteq past'[g]
  /\ \A t \in Working' : \/ t \in Working /\ worker'[t] = worker[t]
                         \/ /\ worker'[t].id # queue[g].id
                            /\ worker'[t].from # g \/ "overtaken" \in past'[g]
  /\ moved'[g] = moved[g]
  /\ copied[g] \ Objects \subseteq copied'[g]
  /\ copied[g] \subseteq copied'[g] \/ "swept" \in past'[g]

LEMMA RowKeptSafe ==
  ASSUME TypeInv, NEW g \in Rows, OwnOf(g), ProgressOf(g), RowKept(g)
  PROVE  /\ OwnOf(g)' /\ ProgressOf(g)'
         /\ HiddenOf(g) /\ ("to" \in archived[g] => "to" \in archived'[g]) => HiddenOf(g)'
  <1>1. g \in Sources /\ moved[g] \in Nat /\ moved'[g] = moved[g]
    BY DEF Rows, TypeInv, TypeOK, RowKept
  <1>2. \A t \in Executing(queue[g].id)' : t \in Executing(queue[g].id) /\ worker'[t] = worker[t]
    BY DEF RowKept, Executing
  <1>3. OwnOf(g)'
    <2>. SUFFICES ASSUME NEW t \in Working'
         PROVE  /\ worker'[t].from = g /\ worker'[t].id # queue[g].id => "overtaken" \in past'[g]
                /\ worker'[t].id = queue[g].id /\ worker'[t].from # g => "reused" \in past'[g]
      BY DEF OwnOf, RowKept
    <2>1. CASE t \in Working /\ worker'[t] = worker[t]
      BY <2>1 DEF OwnOf, RowKept, Others
    <2>2. CASE worker'[t].id # queue[g].id /\ (worker'[t].from # g \/ "overtaken" \in past'[g])
      BY <2>2
    <2>. QED  BY <2>1, <2>2 DEF RowKept
  <1>4. \A n, told : Done(g, n, told) => Reached(n, told, moved'[g], copied'[g], past'[g])
    <2>. SUFFICES ASSUME NEW n, NEW told, Done(g, n, told)
         PROVE  Reached(n, told, moved'[g], copied'[g], past'[g])
      OBVIOUS
    <2>1. moved'[g] \in Nat /\ moved'[g] >= moved[g]
      BY <1>1
    <2>2. copied[g] \ Objects \subseteq copied'[g] /\ (copied[g] \subseteq copied'[g] \/ "swept" \in past'[g])
      BY DEF RowKept
    <2>3. past[g] \cap {"restarted", "swept"} \subseteq past'[g]
      BY DEF RowKept
    <2>. QED  BY <1>1, <2>1, <2>2, <2>3, SourceKept
  <1>5. ProgressOf(g)'
    <2>. SUFFICES ASSUME past'[g] \cap {"skipped", "reused"} = {}
         PROVE  /\ DoneUpTo(g, queue[g].next)'
                /\ queue[g].status = "completed" => queue[g].next = Len(Stages)
                /\ \A s \in Executing(queue[g].id)' : WorkDone(g, worker[s])'
      BY DEF ProgressOf, RowKept
    <2>1. past[g] \cap {"skipped", "reused"} = {}
      BY DEF RowKept, Others
    <2>2. DoneUpTo(g, queue[g].next)'
      BY <1>4, <2>1 DEF ProgressOf, DoneUpTo, Done, RowKept
    <2>3. ASSUME NEW s \in Executing(queue[g].id)'
          PROVE  WorkDone(g, worker[s])'
      <3>1. s \in Executing(queue[g].id) /\ worker'[s] = worker[s]
        BY <1>2
      <3>2. WorkDone(g, worker[s])
        BY <2>1, <3>1 DEF ProgressOf
      <3>. QED  BY <1>4, <3>1, <3>2 DEF WorkDone, DoneUpTo, Done, RowKept
    <2>. QED  BY <2>1, <2>2, <2>3 DEF ProgressOf
  <1>6. ASSUME HiddenOf(g), "to" \in archived[g] => "to" \in archived'[g]
        PROVE  HiddenOf(g)'
    <2>. SUFFICES ASSUME past'[g] \cap Others = {}
         PROVE  /\ HiddenBy(queue[g].next, copied'[g], archived'[g])
                /\ queue[g].status = "completed" => queue[g].next = Len(Stages)
                /\ \A s \in Executing(queue[g].id)' :
                     /\ worker'[s].next = queue[g].next
                     /\ worker'[s].at = "update" /\ worker'[s].ok = TRUE =>
                          HiddenBy(worker'[s].next + 1, copied'[g], archived'[g])
      BY DEF HiddenOf, RowKept
    <2>1. past[g] \cap Others = {}
      BY DEF RowKept
    <2>2. "computed_tables" \in copied[g] => "computed_tables" \in copied'[g]
      BY DEF RowKept, Objects
    <2>3. \A m : HiddenBy(m, copied[g], archived[g]) => HiddenBy(m, copied'[g], archived'[g])
      BY <1>6, <2>2 DEF HiddenBy
    <2>. QED  BY <1>2, <1>6, <2>1, <2>3 DEF HiddenOf
  <1>. QED  BY <1>3, <1>5, <1>6

(* Steps that leave every row they do not delete alone.                      *)
LEMMA KeptSteps ==
  ASSUME StagesInv,
         \A g \in Rows' : RowKept(g) /\ (TargetsStayHidden => ("to" \in archived[g] => "to" \in archived'[g]))
  PROVE  StagesSafe' /\ (Hidden /\ TargetsStayHidden => Hidden')
  <1>1. \A g \in Rows' : g \in Rows
    BY DEF RowKept
  <1>. QED  BY <1>1, RowKeptSafe DEF StagesInv, RowsInv, StagesSafe, Hidden

LEMMA QuietStages ==
  ASSUME StagesInv, QuietStep
  PROVE  StagesSafe' /\ (Hidden /\ TargetsStayHidden => Hidden')
  <1>1. Rows' = Rows /\ Working' = Working
    BY DEF QuietStep, Rows, Working
  <1>. QED  BY <1>1, KeptSteps DEF QuietStep, RowKept

LEMMA RollbackTransactionStages ==
  ASSUME StagesInv, NEW u \in Requests, RollbackTransaction(u), NEW f \in Sources, f = request[u].from
  PROVE  StagesSafe' /\ (Hidden /\ TargetsStayHidden => Hidden')
  <1>1. /\ queue' = [queue EXCEPT ![f] = None] /\ copied' = [copied EXCEPT ![f] = copied[f] \ Tables]
        /\ moved' = [moved EXCEPT ![f] = 0] /\ archived' = [archived EXCEPT ![f] = {}]
        /\ Happened(f, When(WorkingFor(f) # {}, "overtaken"))
        /\ UNCHANGED pod
    BY DEF RollbackTransaction
  <1>2. Rows' = Rows \ {f} /\ Working' = Working /\ Rows \subseteq Sources /\ worker' = worker
    BY <1>1 DEF Rows, Working, pod, StagesInv, RowsInv, TypeInv, TypeOK
  <1>3. \A g \in Rows' : RowKept(g) /\ archived'[g] = archived[g]
    BY <1>1, <1>2 DEF RowKept, Happened, StagesInv, RowsInv, TypeInv, TypeOK
  <1>. QED  BY <1>3, KeptSteps

LEMMA RollbackObjectsStages ==
  ASSUME StagesInv, NEW u \in Requests, RollbackObjects(u), NEW f \in Sources, f = request[u].from
  PROVE  StagesSafe' /\ (Hidden /\ TargetsStayHidden => Hidden')
  <1>1. PICK left \in SUBSET (copied[f] \cap Objects) :
          /\ copied' = [copied EXCEPT ![f] = (copied[f] \ Objects) \cup left]
          /\ Happened(f, When(left # {}, "left") \cup When(queue[f] # None, "swept"))
    BY DEF RollbackObjects
  <1>2. UNCHANGED <<queue, moved, archived, pod>>
    BY DEF RollbackObjects
  <1>3. Rows' = Rows /\ Working' = Working /\ Rows \subseteq Sources /\ worker' = worker
    BY <1>2 DEF Rows, Working, pod
  <1>4. \A g \in Sources \ {f} : copied'[g] = copied[g] /\ past'[g] = past[g]
    BY <1>1 DEF Happened, StagesInv, RowsInv, TypeInv, TypeOK
  <1>5. /\ copied'[f] = (copied[f] \ Objects) \cup left
        /\ past[f] \subseteq past'[f] /\ (f \in Rows => "swept" \in past'[f])
    BY <1>1 DEF Happened, When, Rows, StagesInv, RowsInv, TypeInv, TypeOK
  <1>6. \A g \in Rows : RowKept(g)
    <2>. SUFFICES ASSUME NEW g \in Rows PROVE RowKept(g)
      OBVIOUS
    <2>1. CASE g = f
      BY <1>2, <1>3, <1>5, <2>1 DEF RowKept
    <2>2. CASE g # f
      BY <1>2, <1>3, <1>4, <2>2 DEF RowKept
    <2>. QED  BY <2>1, <2>2
  <1>. QED  BY <1>2, <1>3, <1>6, KeptSteps

LEMMA ArchivalStages ==
  ASSUME StagesInv, NEW u \in Requests, NEW f \in Sources, NEW call \in Archivals,
         SetPipelineArchival(u, f, call[1], call[2])
  PROVE  StagesSafe' /\ (Hidden /\ TargetsStayHidden => Hidden')
  <1>1. /\ archived' = [archived EXCEPT ![f] = IF call[2] THEN archived[f] \cup {call[1]} ELSE archived[f] \ {call[1]}]
        /\ Happened(f, When(call[1] = "from" /\ ~call[2], "shown"))
        /\ UNCHANGED <<queue, copied, moved, pod>>
    BY DEF SetPipelineArchival
  <1>2. Rows' = Rows /\ Working' = Working /\ Rows \subseteq Sources /\ worker' = worker
    BY <1>1 DEF Rows, Working, pod
  <1>3. \A g \in Sources : past[g] \subseteq past'[g]
    BY <1>1 DEF Happened, When, StagesInv, RowsInv, TypeInv, TypeOK
  <1>4. \A g \in Rows : RowKept(g)
    BY <1>1, <1>2, <1>3 DEF RowKept
  <1>5. call \in {"from", "to"} \X BOOLEAN /\ call = <<call[1], call[2]>>
    BY ArchivalsAssumption
  <1>6. TargetsStayHidden => (call[1] = "to" => call[2] = TRUE)
    BY <1>5 DEF TargetsStayHidden
  <1>7. TargetsStayHidden => \A g \in Sources : "to" \in archived[g] => "to" \in archived'[g]
    BY <1>1, <1>5, <1>6 DEF StagesInv, RowsInv, TypeInv, TypeOK
  <1>. QED  BY <1>2, <1>4, <1>7, KeptSteps

(* Steps that change some rows.                                              *)
LEMMA ChangedSteps ==
  ASSUME StagesInv, NEW F,
         \A g \in Rows' \ F : RowKept(g) /\ archived'[g] = archived[g],
         \A g \in Rows' \cap F : OwnOf(g)' /\ ProgressOf(g)' /\ (Hidden => HiddenOf(g)')
  PROVE  StagesSafe' /\ (Hidden => Hidden')
  <1>1. \A g \in Rows' \ F : g \in Rows
    BY DEF RowKept
  <1>2. \A g \in Rows' \ F : OwnOf(g)' /\ ProgressOf(g)' /\ (HiddenOf(g) => HiddenOf(g)')
    BY <1>1, RowKeptSafe DEF StagesInv, RowsInv, StagesSafe
  <1>. QED  BY <1>1, <1>2 DEF StagesSafe, Hidden

LEMMA InsertedStages ==
  ASSUME StagesInv, NEW u \in Requests, QueueTransaction(u),
         NEW q, q = request[u], NEW f \in Sources, f = q.from, f \notin Rows
  PROVE  StagesSafe' /\ (Hidden => Hidden')
  <1>1. /\ q.id \in Ids /\ Inserted(f, q.id)
        /\ UNCHANGED <<copied, moved, archived, pod>>
        /\ past' = [past EXCEPT ![f] = Noted(q)]
    BY QueueTransactionFacts DEF StagesInv, RowsInv, QueueTransaction
  <1>2. /\ queue' = [queue EXCEPT ![f] = [id |-> q.id, status |-> "queued", next |-> 1, details |-> FALSE, queuedAt |-> clock + 1]]
        /\ queue'[f] \in Task
        /\ \A g \in Rows : queue[g].id # q.id
    BY <1>1, InsertedTyped DEF StagesInv, RowsInv
  <1>3. queue'[f].id = q.id /\ queue'[f].status = "queued" /\ queue'[f].next = 1
    BY <1>2 DEF StagesInv, RowsInv, TypeInv, TypeOK
  <1>4. Rows' \subseteq Rows \cup {f} /\ Working' = Working /\ worker' = worker /\ Rows \subseteq Sources
    BY <1>1, <1>2 DEF Rows, Working, pod, StagesInv, RowsInv, TypeInv, TypeOK
  <1>5. \A g \in Rows' \ {f} : RowKept(g) /\ archived'[g] = archived[g]
    BY <1>1, <1>2, <1>4 DEF RowKept, StagesInv, RowsInv, TypeInv, TypeOK
  <1>6. /\ WorkingFor(f) # {} => "overtaken" \in past'[f]
        /\ Executing(q.id) # {} => "reused" \in past'[f]
    <2>1. past'[f] = Noted(q)
      BY <1>1 DEF StagesInv, RowsInv, TypeInv, TypeOK
    <2>2. WorkingFor(f) # {} => "overtaken" \in past[f]
      BY DEF StagesInv, RowsInv, RowsSafe, OvertakenWorkers
    <2>. QED  BY <2>1, <2>2 DEF Noted, When
  <1>7. Executing(queue[f].id)' = Executing(q.id)
    BY <1>3, <1>4 DEF Executing
  <1>8. OwnOf(f)'
    BY <1>3, <1>4, <1>6 DEF OwnOf, WorkingFor, Executing
  <1>9. \A n \in Numbers : ~(n < 1)
    BY StagesTyped
  <1>10. ProgressOf(f)'
    <2>1. DoneUpTo(f, queue[f].next)'
      BY <1>3, <1>9 DEF DoneUpTo
    <2>. QED  BY <1>3, <1>6, <1>7, <2>1 DEF ProgressOf
  <1>11. HiddenOf(f)'
    <2>1. HiddenBy(queue'[f].next, copied'[f], archived'[f])
      BY <1>3, <1>9 DEF HiddenBy
    <2>. QED  BY <1>3, <1>6, <1>7, <2>1 DEF HiddenOf, Others
  <1>12. PICK F : F = {f}
    OBVIOUS
  <1>. QED  BY <1>5, <1>8, <1>10, <1>11, <1>12, ChangedSteps

LEMMA RequeuedStages ==
  ASSUME StagesInv, NEW u \in Requests, QueueTransaction(u),
         NEW q, q = request[u], NEW f \in Sources, f = q.from, f \in Rows, q.restart # None
  PROVE  StagesSafe' /\ (Hidden => Hidden')
  <1>1. /\ q \in Request /\ Requeued(f, q.restart) /\ q.restart \in Numbers \cup {0}
        /\ UNCHANGED <<copied, moved, archived, pod>>
        /\ past' = [past EXCEPT ![f] = Noted(q)]
        /\ queue[f] \in Task
    BY QueueTransactionFacts, Rowed DEF StagesInv, RowsInv, TypeInv, QueueTransaction, Request
  <1>2. PICK next \in Numbers : next = IF q.restart = 0 THEN queue[f].next ELSE q.restart
    BY <1>1 DEF Task
  <1>3. queue' = [queue EXCEPT ![f] = [queue[f] EXCEPT !.status = "queued", !.details = FALSE, !.next = next]]
    BY <1>1, <1>2 DEF Requeued
  <1>4. queue'[f].id = queue[f].id /\ queue'[f].status = "queued" /\ queue'[f].next = next
    <2>1. queue'[f] = [queue[f] EXCEPT !.status = "queued", !.details = FALSE, !.next = next]
      BY <1>3 DEF StagesInv, RowsInv, TypeInv, TypeOK
    <2>. QED  BY <1>1, <2>1 DEF Task
  <1>5. Rows' \subseteq Rows /\ Working' = Working /\ worker' = worker /\ Rows \subseteq Sources
    BY <1>1, <1>3 DEF Rows, Working, pod, StagesInv, RowsInv, TypeInv, TypeOK
  <1>6. \A g \in Rows' \ {f} : RowKept(g) /\ archived'[g] = archived[g]
    BY <1>1, <1>3, <1>5 DEF RowKept, StagesInv, RowsInv, TypeInv, TypeOK
  <1>7. /\ past[f] \ {"lost"} \subseteq past'[f] /\ "restarted" \in past'[f]
        /\ Executing(queue[f].id) # {} => "doubled" \in past'[f]
        /\ "skipped" \notin past'[f] => next <= queue[f].next
    <2>1. past'[f] = Noted(q)
      BY <1>1 DEF StagesInv, RowsInv, TypeInv, TypeOK
    <2>2. queue[f].next \in Nat /\ next \in Nat
      BY <1>1, StagesTyped DEF Task
    <2>3. past'[f] = (past[f] \ {"lost"}) \cup {"restarted"} \cup When(q.existing # queue[f].id, "raced")
                       \cup When(Executing(queue[f].id) # {}, "doubled") \cup When(q.restart > queue[f].next, "skipped")
      BY <2>1 DEF Noted
    <2>4. next > queue[f].next => q.restart > queue[f].next
      BY <1>2, <2>2
    <2>. QED  BY <2>2, <2>3, <2>4 DEF When
  <1>8. Executing(queue[f].id)' = Executing(queue[f].id)
    BY <1>4, <1>5 DEF Executing
  <1>9. OwnOf(f)'
    BY <1>4, <1>5, <1>7 DEF OwnOf, StagesInv, StagesSafe
  <1>10. \A n, told, tells : Done(f, n, told) => Reached(n, tells, moved'[f], copied'[f], past'[f])
    <2>1. moved[f] \in Nat
      BY DEF StagesInv, RowsInv, TypeInv, TypeOK
    <2>2. /\ moved'[f] \in Nat /\ moved'[f] >= moved[f]
          /\ copied[f] \ Objects \subseteq copied'[f] /\ copied[f] \subseteq copied'[f]
      BY <1>1, <2>1
    <2>3. past[f] \cap {"restarted", "swept"} \subseteq past'[f] /\ "restarted" \in past'[f]
      BY <1>7
    <2>. QED  BY <2>1, <2>2, <2>3, SourceKept
  <1>11. ProgressOf(f)'
    <2>. SUFFICES ASSUME past'[f] \cap {"skipped", "reused"} = {}
         PROVE  /\ DoneUpTo(f, queue[f].next)'
                /\ \A s \in Executing(queue[f].id) : WorkDone(f, worker[s])'
      BY <1>4, <1>8 DEF ProgressOf
    <2>1. past[f] \cap {"skipped", "reused"} = {} /\ next <= queue[f].next
      BY <1>7
    <2>2. DoneUpTo(f, queue[f].next) /\ \A s \in Executing(queue[f].id) : WorkDone(f, worker[s])
      BY <2>1 DEF StagesInv, StagesSafe, ProgressOf
    <2>3. DoneUpTo(f, queue[f].next)'
      <3>1. \A n \in Numbers : n < next => n < queue[f].next
        BY <1>1, <2>1, StagesTyped DEF Task
      <3>. QED  BY <1>4, <1>10, <2>2, <3>1 DEF DoneUpTo, Done
    <2>4. ASSUME NEW s \in Executing(queue[f].id) PROVE WorkDone(f, worker[s])'
      BY <1>5, <1>10, <2>2 DEF WorkDone, DoneUpTo, Done
    <2>. QED  BY <2>3, <2>4
  <1>12. HiddenOf(f) => HiddenOf(f)'
    <2>. SUFFICES ASSUME HiddenOf(f), past'[f] \cap Others = {}
         PROVE  /\ HiddenBy(next, copied[f], archived[f])
                /\ Executing(queue[f].id) = {}
      BY <1>1, <1>4, <1>8 DEF HiddenOf
    <2>1. past[f] \cap Others = {} /\ next <= queue[f].next /\ Executing(queue[f].id) = {}
      BY <1>7 DEF Others
    <2>2. \A n \in Numbers : n < next => n < queue[f].next
      BY <1>1, <2>1, StagesTyped DEF Task
    <2>. QED  BY <2>1, <2>2 DEF HiddenOf, HiddenBy
  <1>13. PICK F : F = {f}
    OBVIOUS
  <1>. QED  BY <1>6, <1>9, <1>11, <1>12, <1>13, ChangedSteps DEF Hidden

LEMMA RequestStepStages ==
  ASSUME StagesInv, NEW u \in Requests, RequestStep(u)
  PROVE  StagesSafe' /\ (Hidden /\ TargetsStayHidden => Hidden')
  <1>1. CASE QueueTransaction(u)
    <2>1. PICK q : q = request[u]
      OBVIOUS
    <2>2. PICK f \in Sources : f = q.from
      BY <1>1, <2>1, QueueTransactionFacts DEF StagesInv, RowsInv
    <2>3. CASE f \in Rows /\ q.restart = None
      <3>1. UNCHANGED <<queue, copied, moved, archived, pod>> /\ past' = [past EXCEPT ![f] = Noted(q)]
        BY <1>1, <2>1, <2>2, <2>3 DEF QueueTransaction, Requeued, StagesInv, RowsInv, TypeInv, TypeOK
      <3>2. Rows' = Rows /\ Working' = Working /\ worker' = worker /\ Rows \subseteq Sources
        BY <3>1 DEF Rows, Working, pod
      <3>3. past[f] \subseteq Noted(q)
        BY <2>2, <2>3 DEF Noted
      <3>4. \A g \in Sources : past[g] \subseteq past'[g]
        BY <3>1, <3>3 DEF StagesInv, RowsInv, TypeInv, TypeOK
      <3>5. \A g \in Rows : RowKept(g)
        BY <3>1, <3>2, <3>4 DEF RowKept
      <3>. QED  BY <3>1, <3>2, <3>5, KeptSteps
    <2>. QED  BY <1>1, <2>1, <2>2, <2>3, InsertedStages, RequeuedStages
  <1>2. CASE RollbackTransaction(u) \/ RollbackObjects(u)
    <2>1. PICK f \in Sources : f = request[u].from
      BY <1>2 DEF RollbackTransaction, RollbackObjects, StagesInv, RowsInv, TypeInv, RequestsReal, RequestReal
    <2>. QED  BY <1>2, <2>1, RollbackTransactionStages, RollbackObjectsStages
  <1>. QED  BY <1>1, <1>2, QuietSteps, QuietStages, ArchivalStages DEF RequestStep, StagesInv, RowsInv

LEMMA PickMigrationStages ==
  ASSUME StagesInv, NEW p \in Pods, PickMigration(p)
  PROVE  StagesSafe' /\ (Hidden /\ TargetsStayHidden => Hidden')
  <1>1. PICK F \in SUBSET Sources : \E slot \in [F -> Free(p)] : \E committed \in BOOLEAN : Picks(p, F, slot, committed)
    BY PickMigrationFacts DEF StagesInv, RowsInv
  <1>2. PICK slot \in [F -> Free(p)], committed \in BOOLEAN : Picks(p, F, slot, committed)
    BY <1>1
  <1>3. UNCHANGED <<copied, moved>>
    BY DEF PickMigration
  <1>4. /\ \A g \in F : g \in Rows /\ queue[g].status = "queued"
        /\ Rows \subseteq Sources
    BY <1>2 DEF Picks, Pickable, Rows
  <1>5. /\ Rows' = Rows
        /\ \A g \in Sources : ~(committed /\ g \in F) => queue'[g] = queue[g]
        /\ \A g \in F : /\ queue'[g].id = queue[g].id /\ queue'[g].next = queue[g].next
                        /\ queue'[g].details = queue[g].details /\ queue'[g].status # "completed"
    <2>1. \A g \in F : queue'[g] # None
      BY <1>2, <1>4, Rowed DEF Picks, Rows, StagesInv, RowsInv, TypeInv
    <2>. QED  BY <1>2, <1>4, <2>1 DEF Picks, Rows
  <1>6. \A g \in F : /\ slot[g] \notin Working
                     /\ worker'[slot[g]].id = queue[g].id /\ worker'[slot[g]].from = g
                     /\ worker'[slot[g]].next = queue[g].next /\ worker'[slot[g]].at = "execute"
    <2>. SUFFICES ASSUME NEW g \in F
         PROVE  /\ slot[g] \notin Working
                /\ worker'[slot[g]].id = queue[g].id /\ worker'[slot[g]].from = g
                /\ worker'[slot[g]].next = queue[g].next /\ worker'[slot[g]].at = "execute"
      OBVIOUS
    <2>1. slot[g] \notin Working /\ worker'[slot[g]] = Started(g)
      BY <1>2 DEF Picks, Free, Working
    <2>. QED  BY <2>1 DEF Started
  <1>7. \A s \in Working' : \/ s \in Working /\ worker'[s] = worker[s]
                            \/ \E g \in F : s = slot[g]
    BY <1>2 DEF Picks, Working
  <1>8. \A f \in F, g \in Rows : queue[f].id = queue[g].id => f = g
    BY <1>4 DEF StagesInv, RowsInv, RowsSafe, UniqueIds
  <1>9. /\ \A g \in Sources \ F : past'[g] = past[g]
        /\ \A g \in F : /\ past[g] \ {"shown"} \subseteq past'[g]
                        /\ ~committed => "uncommitted" \in past'[g]
    BY <1>2 DEF Picks, When
  <1>10. \A g \in Sources : "to" \in archived[g] => "to" \in archived'[g]
    BY <1>2 DEF Picks, Archive, When
  <1>11. ASSUME NEW g \in Rows \ F
         PROVE  RowKept(g)
    <2>1. \A s \in Working' : \/ s \in Working /\ worker'[s] = worker[s]
                              \/ worker'[s].id # queue[g].id /\ worker'[s].from # g
      BY <1>6, <1>7, <1>8
    <2>. QED  BY <1>3, <1>4, <1>5, <1>9, <2>1 DEF RowKept
  <1>12. ASSUME NEW g \in F
         PROVE  OwnOf(g)' /\ ProgressOf(g)' /\ (HiddenOf(g) => HiddenOf(g)')
    <2>1. \A s \in Working' : \/ s \in Working /\ worker'[s] = worker[s]
                              \/ s = slot[g]
                              \/ worker'[s].id # queue[g].id /\ worker'[s].from # g
      BY <1>4, <1>6, <1>7, <1>8
    <2>2. g \in Rows /\ g \in Sources
      BY <1>4
    <2>3. \A s \in Executing(queue[g].id)' : s = slot[g] \/ (s \in Executing(queue[g].id) /\ worker'[s] = worker[s])
      <3>1. queue'[g].id = queue[g].id
        BY <1>5
      <3>. QED  BY <2>1, <3>1 DEF Executing
    <2>4. OwnOf(g)'
      <3>. SUFFICES ASSUME NEW s \in Working'
           PROVE  /\ worker'[s].from = g /\ worker'[s].id # queue[g].id => "overtaken" \in past'[g]
                  /\ worker'[s].id = queue[g].id /\ worker'[s].from # g => "reused" \in past'[g]
        BY <1>5 DEF OwnOf
      <3>. QED  BY <1>6, <1>9, <2>1, <2>2 DEF StagesInv, StagesSafe, OwnOf
    <2>5. \A n, told : Done(g, n, told) => Reached(n, told, moved'[g], copied'[g], past'[g])
      <3>1. moved[g] \in Nat
        BY <2>2 DEF StagesInv, RowsInv, TypeInv, TypeOK
      <3>2. /\ moved'[g] \in Nat /\ moved'[g] >= moved[g]
            /\ copied[g] \ Objects \subseteq copied'[g] /\ copied[g] \subseteq copied'[g]
        BY <1>3, <3>1
      <3>3. past[g] \cap {"restarted", "swept"} \subseteq past'[g]
        BY <1>9
      <3>4. SUFFICES ASSUME NEW n, NEW told, Done(g, n, told)
            PROVE  Reached(n, told, moved'[g], copied'[g], past'[g])
        OBVIOUS
      <3>. QED  BY <3>1, <3>2, <3>3, <3>4, SourceKept
    <2>6. ProgressOf(g)'
      <3>. SUFFICES ASSUME past'[g] \cap {"skipped", "reused"} = {}
           PROVE  DoneUpTo(g, queue[g].next)' /\ \A s \in Executing(queue[g].id)' : WorkDone(g, worker[s])'
        BY <1>5 DEF ProgressOf
      <3>1. past[g] \cap {"skipped", "reused"} = {}
        BY <1>9
      <3>2. DoneUpTo(g, queue[g].next) /\ \A s \in Executing(queue[g].id) : WorkDone(g, worker[s])
        BY <2>2, <3>1 DEF StagesInv, StagesSafe, ProgressOf
      <3>3. DoneUpTo(g, queue[g].next)'
        BY <1>5, <2>5, <3>2 DEF DoneUpTo, Done
      <3>4. ASSUME NEW s \in Executing(queue[g].id)' PROVE WorkDone(g, worker[s])'
        <4>1. CASE s = slot[g]
          BY <1>5, <1>6, <3>3, <4>1 DEF WorkDone, DoneUpTo
        <4>2. CASE s \in Executing(queue[g].id) /\ worker'[s] = worker[s]
          BY <1>5, <2>5, <3>2, <4>2 DEF WorkDone, DoneUpTo, Done
        <4>. QED  BY <2>3, <4>1, <4>2
      <3>. QED  BY <3>3, <3>4
    <2>7. HiddenOf(g) => HiddenOf(g)'
      <3>. SUFFICES ASSUME HiddenOf(g), past'[g] \cap Others = {}
           PROVE  /\ HiddenBy(queue[g].next, copied[g], archived'[g])
                  /\ \A s \in Executing(queue[g].id)' : worker'[s].next = queue[g].next /\ worker'[s].at # "update"
        BY <1>3, <1>5 DEF HiddenOf
      <3>1. past[g] \cap Others = {}
        BY <1>9 DEF Others
      <3>2. Executing(queue[g].id) = {}
        BY <1>4, <2>2, <3>1 DEF StagesInv, RowsInv, RowsSafe, QueuedFree, Flag, Twice, Others
      <3>3. HiddenBy(queue[g].next, copied[g], archived'[g])
        BY <1>10, <2>2, <3>1 DEF HiddenOf, HiddenBy
      <3>. QED  BY <1>6, <2>3, <3>2, <3>3
    <2>. QED  BY <2>4, <2>6, <2>7
  <1>13. \A g \in Rows \ F : OwnOf(g)' /\ ProgressOf(g)' /\ (HiddenOf(g) => HiddenOf(g)')
    BY <1>4, <1>10, <1>11, RowKeptSafe DEF StagesInv, RowsInv, StagesSafe
  <1>. QED  BY <1>4, <1>5, <1>12, <1>13 DEF StagesSafe, Hidden

(* Goroutines that end unfinished, and builds, leave the rows alone.         *)
LEMMA LostStages ==
  ASSUME StagesInv, NEW S \in SUBSET Working, past' = Lost(S),
         worker' = [s \in Pods \X Slots |-> IF s \in S THEN None ELSE worker[s]],
         UNCHANGED db
  PROVE  StagesSafe' /\ (Hidden /\ TargetsStayHidden => Hidden')
  <1>1. \A t \in Working' : t \in Working /\ worker'[t] = worker[t]
    BY DEF Working
  <1>2. Rows' = Rows /\ Rows \subseteq Sources
    BY DEF Rows, db
  <1>3. \A g \in Sources : past[g] \subseteq past'[g]
    BY LostFacts DEF StagesInv, RowsInv
  <1>4. \A g \in Rows : RowKept(g)
    BY <1>1, <1>2, <1>3 DEF RowKept, db
  <1>. QED  BY <1>2, <1>4, KeptSteps DEF db

LEMMA PodStepStages ==
  ASSUME StagesInv, NEW p \in Pods, PodStep(p)
  PROVE  StagesSafe' /\ (Hidden /\ TargetsStayHidden => Hidden')
  <1>1. CASE Restart(p)
    <2>1. Busy(p) \in SUBSET Working
      BY DEF Busy
    <2>2. worker' = [s \in Pods \X Slots |-> IF s \in Busy(p) THEN None ELSE worker[s]]
      BY <1>1 DEF Restart, Busy, Working
    <2>. QED  BY <1>1, <2>1, <2>2, LostStages DEF Restart
  <1>2. CASE Stop(p)
    BY <1>2, QuietSteps, QuietStages DEF StagesInv, RowsInv
  <1>. QED  BY <1>1, <1>2 DEF PodStep, Crash, Exit

LEMMA UpdateFailsStages ==
  ASSUME StagesInv, NEW s \in Pods \X Slots, UpdateFails(s)
  PROVE  StagesSafe' /\ (Hidden /\ TargetsStayHidden => Hidden')
  <1>1. {s} \in SUBSET Working
    BY DEF UpdateFails
  <1>2. worker' = [t \in Pods \X Slots |-> IF t \in {s} THEN None ELSE worker[t]]
    BY DEF UpdateFails, StagesInv, RowsInv, TypeInv, TypeOK
  <1>. QED  BY <1>1, <1>2, LostStages DEF UpdateFails

LEMMA BuildsStages ==
  ASSUME StagesInv, NEW f \in Sources,
         BuildInserted(f) \/ \E n \in DOMAIN builds[f] : BuildStep(f, n)
  PROVE  StagesSafe' /\ (Hidden /\ TargetsStayHidden => Hidden')
  <1>1. UNCHANGED <<queue, copied, moved, worker>>
    BY DEF BuildInserted, BuildStep, BuildStarts, BuildEnds, UpsertComputedPipeline, BuildGoes, db, pod
  <1>2. archived' = archived \/ archived' = [archived EXCEPT ![f] = archived[f] \ {"from"}]
    BY DEF BuildInserted, BuildStep, BuildStarts, BuildEnds, UpsertComputedPipeline, db
  <1>3. past' = past \/ \E E : Happened(f, E)
    BY DEF BuildInserted, BuildStep, BuildStarts, BuildEnds, UpsertComputedPipeline
  <1>4. \A g \in Sources : past[g] \subseteq past'[g] /\ ("to" \in archived[g] => "to" \in archived'[g])
    BY <1>2, <1>3 DEF Happened, StagesInv, RowsInv, TypeInv, TypeOK
  <1>5. Rows' = Rows /\ Working' = Working /\ Rows \subseteq Sources
    BY <1>1 DEF Rows, Working
  <1>6. \A g \in Rows : RowKept(g)
    BY <1>1, <1>4, <1>5 DEF RowKept
  <1>. QED  BY <1>4, <1>5, <1>6, KeptSteps

(* The outcome of a stage is stored in the row of the task.                  *)
LEMMA UpdateMigrationStages ==
  ASSUME StagesInv, NEW s \in Pods \X Slots, UpdateMigration(s)
  PROVE  StagesSafe' /\ (Hidden => Hidden')
  <1>. DEFINE w == worker[s]
              ends == ~w.ok \/ w.next = Len(Stages)
              F == {f \in Rows : queue[f].id = w.id}
  <1>1. s \in Working /\ w \in Worker /\ TypeInv /\ w.at = "update"
    BY WorkerTyped DEF UpdateMigration, StagesInv, RowsInv
  <1>2. /\ queue' = [f \in Sources |-> IF f \in Rows /\ queue[f].id = w.id THEN Updated(queue[f], w) ELSE queue[f]]
        /\ worker' = [worker EXCEPT ![s] = IF ends \/ stop[s[1]] THEN None ELSE [w EXCEPT !.at = "execute", !.next = w.next + 1]]
        /\ past' = IF ~ends /\ stop[s[1]] THEN Lost({s}) ELSE past
        /\ UNCHANGED <<copied, moved, archived>>
    BY DEF UpdateMigration
  <1>3. Rows' \subseteq Rows /\ Rows \subseteq Sources
    BY <1>2 DEF Rows
  <1>4. \A g \in Sources : past[g] \subseteq past'[g]
    BY <1>1, <1>2, LostFacts
  <1>5. \A t \in Working' : \/ t \in Working /\ t # s /\ worker'[t] = worker[t]
                            \/ /\ t = s /\ ~ends /\ worker'[t].id = w.id /\ worker'[t].from = w.from
                               /\ worker'[t].next = w.next + 1 /\ worker'[t].at = "execute"
    <2>1. /\ [w EXCEPT !.at = "execute", !.next = w.next + 1].id = w.id
          /\ [w EXCEPT !.at = "execute", !.next = w.next + 1].from = w.from
          /\ [w EXCEPT !.at = "execute", !.next = w.next + 1].next = w.next + 1
          /\ [w EXCEPT !.at = "execute", !.next = w.next + 1].at = "execute"
      BY <1>1 DEF Worker
    <2>. QED  BY <1>1, <1>2, <2>1 DEF Working, TypeInv, TypeOK
  <1>6. ASSUME NEW g \in Rows' \ F
        PROVE  RowKept(g) /\ archived'[g] = archived[g]
    <2>1. g \in Rows /\ g \in Sources /\ queue[g].id # w.id /\ queue'[g] = queue[g]
      BY <1>2, <1>3
    <2>2. w.from # g \/ "overtaken" \in past'[g]
      BY <1>1, <1>4, <2>1 DEF StagesInv, StagesSafe, OwnOf
    <2>3. \A t \in Working' : \/ t \in Working /\ worker'[t] = worker[t]
                              \/ worker'[t].id # queue[g].id /\ (worker'[t].from # g \/ "overtaken" \in past'[g])
      BY <1>5, <2>1, <2>2
    <2>. QED  BY <1>2, <1>4, <2>1, <2>3 DEF RowKept
  <1>7. ASSUME NEW g \in Rows' \cap F
        PROVE  OwnOf(g)' /\ ProgressOf(g)' /\ (Hidden => HiddenOf(g)')
    <2>1. g \in Rows /\ g \in Sources /\ queue[g].id = w.id /\ s \in Executing(queue[g].id) /\ queue[g] \in Task
      BY <1>1, <1>3, Rowed DEF Executing, TypeInv
    <2>2. PICK row : row = queue'[g]
      OBVIOUS
    <2>3. /\ row.id = queue[g].id
          /\ row.status = IF ~w.ok THEN "failed" ELSE IF w.next = Len(Stages) THEN "completed" ELSE "in_progress"
          /\ row.next = IF w.ok /\ w.next # Len(Stages) THEN w.next + 1 ELSE w.next
          /\ row.details = (queue[g].details \/ w.details)
      <3>1. row = Updated(queue[g], w)
        BY <1>2, <2>1, <2>2
      <3>. QED  BY <1>1, <2>1, <3>1, UpdatedFacts
    <2>4. \A t \in Executing(queue[g].id)' :
            \/ t \in Executing(queue[g].id) /\ t # s /\ worker'[t] = worker[t]
            \/ t = s /\ ~ends /\ worker'[t].next = w.next + 1 /\ worker'[t].at = "execute"
      BY <1>5, <2>1, <2>2, <2>3 DEF Executing
    <2>5. OwnOf(g)'
      <3>. SUFFICES ASSUME NEW t \in Working'
           PROVE  /\ worker'[t].from = g /\ worker'[t].id # queue[g].id => "overtaken" \in past'[g]
                  /\ worker'[t].id = queue[g].id /\ worker'[t].from # g => "reused" \in past'[g]
        BY <2>2, <2>3 DEF OwnOf
      <3>1. t \in Working /\ worker'[t].id = worker[t].id /\ worker'[t].from = worker[t].from
        BY <1>1, <1>5
      <3>. QED  BY <1>4, <2>1, <3>1 DEF StagesInv, StagesSafe, OwnOf
    <2>6. \A n, told, tells : Done(g, n, told) /\ (told = TRUE => tells = TRUE) =>
                                Reached(n, tells, moved'[g], copied'[g], past'[g])
      <3>1. moved[g] \in Nat
        BY <1>1, <2>1 DEF TypeInv, TypeOK
      <3>2. /\ moved'[g] \in Nat /\ moved'[g] >= moved[g]
            /\ copied[g] \ Objects \subseteq copied'[g] /\ copied[g] \subseteq copied'[g]
        BY <1>2, <3>1
      <3>3. past[g] \cap {"restarted", "swept"} \subseteq past'[g]
        BY <1>4, <2>1
      <3>4. SUFFICES ASSUME NEW n, NEW told, NEW tells, Done(g, n, told), told = TRUE => tells = TRUE
            PROVE  Reached(n, tells, moved'[g], copied'[g], past'[g])
        OBVIOUS
      <3>. QED  BY <3>1, <3>2, <3>3, <3>4, SourceKept
    <2>7. ProgressOf(g)'
      <3>. SUFFICES ASSUME past'[g] \cap {"skipped", "reused"} = {}
           PROVE  /\ DoneUpTo(g, queue[g].next)'
                  /\ row.status = "completed" => row.next = Len(Stages)
                  /\ \A t \in Executing(queue[g].id)' : WorkDone(g, worker[t])'
        BY <2>2 DEF ProgressOf
      <3>1. past[g] \cap {"skipped", "reused"} = {}
        BY <1>4, <2>1
      <3>2. \A t \in Executing(queue[g].id) : WorkDone(g, worker[t])
        BY <2>1, <3>1 DEF StagesInv, StagesSafe, ProgressOf
      <3>3. queue[g].details \in BOOLEAN /\ w.details \in BOOLEAN /\ w.ok \in BOOLEAN /\ w.next \in Numbers
        BY <1>1, <2>1 DEF Task, Worker
      <3>4. /\ queue[g].details = TRUE => row.details = TRUE
            /\ w.details = TRUE => row.details = TRUE
        BY <2>3, <3>3
      <3>5. PICK m \in Numbers, ok \in BOOLEAN : m = w.next /\ ok = w.ok
        BY <3>3
      <3>6. \A n \in Numbers : n < m => Reached(n, row.details, moved'[g], copied'[g], past'[g])
        BY <2>1, <2>6, <3>2, <3>4, <3>5 DEF WorkDone, DoneUpTo
      <3>7. ok => Reached(m, row.details, moved'[g], copied'[g], past'[g])
        BY <1>1, <2>1, <2>6, <3>2, <3>4, <3>5 DEF WorkDone
      <3>8. \A n \in Numbers : n < m + 1 => n < m \/ n = m
        BY StagesTyped
      <3>10. DoneUpTo(g, queue[g].next)'
        <4>1. row.next = m \/ (row.next = m + 1 /\ ok)
          BY <2>3, <3>5
        <4>2. \A n \in Numbers : n < row.next => Reached(n, row.details, moved'[g], copied'[g], past'[g])
          BY <3>6, <3>7, <3>8, <4>1
        <4>. QED  BY <2>2, <4>2 DEF DoneUpTo, Done
      <3>9. ASSUME NEW t \in Executing(queue[g].id)' PROVE WorkDone(g, worker[t])'
        <4>1. CASE t = s /\ ~ends /\ worker'[t].next = w.next + 1 /\ worker'[t].at = "execute"
          <5>1. worker'[t].next = m + 1 /\ ok
            BY <3>5, <4>1
          <5>2. \A n \in Numbers : n < worker'[t].next => Reached(n, row.details, moved'[g], copied'[g], past'[g])
            BY <3>6, <3>7, <3>8, <5>1
          <5>. QED  BY <2>2, <4>1, <5>2 DEF WorkDone, DoneUpTo, Done
        <4>2. CASE t \in Executing(queue[g].id) /\ worker'[t] = worker[t]
          <5>1. \A n \in Numbers : n < worker[t].next => Reached(n, row.details, moved'[g], copied'[g], past'[g])
            BY <2>1, <2>6, <3>2, <3>4, <4>2 DEF WorkDone, DoneUpTo
          <5>2. worker[t].at = "update" /\ worker[t].ok = TRUE =>
                  Reached(worker[t].next, worker[t].details, moved'[g], copied'[g], past'[g])
            BY <2>1, <2>6, <3>2, <4>2 DEF WorkDone
          <5>. QED  BY <2>2, <4>2, <5>1, <5>2 DEF WorkDone, DoneUpTo, Done
        <4>. QED  BY <2>4, <4>1, <4>2
      <3>. QED  BY <2>3, <3>9, <3>10
    <2>8. ASSUME HiddenOf(g) PROVE HiddenOf(g)'
      <3>. SUFFICES ASSUME past'[g] \cap Others = {}
           PROVE  /\ HiddenBy(row.next, copied[g], archived[g])
                  /\ row.status = "completed" => row.next = Len(Stages)
                  /\ \A t \in Executing(queue[g].id)' : worker'[t].next = row.next /\ worker'[t].at # "update"
        BY <1>2, <2>2 DEF HiddenOf
      <3>1. past[g] \cap Others = {}
        BY <1>4, <2>1
      <3>2. w.next = queue[g].next /\ (w.ok => HiddenBy(w.next + 1, copied[g], archived[g]))
        <4>1. w.ok \in BOOLEAN
          BY <1>1 DEF Worker
        <4>. QED  BY <1>1, <2>1, <2>8, <3>1, <4>1 DEF HiddenOf
      <3>3. HiddenBy(row.next, copied[g], archived[g])
        <4>1. row.next = w.next \/ (row.next = w.next + 1 /\ w.ok)
          BY <2>3
        <4>. QED  BY <2>8, <3>1, <3>2, <4>1 DEF HiddenOf
      <3>4. \A t \in Executing(queue[g].id) : t = s
        BY <2>1, <3>1 DEF StagesInv, RowsInv, RowsSafe, OneExecutor, Others
      <3>. QED  BY <2>3, <2>4, <3>3, <3>4
    <2>. QED  BY <2>1, <2>5, <2>7, <2>8 DEF Hidden
  <1>. QED  BY <1>6, <1>7, ChangedSteps

(* What a stage does to its source.                                          *)
Outcome(s, f, n) ==
  \/ /\ worker'[s].ok = TRUE
     /\ Stages[n] = "builds" => moved'[f] >= OldBuilds - 1
     /\ \/ copied'[f] = Stored(f, Stages[n]) /\ archived'[f] = ArchivedBy(f, Stages[n])
        \/ Stages[n] \in Objects /\ worker'[s].details = TRUE /\ archived'[f] = archived[f]
  \/ worker'[s].ok = FALSE /\ archived[f] \subseteq archived'[f]

LEMMA ExecuteFacts ==
  ASSUME TypeInv, NEW s \in Pods \X Slots, Execute(s) \/ ExecuteFails(s),
         NEW f \in Sources, f = worker[s].from, NEW n \in Numbers, n = worker[s].next
  PROVE  /\ s \in Working /\ Working' = Working /\ queue' = queue
         /\ \A t \in Working : t # s => worker'[t] = worker[t]
         /\ worker'[s].from = f /\ worker'[s].id = worker[s].id /\ worker'[s].next = n
         /\ \A g \in Sources : past[g] \subseteq past'[g]
         /\ \A g \in Sources \ {f} : copied'[g] = copied[g] /\ moved'[g] = moved[g] /\ archived'[g] = archived[g]
         /\ copied[f] \subseteq copied'[f]
         /\ moved'[f] \in Nat /\ (moved'[f] >= moved[f] \/ moved'[f] >= OldBuilds - 1)
         /\ Outcome(s, f, n)
  <1>1. s \in Working /\ worker[s] \in Worker /\ OlderBuilds(f) \in Nat /\ Stage(worker[s]) = Stages[n]
    BY WorkerTyped DEF Execute, ExecuteFails, Stage
  <1>2. OlderBuilds(f) >= OldBuilds - 1 /\ moved[f] \in Nat
    <2>1. Len(builds[f]) >= OldBuilds /\ Len(builds[f]) \in Nat /\ OldBuilds \in Nat
      BY BuildsAssumption DEF TypeInv, TypeOK, BuildsKept
    <2>. QED  BY <2>1 DEF OlderBuilds, TypeInv, TypeOK
  <1>3. PICK ok \in BOOLEAN, details \in BOOLEAN :
          /\ ToUpdate(s, ok, details)
          /\ ok => \/ /\ copied' = [copied EXCEPT ![f] = Stored(f, Stages[n])]
                      /\ archived' = [archived EXCEPT ![f] = ArchivedBy(f, Stages[n])]
                   \/ /\ Stages[n] \in Objects /\ details
                      /\ UNCHANGED <<copied, archived>>
          /\ ok => IF Stages[n] = "builds" THEN MigrateBuilds(f, OlderBuilds(f)) ELSE UNCHANGED <<moved, past>>
          /\ ~ok => ExecuteFails(s)
    <2>1. CASE Execute(s)
      BY <1>1, <2>1 DEF Execute
    <2>2. CASE ExecuteFails(s)
      BY <2>2 DEF ExecuteFails
    <2>. QED  BY <2>1, <2>2
  <1>4. /\ worker' = [worker EXCEPT ![s] = worker'[s]] /\ worker'[s] # None
        /\ worker'[s].from = f /\ worker'[s].id = worker[s].id /\ worker'[s].next = n
        /\ worker'[s].ok = ok /\ worker'[s].details = (worker[s].details \/ details)
    BY <1>1, <1>3, ToUpdateFacts
  <1>5. Working' = Working /\ \A t \in Working : t # s => worker'[t] = worker[t]
    BY <1>1, <1>4 DEF Working, TypeInv, TypeOK
  <1>6. queue' = queue
    BY DEF Execute, ExecuteFails
  <1>7. /\ \A g \in Sources : past[g] \subseteq past'[g]
        /\ \A g \in Sources \ {f} : moved'[g] = moved[g]
        /\ moved'[f] \in Nat /\ (moved'[f] >= moved[f] \/ moved'[f] >= OldBuilds - 1)
        /\ ok /\ Stages[n] = "builds" => moved'[f] >= OldBuilds - 1
    <2>1. CASE ok /\ Stages[n] = "builds"
      <3>1. moved' = [moved EXCEPT ![f] = OlderBuilds(f)] /\ \A g \in Sources : past[g] \subseteq past'[g]
        BY <1>3, <2>1, MigrateBuildsFacts
      <3>. QED  BY <1>1, <1>2, <3>1 DEF TypeInv, TypeOK
    <2>2. CASE UNCHANGED <<moved, past>> /\ ~(ok /\ Stages[n] = "builds")
      BY <1>2, <2>2
    <2>3. CASE ~ok /\ \E k \in moved[f]..OlderBuilds(f) : MigrateBuilds(f, k)
      <3>1. PICK k \in moved[f]..OlderBuilds(f) : MigrateBuilds(f, k)
        BY <2>3
      <3>2. moved' = [moved EXCEPT ![f] = k] /\ \A g \in Sources : past[g] \subseteq past'[g]
        BY <3>1, MigrateBuildsFacts
      <3>. QED  BY <1>1, <1>2, <2>3, <3>2 DEF TypeInv, TypeOK
    <2>4. ~ok => UNCHANGED <<moved, past>> \/ \E k \in moved[f]..OlderBuilds(f) : MigrateBuilds(f, k)
      BY <1>3 DEF ExecuteFails
    <2>. QED  BY <1>3, <2>1, <2>2, <2>3, <2>4
  <1>8. /\ \A g \in Sources \ {f} : copied'[g] = copied[g] /\ archived'[g] = archived[g]
        /\ copied[f] \subseteq copied'[f]
        /\ ok => \/ copied'[f] = Stored(f, Stages[n]) /\ archived'[f] = ArchivedBy(f, Stages[n])
                 \/ Stages[n] \in Objects /\ details /\ archived'[f] = archived[f]
        /\ ~ok => archived[f] \subseteq archived'[f]
    <2>1. copied[f] \subseteq Stored(f, Stages[n])
      BY DEF Stored
    <2>2. CASE ok
      BY <1>3, <2>1, <2>2 DEF TypeInv, TypeOK
    <2>3. CASE ~ok
      <3>1. copied' = copied \/ copied' = [copied EXCEPT ![f] = Stored(f, Stages[n])]
        BY <1>1, <1>3, <2>3 DEF ExecuteFails
      <3>2. archived' = archived \/ \E E : archived' = [archived EXCEPT ![f] = E] /\ archived[f] \subseteq E
        BY <1>1, <1>3, <2>3 DEF ExecuteFails
      <3>. QED  BY <2>1, <2>3, <3>1, <3>2 DEF TypeInv, TypeOK
    <2>. QED  BY <2>2, <2>3
  <1>9. CASE ok
    BY <1>1, <1>3, <1>4, <1>5, <1>6, <1>7, <1>8, <1>9 DEF Outcome
  <1>10. CASE ~ok
    BY <1>1, <1>3, <1>4, <1>5, <1>6, <1>7, <1>8, <1>10 DEF Outcome
  <1>. QED  BY <1>9, <1>10

(* What a stage needs was stored by the stages before it.                    *)
LEMMA StageStores ==
  ASSUME TypeInv, NEW f \in Sources, NEW n \in Numbers, OldBuilds > 1, Stages[n] \in Tables \cup Objects,
         \A k \in Numbers : k < n => \E told : Done(f, k, told)
  PROVE  Stages[n] \in Stored(f, Stages[n])
  <1>. SUFFICES ASSUME NEW stage \in Needs[Stages[n]]
       PROVE  Has(f, stage)
    BY DEF Stored
  <1>1. stage \in {"builds", "releases", "release_logs", "build_logs", "computed_tables"} /\ Stages[n] \in Steps /\ stage # "computed_tables"
    BY StagesTyped DEF Needs, Tables, Objects, Steps
  <1>2. PICK k \in 1..(n - 1) : Stages[k] = stage
    BY StagesAssumption
  <1>3. k \in Numbers /\ k < n
    BY <1>2, StagesTyped DEF Numbers
  <1>4. PICK told : Reached(k, told, moved[f], copied[f], past[f])
    BY <1>3 DEF Done
  <1>5. OldBuilds \in Nat /\ moved[f] \in Nat
    BY BuildsAssumption DEF TypeInv, TypeOK
  <1>6. CASE stage = "builds"
    BY <1>2, <1>4, <1>5, <1>6 DEF Reached, Has
  <1>7. CASE stage # "builds"
    BY <1>1, <1>2, <1>4, <1>7 DEF Reached, Has, Tables
  <1>. QED  BY <1>6, <1>7

(* Hiding the target takes the pipeline that was copied before.              *)
LEMMA StageHides ==
  ASSUME NEW f \in Sources, NEW n \in Numbers, HiddenBy(n, copied[f], archived[f])
  PROVE  /\ "to" \in ArchivedBy(f, Stages[n]) \/ Stages[n] # "archive"
         /\ HiddenBy(n, Stored(f, Stages[n]), ArchivedBy(f, Stages[n]))
         /\ Stages[n] = "computed_tables" => "computed_tables" \in Stored(f, Stages[n])
  <1>1. ASSUME NEW k \in Numbers, Stages[k] = "archive"
        PROVE  \E m \in Numbers : m < k /\ Stages[m] = "computed_tables"
    <2>1. "computed_tables" \in Needs[Stages[k]]
      BY <1>1 DEF Needs, Steps
    <2>2. PICK m \in 1..(k - 1) : Stages[m] = "computed_tables"
      BY <2>1, StagesAssumption
    <2>. QED  BY <2>2, StagesTyped DEF Numbers
  <1>2. Stages[n] = "archive" => "computed_tables" \in copied[f]
    BY <1>1 DEF HiddenBy
  <1>3. copied[f] \subseteq Stored(f, Stages[n])
    BY DEF Stored
  <1>4. ASSUME NEW k \in Numbers, k < n, Stages[k] = "archive"
        PROVE  "to" \in ArchivedBy(f, Stages[n])
    <2>1. PICK m \in Numbers : m < k /\ Stages[m] = "computed_tables"
      BY <1>1, <1>4
    <2>2. Stages[n] # "computed_tables"
      <3>1. m # n
        BY <1>4, <2>1, StagesTyped
      <3>. QED  BY <2>1, <3>1, StagesAssumption
    <2>3. "to" \in archived[f]
      BY <1>4 DEF HiddenBy
    <2>4. archived[f] \subseteq ArchivedBy(f, Stages[n])
      <3>1. CASE Stages[n] = "archive" /\ "computed_tables" \in copied[f]
        BY <2>2, <3>1 DEF ArchivedBy
      <3>2. CASE ~(Stages[n] = "archive" /\ "computed_tables" \in copied[f])
        BY <2>2, <3>2 DEF ArchivedBy
      <3>. QED  BY <3>1, <3>2
    <2>. QED  BY <2>3, <2>4
  <1>5. Stages[n] = "archive" => "to" \in ArchivedBy(f, Stages[n])
    <2>. SUFFICES ASSUME Stages[n] = "archive", "computed_tables" \in copied[f]
         PROVE  "to" \in ArchivedBy(f, Stages[n])
      BY <1>2
    <2>1. ArchivedBy(f, Stages[n]) = archived[f] \cup {"to"}
      BY DEF ArchivedBy
    <2>. QED  BY <2>1
  <1>6. Stages[n] = "computed_tables" => "computed_tables" \in Stored(f, Stages[n])
    <2>. SUFFICES ASSUME Stages[n] = "computed_tables" PROVE "computed_tables" \in Stored(f, "computed_tables")
      OBVIOUS
    <2>1. Needs["computed_tables"] = {} /\ "computed_tables" \in Tables
      BY DEF Needs, Steps, Tables
    <2>. QED  BY <2>1 DEF Stored
  <1>7. HiddenBy(n, Stored(f, Stages[n]), ArchivedBy(f, Stages[n]))
    BY <1>3, <1>4 DEF HiddenBy
  <1>. QED  BY <1>5, <1>6, <1>7

LEMMA ExecuteStages ==
  ASSUME StagesInv, NEW s \in Pods \X Slots, Execute(s) \/ ExecuteFails(s)
  PROVE  StagesSafe' /\ (Hidden => Hidden')
  <1>1. s \in Working /\ TypeInv
    BY DEF Execute, ExecuteFails, StagesInv, RowsInv
  <1>2. PICK f \in Sources, n \in Numbers : f = worker[s].from /\ n = worker[s].next
    BY <1>1, WorkerTyped
  <1>3. /\ Working' = Working /\ queue' = queue
        /\ \A t \in Working : t # s => worker'[t] = worker[t]
        /\ worker'[s].from = f /\ worker'[s].id = worker[s].id /\ worker'[s].next = n
        /\ \A g \in Sources : past[g] \subseteq past'[g]
        /\ \A g \in Sources \ {f} : copied'[g] = copied[g] /\ moved'[g] = moved[g] /\ archived'[g] = archived[g]
        /\ copied[f] \subseteq copied'[f]
        /\ moved'[f] \in Nat /\ (moved'[f] >= moved[f] \/ moved'[f] >= OldBuilds - 1)
    BY <1>1, <1>2, ExecuteFacts
  <1>4. \/ /\ worker'[s].ok = TRUE
           /\ Stages[n] = "builds" => moved'[f] >= OldBuilds - 1
           /\ \/ copied'[f] = Stored(f, Stages[n]) /\ archived'[f] = ArchivedBy(f, Stages[n])
              \/ Stages[n] \in Objects /\ worker'[s].details = TRUE /\ archived'[f] = archived[f]
        \/ worker'[s].ok = FALSE /\ archived[f] \subseteq archived'[f]
    <2>1. Outcome(s, f, n)
      BY <1>1, <1>2, ExecuteFacts
    <2>. QED  BY <2>1 DEF Outcome
  <1>5. Rows' = Rows /\ Rows \subseteq Sources /\ \A g \in Rows : Executing(queue[g].id)' = Executing(queue[g].id)
    BY <1>1, <1>3 DEF Rows, Executing
  <1>6. ASSUME NEW g \in Rows PROVE OwnOf(g)'
    <2>. SUFFICES ASSUME NEW t \in Working
         PROVE  /\ worker'[t].from = g /\ worker'[t].id # queue[g].id => "overtaken" \in past'[g]
                /\ worker'[t].id = queue[g].id /\ worker'[t].from # g => "reused" \in past'[g]
      BY <1>3 DEF OwnOf
    <2>1. worker'[t].id = worker[t].id /\ worker'[t].from = worker[t].from
      BY <1>2, <1>3
    <2>. QED  BY <1>3, <1>5, <2>1 DEF StagesInv, StagesSafe, OwnOf
  <1>7. ASSUME NEW g \in Rows, g # f, s \in Executing(queue[g].id)
        PROVE  ProgressOf(g)' /\ HiddenOf(g)'
    <2>1. worker[s].id = queue[g].id /\ worker[s].from # g
      BY <1>2, <1>7 DEF Executing
    <2>2. "reused" \in past'[g]
      BY <1>1, <1>3, <1>5, <2>1 DEF StagesInv, StagesSafe, OwnOf
    <2>. QED  BY <2>2 DEF ProgressOf, HiddenOf, Others
  <1>8. ASSUME NEW g \in Rows, g # f, s \notin Executing(queue[g].id)
        PROVE  ProgressOf(g)' /\ (HiddenOf(g) => HiddenOf(g)')
    <2>1. worker'[s].id # queue[g].id
      BY <1>1, <1>3, <1>8 DEF Executing
    <2>2. RowKept(g)
      BY <1>3, <1>5, <1>8, <2>1 DEF RowKept
    <2>3. archived'[g] = archived[g]
      BY <1>3, <1>5, <1>8
    <2>. QED  BY <1>1, <2>2, <2>3, RowKeptSafe DEF StagesInv, StagesSafe
  <1>9. ASSUME f \in Rows PROVE ProgressOf(f)'
    <2>. SUFFICES ASSUME past'[f] \cap {"skipped", "reused"} = {}
         PROVE  /\ DoneUpTo(f, queue[f].next)'
                /\ queue[f].status = "completed" => queue[f].next = Len(Stages)
                /\ \A t \in Executing(queue[f].id) : WorkDone(f, worker[t])'
      BY <1>3, <1>5, <1>9 DEF ProgressOf
    <2>1. \A k, told : Done(f, k, told) => Reached(k, told, moved'[f], copied'[f], past'[f])
      <3>1. moved[f] \in Nat
        BY <1>1 DEF TypeInv, TypeOK
      <3>2. copied[f] \ Objects \subseteq copied'[f]
        BY <1>3
      <3>3. past[f] \cap {"restarted", "swept"} \subseteq past'[f]
        BY <1>3
      <3>4. SUFFICES ASSUME NEW k, NEW told, Done(f, k, told)
            PROVE  Reached(k, told, moved'[f], copied'[f], past'[f])
        OBVIOUS
      <3>. QED  BY <1>3, <3>1, <3>2, <3>3, <3>4, SourceKept
    <2>2. past[f] \cap {"skipped", "reused"} = {}
      BY <1>3
    <2>3. /\ DoneUpTo(f, queue[f].next)
          /\ queue[f].status = "completed" => queue[f].next = Len(Stages)
          /\ \A t \in Executing(queue[f].id) : WorkDone(f, worker[t])
      BY <1>9, <2>2 DEF StagesInv, StagesSafe, ProgressOf
    <2>4. DoneUpTo(f, queue[f].next)'
      BY <1>3, <2>1, <2>3 DEF DoneUpTo, Done
    <2>5. ASSUME NEW t \in Executing(queue[f].id), t # s PROVE WorkDone(f, worker[t])'
      <3>1. worker'[t] = worker[t]
        BY <1>3, <2>5 DEF Executing
      <3>. QED  BY <1>3, <2>1, <2>3, <2>5, <3>1 DEF WorkDone, DoneUpTo, Done
    <2>6. ASSUME s \in Executing(queue[f].id) PROVE WorkDone(f, worker[s])'
      <3>1. \A k \in Numbers : k < n => Done(f, k, queue[f].details)
        BY <1>2, <2>3, <2>6 DEF WorkDone, DoneUpTo
      <3>2. \A k \in Numbers : k < n => Reached(k, queue[f].details, moved'[f], copied'[f], past'[f])
        BY <2>1, <3>1
      <3>3. ASSUME worker'[s].ok = TRUE PROVE Reached(n, worker'[s].details, moved'[f], copied'[f], past'[f])
        <4>1. OldBuilds > 1 /\ Stages[n] \in Tables \cup Objects => Stages[n] \in Stored(f, Stages[n])
          BY <1>1, <3>1, StageStores
        <4>2. Tables \cap Objects = {}
          BY DEF Tables, Objects
        <4>. QED  BY <1>4, <3>3, <4>1, <4>2 DEF Reached
      <3>. QED  BY <1>3, <3>2, <3>3 DEF WorkDone, DoneUpTo, Done
    <2>. QED  BY <2>3, <2>4, <2>5, <2>6
  <1>10. ASSUME f \in Rows, HiddenOf(f) PROVE HiddenOf(f)'
    <2>. SUFFICES ASSUME past'[f] \cap Others = {}
         PROVE  /\ HiddenBy(queue[f].next, copied'[f], archived'[f])
                /\ queue[f].status = "completed" => queue[f].next = Len(Stages)
                /\ \A t \in Executing(queue[f].id) :
                     /\ worker'[t].next = queue[f].next
                     /\ worker'[t].ok = TRUE => HiddenBy(worker'[t].next + 1, copied'[f], archived'[f])
      BY <1>3, <1>5, <1>10 DEF HiddenOf
    <2>1. past[f] \cap Others = {}
      BY <1>3
    <2>2. s \in Executing(queue[f].id)
      BY <1>1, <1>2, <1>10, <2>1 DEF StagesInv, StagesSafe, OwnOf, Executing, Others
    <2>3. \A t \in Executing(queue[f].id) : t = s
      BY <1>10, <2>1, <2>2 DEF StagesInv, RowsInv, RowsSafe, OneExecutor, Others
    <2>4. n = queue[f].next /\ HiddenBy(n, copied[f], archived[f])
          /\ (queue[f].status = "completed" => queue[f].next = Len(Stages))
      BY <1>2, <1>10, <2>1, <2>2 DEF HiddenOf
    <2>5. HiddenBy(n, copied'[f], archived'[f])
      <3>1. CASE copied'[f] = Stored(f, Stages[n]) /\ archived'[f] = ArchivedBy(f, Stages[n])
        BY <2>4, <3>1, StageHides
      <3>2. CASE archived[f] \subseteq archived'[f]
        BY <1>3, <2>4, <3>2 DEF HiddenBy
      <3>. QED  BY <1>4, <3>1, <3>2
    <2>6. ASSUME worker'[s].ok = TRUE PROVE HiddenBy(n + 1, copied'[f], archived'[f])
      <3>1. \A k \in Numbers : k < n + 1 => k < n \/ k = n
        BY StagesTyped
      <3>2. /\ Stages[n] = "computed_tables" => "computed_tables" \in copied'[f]
            /\ Stages[n] = "archive" => "to" \in archived'[f]
        BY <1>4, <2>4, <2>6, StageHides DEF Objects
      <3>. QED  BY <2>5, <3>1, <3>2 DEF HiddenBy
    <2>. QED  BY <1>3, <2>3, <2>4, <2>5, <2>6
  <1>11. \A g \in Rows : OwnOf(g)' /\ ProgressOf(g)' /\ (HiddenOf(g) => HiddenOf(g)')
    BY <1>6, <1>7, <1>8, <1>9, <1>10
  <1>. QED  BY <1>5, <1>11 DEF StagesSafe, Hidden

LEMMA StagesStep ==
  ASSUME StagesInv, [Next]_vars
  PROVE  StagesSafe' /\ (Hidden /\ TargetsStayHidden => Hidden')
  <1>1. CASE \E p \in Pods : PollStep(p) \/ PodStep(p)
    BY <1>1, QuietSteps, QuietStages, PickMigrationStages, PodStepStages DEF PollStep, StagesInv, RowsInv
  <1>2. CASE \E s \in Pods \X Slots : TaskStep(s)
    BY <1>2, ExecuteStages, UpdateMigrationStages, UpdateFailsStages DEF TaskStep
  <1>3. CASE \E f \in Sources : BuildInserted(f) \/ \E n \in DOMAIN builds[f] : BuildStep(f, n)
    BY <1>3, BuildsStages
  <1>4. CASE UNCHANGED vars
    BY <1>4, QuietSteps, QuietStages DEF StagesInv, RowsInv
  <1>. QED  BY <1>1, <1>2, <1>3, <1>4, RequestStepStages DEF Next

LEMMA InitStages == Init => StagesSafe /\ Hidden
  BY DEF Init, Rows, StagesSafe, Hidden

LEMMA CompletedStages ==
  ASSUME StagesInv
  PROVE  CompletedIsComplete
  <1>. SUFFICES ASSUME NEW f \in Rows, queue[f].status = "completed", past[f] \cap {"skipped", "reused"} = {},
                       NEW n \in Numbers
       PROVE  /\ Stages[n] = "builds" => moved[f] >= OldBuilds - 1
              /\ OldBuilds > 1 /\ Stages[n] \in Tables => Stages[n] \in copied[f]
              /\ OldBuilds > 1 /\ Stages[n] \in Objects =>
                   Stages[n] \in copied[f] \/ queue[f].details \/ past[f] \cap {"restarted", "swept"} # {}
    BY DEF CompletedIsComplete
  <1>1. \A k \in Numbers : k < Len(Stages) => Done(f, k, queue[f].details)
    BY DEF StagesInv, StagesSafe, ProgressOf, DoneUpTo
  <1>2. CASE n < Len(Stages)
    BY <1>1, <1>2 DEF Done, Reached
  <1>3. CASE n = Len(Stages)
    BY <1>3, StagesAssumption DEF Tables, Objects
  <1>. QED  BY <1>2, <1>3, StagesTyped

LEMMA HiddenTargets ==
  ASSUME StagesInv, Hidden
  PROVE  TargetHidden
  <1>. SUFFICES ASSUME NEW f \in Rows, queue[f].status = "completed", past[f] \cap Others = {},
                       NEW n \in Numbers, Stages[n] = "archive"
       PROVE  "to" \in archived[f]
    BY DEF TargetHidden, Others
  <1>1. HiddenBy(Len(Stages), copied[f], archived[f])
    BY DEF Hidden, HiddenOf
  <1>2. n < Len(Stages)
    <2>1. n # Len(Stages)
      BY StagesAssumption
    <2>. QED  BY <2>1, StagesTyped
  <1>. QED  BY <1>1, <1>2 DEF HiddenBy

(* The stages before the next one of a task were executed, and what they     *)
(* stored is there: the invariant that CompletedIsComplete follows from.     *)
THEOREM StagesDone == Spec => []StagesInv
  <1>1. Init => StagesInv
    BY InitType, InitRows, InitStages DEF StagesInv, RowsInv
  <1>2. StagesInv /\ [Next]_vars => StagesInv'
    BY RowsStep, StagesStep DEF StagesInv
  <1>. QED  BY <1>1, <1>2, PTL DEF Spec

(* A completed task has copied all its stages say, but for the newest build  *)
(* and what its error details tell.                                          *)
THEOREM CompletedTasksAreComplete == Spec => []CompletedIsComplete
  BY StagesDone, CompletedStages, PTL

(* As long as no user unarchives a target, that of a completed task is       *)
(* archived.                                                                 *)
THEOREM TargetsAreHidden ==
  ASSUME TargetsStayHidden
  PROVE  Spec => []TargetHidden
  <1>1. Init => StagesInv /\ Hidden
    BY InitType, InitRows, InitStages DEF StagesInv, RowsInv
  <1>2. StagesInv /\ Hidden /\ [Next]_vars => (StagesInv /\ Hidden)'
    BY RowsStep, StagesStep DEF StagesInv
  <1>3. StagesInv /\ Hidden => TargetHidden
    BY HiddenTargets
  <1>. QED  BY <1>1, <1>2, <1>3, PTL DEF Spec

-----------------------------------------------------------------------------
(* Outcomes                                                                  *)

(* The status a user sees when a task has ended.                             *)
Ended(f) == queue[f].status \in {"failed", "completed"}

(* No goroutine is left that could overwrite the outcome of a task.          *)
EndedFree == \A f \in Rows : Ended(f) => Executing(queue[f].id) = {} \/ Flag(f, Twice)

(* What may become of the row of a task that has ended: it stays as it is,   *)
(* or a user rolls it back or restarts it.                                   *)
Overruled(f) == f \notin Rows' \/ (queue'[f].status = "queued" /\ "restarted" \in past'[f])

OutcomeStands == \A f \in Rows : Ended(f) => queue'[f] = queue[f] \/ Overruled(f) \/ Flag(f, Twice)

OutcomesInv == RowsInv /\ EndedFree

(* A step that leaves the rows that stay alone, and starts no goroutine.     *)
RowsStand ==
  /\ Rows' \subseteq Rows /\ \A g \in Rows' : queue'[g] = queue[g]
  /\ Working' \subseteq Working /\ \A t \in Working' : worker'[t].id = worker[t].id
  /\ \A g \in Rows : past[g] \subseteq past'[g]

LEMMA StandingOutcomes ==
  ASSUME EndedFree, RowsStand
  PROVE  EndedFree' /\ OutcomeStands
  <1>1. \A g \in Rows' : Executing(queue[g].id)' \subseteq Executing(queue[g].id)
    BY DEF RowsStand, Executing
  <1>2. \A g \in Rows' : g \in Rows /\ queue'[g] = queue[g] /\ past[g] \subseteq past'[g]
    BY DEF RowsStand
  <1>3. EndedFree'
    <2>. SUFFICES ASSUME NEW g \in Rows', queue[g].status \in {"failed", "completed"}
         PROVE  Executing(queue[g].id)' = {} \/ past'[g] \cap Twice # {}
      BY <1>2 DEF EndedFree, Ended, Flag
    <2>1. Executing(queue[g].id) = {} \/ past[g] \cap Twice # {}
      BY <1>2 DEF EndedFree, Ended, Flag
    <2>. QED  BY <1>1, <1>2, <2>1
  <1>. QED  BY <1>2, <1>3 DEF OutcomeStands, Overruled

LEMMA StandingSteps ==
  ASSUME RowsInv,
         \/ QuietStep
         \/ \E u \in Requests : RollbackTransaction(u) \/ RollbackObjects(u)
         \/ \E u \in Requests, f \in Sources, call \in Archivals : SetPipelineArchival(u, f, call[1], call[2])
         \/ \E s \in Pods \X Slots : Execute(s) \/ ExecuteFails(s) \/ UpdateFails(s)
         \/ \E p \in Pods : PodStep(p)
         \/ \E f \in Sources : BuildInserted(f) \/ \E n \in DOMAIN builds[f] : BuildStep(f, n)
  PROVE  RowsStand
  <1>. TypeInv /\ TypeOK /\ Rows \subseteq Sources
    BY DEF RowsInv, TypeInv, Rows
  <1>. DEFINE Grows == \A g \in Sources : past[g] \subseteq past'[g]
  <1>1. ASSUME NEW f \in Sources, NEW E, Happened(f, E)
        PROVE  Grows
    BY <1>1 DEF Happened, TypeOK
  <1>2. CASE QuietStep
    BY <1>2 DEF QuietStep, RowsStand, Rows, Working
  <1>3. ASSUME NEW u \in Requests, RollbackTransaction(u) \/ RollbackObjects(u)
        PROVE  RowsStand
    <2>1. PICK f \in Sources : f = request[u].from
      BY <1>3 DEF RollbackTransaction, RollbackObjects, TypeInv, RequestsReal, RequestReal
    <2>2. Grows
      BY <1>1, <1>3, <2>1 DEF RollbackTransaction, RollbackObjects
    <2>3. UNCHANGED worker /\ (queue' = queue \/ queue' = [queue EXCEPT ![f] = None])
      BY <1>3, <2>1 DEF RollbackTransaction, RollbackObjects, pod
    <2>. QED  BY <2>2, <2>3 DEF RowsStand, Rows, Working, TypeOK
  <1>4. ASSUME NEW u \in Requests, NEW f \in Sources, NEW call, SetPipelineArchival(u, f, call[1], call[2])
        PROVE  RowsStand
    <2>1. Grows
      BY <1>1, <1>4 DEF SetPipelineArchival
    <2>. QED  BY <1>4, <2>1 DEF SetPipelineArchival, RowsStand, Rows, Working, pod
  <1>5. ASSUME NEW s \in Pods \X Slots, Execute(s) \/ ExecuteFails(s)
        PROVE  RowsStand
    <2>1. s \in Working /\ UNCHANGED queue
      BY <1>5 DEF Execute, ExecuteFails
    <2>2. PICK ok \in BOOLEAN, details \in BOOLEAN : ToUpdate(s, ok, details)
      BY <1>5 DEF Execute, ExecuteFails
    <2>3. worker' = [worker EXCEPT ![s] = worker'[s]] /\ worker'[s].id = worker[s].id
      BY <2>1, <2>2, ToUpdateFacts
    <2>4. Grows
      <3>1. UNCHANGED past \/ \E n : MigrateBuilds(worker[s].from, n)
        BY <1>5 DEF Execute, ExecuteFails
      <3>. QED  BY <1>1, <2>1, <3>1, WorkerTyped DEF MigrateBuilds
    <2>. QED  BY <2>1, <2>3, <2>4 DEF RowsStand, Rows, Working, TypeOK
  <1>6. ASSUME NEW S \in SUBSET Working, past' = Lost(S), UNCHANGED queue,
               worker' = [s \in Pods \X Slots |-> IF s \in S THEN None ELSE worker[s]]
        PROVE  RowsStand
    BY <1>6, LostFacts DEF RowsStand, Rows, Working
  <1>7. ASSUME NEW s \in Pods \X Slots, UpdateFails(s)
        PROVE  RowsStand
    <2>1. worker' = [t \in Pods \X Slots |-> IF t \in {s} THEN None ELSE worker[t]]
      BY <1>7 DEF UpdateFails, TypeOK
    <2>. QED  BY <1>6, <1>7, <2>1 DEF UpdateFails, db
  <1>8. ASSUME NEW p \in Pods, PodStep(p)
        PROVE  RowsStand
    <2>1. CASE Restart(p)
      <3>1. Busy(p) \in SUBSET Working
        BY DEF Busy
      <3>2. worker' = [s \in Pods \X Slots |-> IF s \in Busy(p) THEN None ELSE worker[s]]
        BY <2>1 DEF Restart, Busy, Working
      <3>. QED  BY <1>6, <2>1, <3>1, <3>2 DEF Restart, db
    <2>2. CASE Stop(p)
      BY <2>2 DEF Stop, RowsStand, Rows, Working, db
    <2>. QED  BY <1>8, <2>1, <2>2 DEF PodStep, Crash, Exit
  <1>9. ASSUME NEW f \in Sources, BuildInserted(f) \/ \E n \in DOMAIN builds[f] : BuildStep(f, n)
        PROVE  RowsStand
    <2>1. UNCHANGED past \/ \E E : Happened(f, E)
      BY <1>9 DEF BuildInserted, BuildStep, BuildStarts, BuildEnds, UpsertComputedPipeline
    <2>2. UNCHANGED <<queue, worker>>
      BY <1>9 DEF BuildInserted, BuildStep, BuildStarts, BuildEnds, UpsertComputedPipeline, BuildGoes, db, pod
    <2>3. Grows
      BY <1>1, <2>1
    <2>. QED  BY <2>2, <2>3 DEF RowsStand, Rows, Working
  <1>. QED  BY <1>2, <1>3, <1>4, <1>5, <1>7, <1>8, <1>9

(* A task that is queued, again or for the first time.                       *)
LEMMA QueueTransactionOutcomes ==
  ASSUME OutcomesInv, NEW u \in Requests, QueueTransaction(u)
  PROVE  EndedFree' /\ OutcomeStands
  <1>. DEFINE q == request[u]
              f == q.from
  <1>1. /\ TypeInv /\ f \in Sources /\ q \in Request /\ q.id \in Ids /\ q.restart \in Numbers \cup {0, None}
        /\ UNCHANGED pod /\ past' = [past EXCEPT ![f] = Noted(q)]
    BY QueueTransactionFacts DEF OutcomesInv, RowsInv, QueueTransaction, Request
  <1>2. Working' = Working /\ worker' = worker /\ Rows \subseteq Sources
    BY <1>1 DEF Working, Rows, pod
  <1>3. \A g \in Sources \ {f} : past'[g] = past[g]
    BY <1>1 DEF TypeInv, TypeOK
  <1>4. past'[f] = Noted(q)
    BY <1>1 DEF TypeInv, TypeOK
  <1>5. /\ \A g \in Sources \ {f} : queue'[g] = queue[g]
        /\ \/ f \in Rows' /\ queue'[f].status = "queued"
           \/ f \in Rows /\ queue'[f] = queue[f]
        /\ f \in Rows => \/ queue'[f] = queue[f] /\ past[f] \subseteq past'[f]
                         \/ queue'[f].status = "queued" /\ "restarted" \in past'[f]
    <2>1. CASE f \notin Rows
      <3>1. /\ queue' = [queue EXCEPT ![f] = [id |-> q.id, status |-> "queued", next |-> 1, details |-> FALSE, queuedAt |-> clock + 1]]
            /\ queue'[f] \in Task
        BY <1>1, <2>1, InsertedTyped, QueueTransactionFacts
      <3>2. queue'[f].status = "queued"
        BY <1>1, <3>1 DEF TypeInv, TypeOK
      <3>3. queue'[f] # None
        BY <1>1, <3>1, Rowed DEF TypeInv
      <3>. QED  BY <1>1, <2>1, <3>1, <3>2, <3>3 DEF TypeInv, TypeOK, Rows
    <2>2. CASE f \in Rows /\ q.restart = None
      <3>1. queue' = queue
        BY <1>1, <2>2, RequeuedTyped, QueueTransactionFacts
      <3>2. past[f] \subseteq past'[f]
        BY <1>4, <2>2 DEF Noted
      <3>. QED  BY <2>2, <3>1, <3>2
    <2>3. CASE f \in Rows /\ q.restart # None
      <3>1. /\ queue' = [queue EXCEPT ![f] = queue'[f]]
            /\ queue'[f] \in Task /\ queue'[f].status = "queued"
        BY <1>1, <2>3, RequeuedTyped, QueueTransactionFacts
      <3>2. "restarted" \in past'[f]
        BY <1>4, <2>3 DEF Noted
      <3>3. queue'[f] # None
        BY <1>1, <3>1, Rowed DEF TypeInv
      <3>. QED  BY <1>1, <2>3, <3>1, <3>2, <3>3 DEF TypeInv, TypeOK, Rows
    <2>. QED  BY <2>1, <2>2, <2>3
  <1>. HIDE DEF f, q
  <1>6. OutcomeStands
    BY <1>2, <1>5 DEF OutcomeStands, Overruled
  <1>7. EndedFree'
    <2>. SUFFICES ASSUME NEW g \in Rows', queue'[g].status \in {"failed", "completed"}
         PROVE  Executing(queue[g].id)' = {} \/ past'[g] \cap Twice # {}
      BY DEF EndedFree, Ended, Flag
    <2>1. g \in Sources
      BY DEF Rows
    <2>2. queue'[g] = queue[g] /\ g \in Rows /\ past[g] \subseteq past'[g]
      <3>1. CASE g # f
        BY <1>3, <1>5, <2>1, <3>1 DEF Rows
      <3>2. CASE g = f
        BY <1>5, <3>2
      <3>. QED  BY <3>1, <3>2
    <2>3. Executing(queue[g].id)' = Executing(queue[g].id)
      BY <1>2, <2>2 DEF Executing
    <2>. QED  BY <2>2, <2>3 DEF OutcomesInv, EndedFree, Ended, Flag
  <1>. QED  BY <1>6, <1>7

LEMMA PickMigrationOutcomes ==
  ASSUME OutcomesInv, NEW p \in Pods, PickMigration(p)
  PROVE  EndedFree' /\ OutcomeStands
  <1>1. PICK F \in SUBSET Sources : \E slot \in [F -> Free(p)] : \E committed \in BOOLEAN : Picks(p, F, slot, committed)
    BY PickMigrationFacts DEF OutcomesInv, RowsInv
  <1>2. PICK slot \in [F -> Free(p)], committed \in BOOLEAN : Picks(p, F, slot, committed)
    BY <1>1
  <1>3. \A g \in F : g \in Rows /\ queue[g].status = "queued"
    BY <1>2 DEF Picks, Pickable
  <1>4. \A g \in F : queue'[g] # None /\ queue'[g].status \in {"queued", "in_progress"}
    BY <1>2, <1>3, Rowed DEF Picks, Rows, OutcomesInv, RowsInv, TypeInv
  <1>5. \A g \in Sources \ F : queue'[g] = queue[g] /\ past'[g] = past[g]
    BY <1>2 DEF Picks
  <1>6. \A g \in F : slot[g] \in Pods \X Slots /\ slot[g] \notin Working /\ worker'[slot[g]].id = queue[g].id
    <2>. SUFFICES ASSUME NEW g \in F
         PROVE  slot[g] \in Pods \X Slots /\ slot[g] \notin Working /\ worker'[slot[g]].id = queue[g].id
      OBVIOUS
    <2>1. slot[g] \in Pods \X Slots /\ slot[g] \notin Working
      BY <1>2 DEF Picks, Free, Working
    <2>2. worker'[slot[g]] = Started(g)
      BY <1>2 DEF Picks
    <2>. QED  BY <2>1, <2>2 DEF Started
  <1>7. \A s \in Pods \X Slots : (\A g \in F : slot[g] # s) => worker'[s] = worker[s]
    BY <1>2 DEF Picks
  <1>8. Rows \subseteq Sources
    BY DEF Rows
  <1>9. OutcomeStands
    BY <1>3, <1>5, <1>8 DEF OutcomeStands, Ended
  <1>10. EndedFree'
    <2>. SUFFICES ASSUME NEW g \in Rows', queue'[g].status \in {"failed", "completed"}
         PROVE  Executing(queue[g].id)' = {} \/ past'[g] \cap Twice # {}
      BY DEF EndedFree, Ended, Flag
    <2>1. g \in Rows \ F /\ queue'[g] = queue[g] /\ past'[g] = past[g]
      BY <1>4, <1>5 DEF Rows
    <2>2. \A f \in F : queue[f].id # queue[g].id
      BY <1>3, <2>1 DEF OutcomesInv, RowsInv, RowsSafe, UniqueIds
    <2>3. Executing(queue[g].id)' \subseteq Executing(queue[g].id)
      <3>. SUFFICES ASSUME NEW s \in Pods \X Slots, worker'[s] # None, worker'[s].id = queue[g].id
           PROVE  worker[s] # None /\ worker[s].id = queue[g].id
        BY <2>1 DEF Executing, Working
      <3>1. \A f \in F : slot[f] # s
        BY <1>6, <2>2
      <3>. QED  BY <1>7, <3>1
    <2>. QED  BY <2>1, <2>3 DEF OutcomesInv, EndedFree, Ended, Flag
  <1>. QED  BY <1>9, <1>10

(* The goroutine whose update ends a task is its last one.                   *)
LEMMA UpdateMigrationOutcomes ==
  ASSUME OutcomesInv, NEW s \in Pods \X Slots, UpdateMigration(s)
  PROVE  EndedFree' /\ OutcomeStands
  <1>. DEFINE w == worker[s]
              ends == ~w.ok \/ w.next = Len(Stages)
  <1>1. s \in Working /\ w \in Worker /\ TypeInv /\ Rows \subseteq Sources
    BY WorkerTyped DEF UpdateMigration, OutcomesInv, RowsInv, Rows
  <1>2. /\ queue' = [f \in Sources |-> IF f \in Rows /\ queue[f].id = w.id THEN Updated(queue[f], w) ELSE queue[f]]
        /\ worker' = [worker EXCEPT ![s] = IF ends \/ stop[s[1]] THEN None ELSE [w EXCEPT !.at = "execute", !.next = w.next + 1]]
        /\ past' = IF ~ends /\ stop[s[1]] THEN Lost({s}) ELSE past
    BY DEF UpdateMigration
  <1>3. /\ \A t \in Pods \X Slots : t # s => worker'[t] = worker[t]
        /\ ends => worker'[s] = None
        /\ worker'[s] = None \/ worker'[s].id = w.id
    BY <1>1, <1>2 DEF TypeInv, TypeOK, Worker
  <1>4. \A g \in Sources : past[g] \subseteq past'[g]
    BY <1>1, <1>2, LostFacts
  <1>5. \A g \in Sources : ~(g \in Rows /\ queue[g].id = w.id) => queue'[g] = queue[g]
    BY <1>2
  <1>6. ASSUME NEW g \in Rows, queue[g].id = w.id
        PROVE  /\ queue'[g].id = w.id /\ s \in Executing(queue[g].id)
               /\ queue'[g].status \in {"failed", "completed"} => ends
    <2>1. queue'[g] = Updated(queue[g], w)
      BY <1>1, <1>2, <1>6
    <2>2. queue'[g].id = queue[g].id
          /\ queue'[g].status = IF ~w.ok THEN "failed" ELSE IF w.next = Len(Stages) THEN "completed" ELSE "in_progress"
      BY <1>1, <2>1, UpdatedFacts
    <2>. QED  BY <1>1, <1>6, <2>2 DEF Executing
  <1>. HIDE DEF ends
  <1>7. OutcomeStands
    <2>. SUFFICES ASSUME NEW g \in Rows, Ended(g), queue[g].id = w.id
         PROVE  Flag(g, Twice)
      BY <1>1, <1>5 DEF OutcomeStands
    <2>. QED  BY <1>6 DEF OutcomesInv, EndedFree
  <1>8. EndedFree'
    <2>. SUFFICES ASSUME NEW g \in Rows', queue'[g].status \in {"failed", "completed"}, past'[g] \cap Twice = {}
         PROVE  Executing(queue[g].id)' = {}
      BY DEF EndedFree, Ended, Flag
    <2>1. g \in Sources /\ g \in Rows /\ past[g] \cap Twice = {}
      BY <1>4, <1>5 DEF Rows
    <2>2. CASE queue[g].id = w.id
      <3>1. Executing(queue[g].id) = {s} /\ ends /\ queue'[g].id = queue[g].id
        BY <1>6, <2>1, <2>2 DEF OutcomesInv, RowsInv, RowsSafe, OneExecutor, Twice
      <3>2. \A t \in Pods \X Slots : worker'[t] # None /\ worker'[t].id = queue[g].id => t \in Executing(queue[g].id)
        BY <1>3, <3>1 DEF Executing, Working
      <3>. QED  BY <1>3, <3>1, <3>2 DEF Executing, Working
    <2>3. CASE queue[g].id # w.id
      <3>1. queue'[g] = queue[g] /\ Executing(queue[g].id) = {}
        BY <1>5, <2>1, <2>3 DEF OutcomesInv, EndedFree, Ended, Flag
      <3>. QED  BY <1>3, <2>3, <3>1 DEF Executing, Working
    <2>. QED  BY <2>2, <2>3
  <1>. QED  BY <1>7, <1>8

LEMMA OutcomesStep ==
  ASSUME OutcomesInv, [Next]_vars
  PROVE  EndedFree' /\ OutcomeStands
  <1>1. CASE \E u \in Requests : QueueTransaction(u)
    BY <1>1, QueueTransactionOutcomes
  <1>2. CASE \E p \in Pods : PickMigration(p)
    BY <1>2, PickMigrationOutcomes
  <1>3. CASE \E s \in Pods \X Slots : UpdateMigration(s)
    BY <1>3, UpdateMigrationOutcomes
  <1>4. CASE \/ \E u \in Requests : RollbackTransaction(u) \/ RollbackObjects(u)
             \/ \E u \in Requests, f \in Sources, call \in Archivals : SetPipelineArchival(u, f, call[1], call[2])
             \/ \E s \in Pods \X Slots : Execute(s) \/ ExecuteFails(s) \/ UpdateFails(s)
             \/ \E p \in Pods : PodStep(p)
             \/ \E f \in Sources : BuildInserted(f) \/ \E n \in DOMAIN builds[f] : BuildStep(f, n)
    BY <1>4, StandingSteps, StandingOutcomes DEF OutcomesInv
  <1>5. CASE \/ \E u \in Requests : \E f \in Sources :
                  \/ \E id \in Ids \cup {None}, restart \in Restarts : QueueMigration(u, f, id, restart)
                  \/ RollbackMigration(u, f)
             \/ \E u \in Requests : RequestFails(u)
             \/ \E p \in Pods : CountTasks(p)
             \/ UNCHANGED vars
    BY <1>5, QuietSteps, StandingSteps, StandingOutcomes DEF OutcomesInv, RowsInv
  <1>. QED  BY <1>1, <1>2, <1>3, <1>4, <1>5 DEF Next, RequestStep, PollStep, TaskStep

(* A task that has ended is executed by no pod.                              *)
THEOREM EndedTasksAreFree == Spec => []OutcomesInv
  <1>1. Init => OutcomesInv
    BY InitType, InitRows DEF OutcomesInv, RowsInv, Init, EndedFree, Rows
  <1>2. OutcomesInv /\ [Next]_vars => OutcomesInv'
    BY RowsStep, OutcomesStep DEF OutcomesInv
  <1>. QED  BY <1>1, <1>2, PTL DEF Spec

(* The outcome of a task that has ended, failed or completed, is never       *)
(* overwritten but by a user who restarts it or rolls it back, whatever pods *)
(* do: unless it was executed twice, which only a restart of a task that is  *)
(* still executed, an id that is used again or a failed commit brings about. *)
THEOREM OutcomesStand == Spec => [][OutcomeStands]_vars
  <1>1. OutcomesInv /\ [Next]_vars => OutcomeStands
    BY OutcomesStep
  <1>. QED  BY <1>1, EndedTasksAreFree, PTL DEF Spec

-----------------------------------------------------------------------------
(* The limit of a pod                                                        *)

ParallelLimited == \A p \in Pods : Cardinality(Busy(p)) <= maximumParallelMigrations

(* The tasks PollMigrationTasks is about to ask for still fit beside those   *)
(* executed: goroutines end meanwhile, and none but its own are started.     *)
CountStands ==
  \A p \in Pods : poll[p].at = "pick" => poll[p].maxTasks + Cardinality(Busy(p)) <= maximumParallelMigrations

LimitsInv == TypeInv /\ ParallelLimited /\ CountStands

LEMMA BusyFinite ==
  \A p \in Pods : /\ IsFiniteSet(Busy(p)) /\ Cardinality(Busy(p)) \in Nat
                  /\ IsFiniteSet(Free(p)) /\ Busy(p) \cap Free(p) = {}
  <1>. SUFFICES ASSUME NEW p \in Pods
       PROVE  /\ IsFiniteSet(Busy(p)) /\ Cardinality(Busy(p)) \in Nat
              /\ IsFiniteSet(Free(p)) /\ Busy(p) \cap Free(p) = {}
    OBVIOUS
  <1>1. IsFiniteSet({p} \X Slots)
    BY SlotsAssumption, FS_Singleton, FS_Product
  <1>2. Busy(p) \subseteq {p} \X Slots /\ Free(p) \subseteq {p} \X Slots /\ Busy(p) \cap Free(p) = {}
    BY DEF Busy, Working, Free
  <1>. QED  BY <1>1, <1>2, FS_Subset, FS_CardinalityType

(* A step that starts no goroutine and leaves PollMigrationTasks alone, or   *)
(* sends it back to its count.                                               *)
NothingStarts ==
  /\ Working' \subseteq Working
  /\ \A p \in Pods : poll'[p] = poll[p] \/ poll'[p].at # "pick"

LEMMA NothingStartsLimits ==
  ASSUME LimitsInv, TypeInv', NothingStarts
  PROVE  LimitsInv'
  <1>1. ASSUME NEW p \in Pods
        PROVE  Cardinality(Busy(p)') \in Nat /\ Cardinality(Busy(p)') <= Cardinality(Busy(p))
    <2>1. Busy(p)' \subseteq Busy(p)
      BY DEF NothingStarts, Busy
    <2>. QED  BY <2>1, BusyFinite, FS_Subset, FS_CardinalityType
  <1>2. ParallelLimited'
    <2>. SUFFICES ASSUME NEW p \in Pods PROVE Cardinality(Busy(p)') <= maximumParallelMigrations
      BY DEF ParallelLimited
    <2>1. Cardinality(Busy(p)) \in Nat /\ Cardinality(Busy(p)) <= maximumParallelMigrations
      BY BusyFinite DEF LimitsInv, ParallelLimited
    <2>. QED  BY <1>1, <2>1, ParallelAssumption
  <1>3. CountStands'
    <2>. SUFFICES ASSUME NEW p \in Pods, poll'[p].at = "pick"
         PROVE  poll'[p].maxTasks + Cardinality(Busy(p)') <= maximumParallelMigrations
      BY DEF CountStands
    <2>1. poll'[p] = poll[p] /\ poll[p].maxTasks \in Nat
      BY ParallelAssumption DEF NothingStarts, LimitsInv, TypeInv, TypeOK, Poll
    <2>2. poll[p].maxTasks + Cardinality(Busy(p)) <= maximumParallelMigrations
      BY <2>1 DEF LimitsInv, CountStands
    <2>. QED  BY <1>1, <2>1, <2>2, BusyFinite, ParallelAssumption
  <1>. QED  BY <1>2, <1>3 DEF LimitsInv

(* The count is what the limit leaves.                                       *)
LEMMA CountTasksLimits ==
  ASSUME LimitsInv, TypeInv', NEW p \in Pods, CountTasks(p)
  PROVE  LimitsInv'
  <1>1. /\ UNCHANGED worker /\ poll' = [poll EXCEPT ![p] = poll'[p]]
        /\ poll'[p] = IF stop[p] THEN Polling("done") ELSE [at |-> "pick", maxTasks |-> Capacity(p)]
    BY DEF CountTasks, LimitsInv, TypeInv, TypeOK
  <1>2. \A r \in Pods : Busy(r)' = Busy(r)
    BY <1>1 DEF Busy, Working
  <1>3. \A r \in Pods \ {p} : poll'[r] = poll[r]
    BY <1>1 DEF LimitsInv, TypeInv, TypeOK
  <1>4. poll'[p].at = "pick" => poll'[p].maxTasks + Cardinality(Busy(p)) <= maximumParallelMigrations
    BY <1>1, BusyFinite, ParallelAssumption DEF Capacity, Polling
  <1>. QED  BY <1>2, <1>3, <1>4 DEF LimitsInv, ParallelLimited, CountStands

(* As many goroutines are started as tasks were asked for, at most.          *)
LEMMA PickMigrationLimits ==
  ASSUME LimitsInv, TypeInv', NEW p \in Pods, PickMigration(p)
  PROVE  LimitsInv'
  <1>. DEFINE maxTasks == poll[p].maxTasks
  <1>1. PICK F \in Picked(maxTasks) : \E slot \in [F -> Free(p)] : \E committed \in BOOLEAN :
          StartTasks(p, F, slot, committed)
    BY DEF PickMigration
  <1>2. PICK slot \in [F -> Free(p)], committed \in BOOLEAN : StartTasks(p, F, slot, committed)
    BY <1>1
  <1>. DEFINE NewOnes == {slot[f] : f \in F}
  <1>3. \A f, g \in F : slot[f] = slot[g] => f = g
    BY <1>2 DEF StartTasks
  <1>4. /\ poll[p].at = "pick" /\ poll' = [poll EXCEPT ![p] = Polling("check")]
        /\ Cardinality(F) <= maxTasks /\ maxTasks \in Nat
    BY <1>1, ParallelAssumption DEF PickMigration, Picked, LimitsInv, TypeInv, TypeOK, Poll
  <1>5. IsFiniteSet(F)
    <2>1. slot \in Injection(F, Free(p))
      BY <1>3 DEF Injection, IsInjective
    <2>. QED  BY <2>1, BusyFinite, FS_Injection
  <1>6. IsFiniteSet(NewOnes) /\ Cardinality(NewOnes) <= Cardinality(F)
    <2>1. slot \in Surjection(F, NewOnes)
      BY DEF Surjection
    <2>. QED  BY <1>5, <2>1, FS_Surjection
  <1>7. \A s \in Pods \X Slots : s \notin NewOnes => worker'[s] = worker[s]
    BY <1>2 DEF StartTasks
  <1>8. \A s \in NewOnes : s[1] = p /\ s \in Pods \X Slots
    BY DEF Free
  <1>. HIDE DEF NewOnes
  <1>9. Busy(p)' \subseteq Busy(p) \cup NewOnes /\ \A r \in Pods \ {p} : Busy(r)' \subseteq Busy(r)
    BY <1>7, <1>8 DEF Busy, Working
  <1>10. Cardinality(Busy(p)') <= maximumParallelMigrations
    <2>1. /\ Cardinality(NewOnes) \in Nat /\ Cardinality(F) \in Nat
          /\ Cardinality(Busy(p) \cap NewOnes) \in Nat
      BY <1>5, <1>6, BusyFinite, FS_CardinalityType, FS_Intersection
    <2>2. /\ IsFiniteSet(Busy(p) \cup NewOnes)
          /\ Cardinality(Busy(p) \cup NewOnes) = Cardinality(Busy(p)) + Cardinality(NewOnes) - Cardinality(Busy(p) \cap NewOnes)
      BY <1>6, BusyFinite, FS_Union
    <2>3. Cardinality(Busy(p)') \in Nat /\ Cardinality(Busy(p)') <= Cardinality(Busy(p) \cup NewOnes)
      BY <1>9, <2>2, FS_Subset, FS_CardinalityType
    <2>4. maxTasks + Cardinality(Busy(p)) <= maximumParallelMigrations
      BY <1>4 DEF LimitsInv, CountStands
    <2>5. Cardinality(Busy(p)) \in Nat /\ maximumParallelMigrations \in Nat
      BY BusyFinite, ParallelAssumption
    <2>. QED  BY <1>4, <1>6, <2>1, <2>2, <2>3, <2>4, <2>5
  <1>11. ASSUME NEW r \in Pods \ {p}
         PROVE  Cardinality(Busy(r)') \in Nat /\ Cardinality(Busy(r)') <= Cardinality(Busy(r))
    BY <1>9, BusyFinite, FS_Subset, FS_CardinalityType
  <1>12. ParallelLimited'
    <2>. SUFFICES ASSUME NEW r \in Pods \ {p} PROVE Cardinality(Busy(r)') <= maximumParallelMigrations
      BY <1>10 DEF ParallelLimited
    <2>1. Cardinality(Busy(r)) \in Nat /\ Cardinality(Busy(r)) <= maximumParallelMigrations
      BY BusyFinite DEF LimitsInv, ParallelLimited
    <2>. QED  BY <1>11, <2>1, ParallelAssumption
  <1>13. CountStands'
    <2>. SUFFICES ASSUME NEW r \in Pods, poll'[r].at = "pick"
         PROVE  poll'[r].maxTasks + Cardinality(Busy(r)') <= maximumParallelMigrations
      BY DEF CountStands
    <2>1. r # p /\ poll'[r] = poll[r] /\ poll[r].maxTasks \in Nat
      BY <1>4, ParallelAssumption DEF Polling, LimitsInv, TypeInv, TypeOK, Poll
    <2>2. poll[r].maxTasks + Cardinality(Busy(r)) <= maximumParallelMigrations
      BY <2>1 DEF LimitsInv, CountStands
    <2>. QED  BY <1>11, <2>1, <2>2, BusyFinite, ParallelAssumption
  <1>. QED  BY <1>12, <1>13 DEF LimitsInv

LEMMA NothingStartsSteps ==
  ASSUME TypeInv,
         \/ \E u \in Requests : RequestStep(u)
         \/ \E p \in Pods : PodStep(p)
         \/ \E s \in Pods \X Slots : TaskStep(s)
         \/ \E f \in Sources : BuildInserted(f) \/ \E n \in DOMAIN builds[f] : BuildStep(f, n)
         \/ UNCHANGED vars
  PROVE  NothingStarts
  <1>1. ASSUME UNCHANGED <<poll, worker>> PROVE NothingStarts
    BY <1>1 DEF NothingStarts, Working
  <1>2. CASE \/ \E u \in Requests : RequestStep(u)
             \/ \E f \in Sources : BuildInserted(f) \/ \E n \in DOMAIN builds[f] : BuildStep(f, n)
             \/ UNCHANGED vars
    <2>1. UNCHANGED <<poll, worker>>
      BY <1>2 DEF RequestStep, QueueMigration, QueueTransaction, RollbackMigration, RollbackTransaction, RollbackObjects,
         RequestFails, SetPipelineArchival, BuildInserted, BuildStep, BuildStarts, BuildEnds, UpsertComputedPipeline,
         BuildGoes, pod, vars
    <2>. QED  BY <1>1, <2>1
  <1>3. ASSUME NEW p \in Pods, PodStep(p) PROVE NothingStarts
    <2>1. CASE Restart(p)
      BY <2>1 DEF Restart, NothingStarts, Working, Polling, TypeInv, TypeOK
    <2>2. CASE Stop(p)
      BY <1>1, <2>2 DEF Stop
    <2>. QED  BY <1>3, <2>1, <2>2 DEF PodStep, Crash, Exit
  <1>4. ASSUME NEW s \in Pods \X Slots, TaskStep(s) PROVE NothingStarts
    <2>1. s \in Working /\ UNCHANGED poll
      BY <1>4 DEF TaskStep, Execute, ExecuteFails, UpdateMigration, UpdateFails
    <2>2. \E x : worker' = [worker EXCEPT ![s] = x]
      BY <1>4 DEF TaskStep, Execute, ExecuteFails, ToUpdate, UpdateMigration, UpdateFails
    <2>. QED  BY <2>1, <2>2 DEF NothingStarts, Working, TypeInv, TypeOK
  <1>. QED  BY <1>2, <1>3, <1>4

(* A pod never executes more tasks at the same time than it is configured    *)
(* to: the count it makes before it asks for tasks holds until they are      *)
(* started, whatever ends or fails meanwhile.                                *)
THEOREM ParallelLimitKept == Spec => []LimitsInv
  <1>1. Init => LimitsInv
    <2>. SUFFICES ASSUME Init PROVE ParallelLimited /\ CountStands
      BY InitType DEF LimitsInv
    <2>1. \A p \in Pods : Busy(p) = {} /\ poll[p].at # "pick"
      BY DEF Init, Busy, Working, Polling
    <2>. QED  BY <2>1, FS_EmptySet, ParallelAssumption DEF ParallelLimited, CountStands
  <1>2. LimitsInv /\ [Next]_vars => LimitsInv'
    <2>. SUFFICES ASSUME LimitsInv, [Next]_vars, TypeInv' PROVE LimitsInv'
      BY TypeStep DEF LimitsInv
    <2>1. CASE \E p \in Pods : PollStep(p)
      BY <2>1, CountTasksLimits, PickMigrationLimits DEF PollStep
    <2>2. CASE ~\E p \in Pods : PollStep(p)
      BY <2>2, NothingStartsSteps, NothingStartsLimits DEF Next, LimitsInv
    <2>. QED  BY <2>1, <2>2
  <1>. QED  BY <1>1, <1>2, PTL DEF Spec

=============================================================================

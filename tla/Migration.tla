------------------------------ MODULE Migration -----------------------------
(***************************************************************************)
(* Moving a repository to another name: users queue, restart and roll back *)
(* tasks, every pod of the api polls the queue and executes the stages of  *)
(* a task one after the other, and builds go on in the repository that is  *)
(* moved.  Pods stop and crash at any point, every query can fail.         *)
(***************************************************************************)
EXTENDS Integers, Sequences, FiniteSets

CONSTANTS
  Sources,                     \* repositories to move, each to one target
  Pods,
  maximumParallelMigrations,   \* tasks a pod executes at the same time
  Slots,                       \* names for the goroutines of a pod
  Requests,                    \* HTTP requests to come, each its own uuid
  None,                        \* no task, no id, an idle worker
  Stages,                      \* the stages in their order
  Restarts,                    \* the values of restart: None, 0 for the last stage, or a stage
  OldBuilds,                   \* builds a source has had, all ended
  NewBuilds,                   \* bound on the builds to come, per source
  Archivals,                   \* the calls to archive and unarchive a pipeline, as <<name, archived>>
  FaultBound                   \* bound on the pods that are stopped or lost and the commits of PickMigration that fail

(* What the stages copy, by the table or objects they copy.                  *)
Tables  == {"releases", "release_logs", "build_logs", "build_versions", "computed_tables"}
Objects == {"release_log_objects", "build_log_objects"}
Steps   == Tables \cup Objects \cup {"builds", "archive", "completed"}

(* Log rows are copied by joining with the rows copied before, objects are   *)
(* copied for the log rows found, and the pipeline copied is archived.       *)
Needs == [s \in Steps |-> CASE s = "release_logs"        -> {"releases"}
                            [] s = "release_log_objects" -> {"release_logs"}
                            [] s = "build_logs"          -> {"builds"}
                            [] s = "build_log_objects"   -> {"build_logs"}
                            [] s = "archive"             -> {"computed_tables"}
                            [] OTHER                     -> {}]

Numbers == 1..Len(Stages)

ASSUME ParallelAssumption == maximumParallelMigrations \in Nat \ {0}
ASSUME ArchivalsAssumption == Archivals \subseteq {"from", "to"} \X BOOLEAN
ASSUME SlotsAssumption == Slots \subseteq Nat /\ IsFiniteSet(Slots)
ASSUME BuildsAssumption == OldBuilds \in Nat \ {0} /\ NewBuilds \in [Sources -> Nat]
ASSUME FaultBoundAssumption == FaultBound \in Nat
ASSUME NoneAssumption == None \notin Requests \cup Sources
ASSUME RestartsAssumption == Restarts \subseteq {None, 0} \cup Numbers
ASSUME StagesAssumption ==
  /\ Stages \in Seq(Steps)
  /\ Len(Stages) > 0
  /\ \A n \in Numbers : Stages[n] = "completed" <=> n = Len(Stages)
  /\ \A n, k \in Numbers : Stages[n] = Stages[k] => n = k
  /\ \A n \in Numbers : \A s \in Needs[Stages[n]] : \E k \in 1..(n - 1) : Stages[k] = s

VARIABLES
  queue,      \* migration_task_queue: the row of a source
  linked,     \* computed_pipelines.migration_task_id of a source
  copied,     \* what is stored under the target's name
  archived,   \* of the computed pipelines: "from" and "to"
  builds,     \* the statuses of the builds of a source, in the order they were inserted
  moved,      \* how many of them are stored under the target's name: the first ones
  clock,      \* rows inserted so far, for queued_at
  poll,       \* PollMigrationTasks of a pod
  stop,       \* stopWorkers of a pod
  worker,     \* the goroutines of a pod, by a number of their own
  request,    \* a request being handled
  faults,     \* of them so far
  past        \* what happened to a source (history)

db   == <<queue, linked, copied, moved, archived, clock>>
pod  == <<poll, stop, worker>>
vars == <<db, pod, builds, request, faults, past>>

Ids == Requests

(* next stands for last_step: the stage after the one done, or the failed    *)
(* one itself.                                                               *)
Task    == [id : Ids, status : {"queued", "in_progress", "failed", "completed"},
            next : Numbers, details : BOOLEAN, queuedAt : Nat]
Worker  == [from : Sources, id : Ids, next : Numbers, at : {"execute", "update"}, ok : BOOLEAN, details : BOOLEAN]
Poll    == [at : {"check", "pick", "done"}, maxTasks : 0..maximumParallelMigrations]
Request == [at : {"none", "transaction", "delete", "objects", "answered"},
            from : Sources \cup {None}, id : Ids \cup {None}, existing : Ids \cup {None},
            restart : Numbers \cup {0, None}]
BuildStatus == {"pending", "running", "upserting", "over"}
Event   == {"restarted", "doubled", "skipped", "reused", "uncommitted", "lost", "raced",
            "overtaken", "left", "swept", "shown", "unguarded", "live"}

ASSUME RowAssumption == None \notin Task \cup Worker

TypeOK ==
  /\ queue \in [Sources -> Task \cup {None}]
  /\ linked \in [Sources -> Ids \cup {None}]
  /\ copied \in [Sources -> SUBSET (Tables \cup Objects)]
  /\ archived \in [Sources -> SUBSET {"from", "to"}]
  /\ builds \in [Sources -> Seq(BuildStatus)]
  /\ moved \in [Sources -> Nat]
  /\ clock \in Nat
  /\ poll \in [Pods -> Poll]
  /\ stop \in [Pods -> BOOLEAN]
  /\ worker \in [Pods \X Slots -> Worker \cup {None}]
  /\ request \in [Requests -> Request]
  /\ faults \in Nat
  /\ past \in [Sources -> SUBSET Event]

Polling(at) == [at |-> at, maxTasks |-> 0]

Unsent   == [at |-> "none", from |-> None, id |-> None, existing |-> None, restart |-> None]
Answered == [Unsent EXCEPT !.at = "answered"]

Init ==
  /\ queue = [f \in Sources |-> None]
  /\ linked = [f \in Sources |-> None]
  /\ copied = [f \in Sources |-> {}]
  /\ archived = [f \in Sources |-> {}]
  /\ builds = [f \in Sources |-> [n \in 1..OldBuilds |-> "over"]]
  /\ moved = [f \in Sources |-> 0]
  /\ clock = 0
  /\ poll = [p \in Pods |-> Polling("check")]
  /\ stop = [p \in Pods |-> FALSE]
  /\ worker = [s \in Pods \X Slots |-> None]
  /\ request = [u \in Requests |-> Unsent]
  /\ faults = 0
  /\ past = [f \in Sources |-> {}]

Rows          == {f \in Sources : queue[f] # None}
Working       == {s \in Pods \X Slots : worker[s] # None}
Executing(id) == {s \in Working : worker[s].id = id}
WorkingFor(f) == {s \in Working : worker[s].from = f}
Busy(p)       == {s \in Working : s[1] = p}
Free(p)       == {s \in Pods \X Slots : s[1] = p /\ worker[s] = None}
When(c, e)    == IF c THEN {e} ELSE {}

In(f, n, status) == n \in DOMAIN builds[f] /\ builds[f][n] = status
Active(f, status) == \E n \in DOMAIN builds[f] : builds[f][n] = status

(* What the joins of the stages find under the target's name.                *)
Has(f, stage) == IF stage = "builds" THEN moved[f] > 0 ELSE stage \in copied[f]

Happened(f, E) == past' = [past EXCEPT ![f] = @ \cup E]

-----------------------------------------------------------------------------
(* Requests                                                                  *)

Answer(u) == request' = [request EXCEPT ![u] = Answered]

(* CheckExistingMigration: the task the computed pipeline is linked to.      *)
Existing(f) == IF \E g \in Rows : queue[g].id = linked[f] THEN linked[f] ELSE None

(* QueueMigration looks for a task first, outside of its transaction.  A     *)
(* user gives no id or one that is known; restart is empty (None), the last  *)
(* stage (0) or a stage.                                                     *)
QueueMigration(u, f, id, restart) ==
  /\ request[u].at = "none"
  /\ id \in {None} \cup {v \in Requests : request[v].at # "none"}
  /\ LET existing == Existing(f)
         refused  == existing # None /\ id # existing
     IN  request' = [request EXCEPT ![u] =
           IF refused THEN Answered
           ELSE [at |-> "transaction", from |-> f, id |-> IF id = None THEN u ELSE id,
                 existing |-> existing, restart |-> restart]]
  /\ UNCHANGED <<db, pod, builds, faults, past>>

Inserted(f, id) ==
  /\ \A g \in Rows : queue[g].id # id
  /\ clock' = clock + 1
  /\ queue' = [queue EXCEPT ![f] = [id |-> id, status |-> "queued", next |-> 1, details |-> FALSE, queuedAt |-> clock']]

(* Faulty variant: the stage after the one asked for.                       *)
RequeuedAfter(f, restart) ==
  /\ queue' = [queue EXCEPT ![f] =
       IF restart = None THEN @
       ELSE [@ EXCEPT !.status = "queued", !.details = FALSE, !.next = IF restart = 0 THEN @ ELSE restart + 1]]
  /\ UNCHANGED clock

Requeued(f, restart) ==
  /\ queue' = [queue EXCEPT ![f] =
       IF restart = None THEN @
       ELSE [queue[f] EXCEPT !.status = "queued", !.details = FALSE,
                             !.next = IF restart = 0 THEN queue[f].next ELSE restart]]
  /\ UNCHANGED clock

(* Faulty variant: linked when the check found a task.                      *)
LinkWhenFound(q) == IF q.existing # None THEN [linked EXCEPT ![q.from] = q.id] ELSE linked

Link(q) == IF q.existing = None THEN [linked EXCEPT ![q.from] = q.id] ELSE linked

(* What happened to the source by then (history).                            *)
Noted(q) ==
  LET f     == q.from
      row   == queue[f]
      raced == When(q.existing # (IF f \in Rows THEN row.id ELSE None), "raced")
  IN  IF f \notin Rows
      THEN (past[f] \cap {"overtaken", "left", "shown", "unguarded", "live"})
             \cup raced \cup When(Executing(q.id) # {}, "reused")
      ELSE IF q.restart = None THEN past[f] \cup raced
      ELSE (past[f] \ {"lost"}) \cup {"restarted"} \cup raced
             \cup When(Executing(row.id) # {}, "doubled") \cup When(q.restart > row.next, "skipped")

(* Its transaction links the pipeline when the check found no task, and      *)
(* inserts the row or, for the same repositories, restarts the task.         *)
QueueTransaction(u) ==
  LET q == request[u]
      f == q.from
  IN  /\ q.at = "transaction"
      /\ IF f \notin Rows THEN Inserted(f, q.id) ELSE Requeued(f, q.restart)
      /\ linked' = Link(q)
      /\ past' = [past EXCEPT ![f] = Noted(q)]
      /\ Answer(u)
      /\ UNCHANGED <<copied, moved, archived, pod, builds, faults>>

(* RollbackMigration reads the task, deletes what is stored under the        *)
(* target's name and the task in a transaction, whatever its status, and     *)
(* shows the source again;                                                   *)
RollbackMigration(u, f) ==
  /\ request[u].at = "none"
  /\ f \in Rows
  /\ request' = [request EXCEPT ![u] =
       [at |-> "delete", from |-> f, id |-> queue[f].id, existing |-> None, restart |-> None]]
  /\ UNCHANGED <<db, pod, builds, faults, past>>

(* Faulty variant: what was copied stays.                                   *)
RollbackTaskOnly(u) ==
  LET f == request[u].from
  IN  /\ request[u].at = "delete"
      /\ queue' = [queue EXCEPT ![f] = None]
      /\ archived' = [archived EXCEPT ![f] = {}]
      /\ Happened(f, When(WorkingFor(f) # {}, "overtaken"))
      /\ request' = [request EXCEPT ![u] = [@ EXCEPT !.at = "objects"]]
      /\ UNCHANGED <<linked, copied, moved, clock, pod, builds, faults>>

RollbackTransaction(u) ==
  LET f == request[u].from
  IN  /\ request[u].at = "delete"
      /\ queue' = [queue EXCEPT ![f] = None]
      /\ copied' = [copied EXCEPT ![f] = @ \ Tables]
      /\ moved' = [moved EXCEPT ![f] = 0]
      /\ archived' = [archived EXCEPT ![f] = {}]
      /\ Happened(f, When(WorkingFor(f) # {}, "overtaken"))
      /\ request' = [request EXCEPT ![u] = [@ EXCEPT !.at = "objects"]]
      /\ UNCHANGED <<linked, clock, pod, builds, faults>>

(* then it deletes the log objects, which can fail half-way.                 *)
RollbackObjects(u) ==
  LET f == request[u].from
  IN  /\ request[u].at = "objects"
      /\ \E left \in SUBSET (copied[f] \cap Objects) :
           /\ copied' = [copied EXCEPT ![f] = (@ \ Objects) \cup left]
           /\ Happened(f, When(left # {}, "left") \cup When(queue[f] # None, "swept"))
      /\ Answer(u)
      /\ UNCHANGED <<queue, linked, moved, archived, clock, pod, builds, faults>>

RequestFails(u) ==
  /\ request[u].at \in {"transaction", "delete"}
  /\ Answer(u)
  /\ UNCHANGED <<db, pod, builds, faults, past>>

(* The flags of both pipelines can be set at any time, by either name.       *)
SetPipelineArchival(u, f, name, archive) ==
  /\ request[u].at = "none"
  /\ archived' = [archived EXCEPT ![f] = IF archive THEN @ \cup {name} ELSE @ \ {name}]
  /\ name = "to" => "computed_tables" \in copied[f]
  /\ Happened(f, When(name = "from" /\ ~archive, "shown"))
  /\ Answer(u)
  /\ UNCHANGED <<queue, linked, copied, moved, clock, pod, builds, faults>>

-----------------------------------------------------------------------------
(* PollMigrationTasks                                                        *)

(* What inProgressMigrations leaves.                                         *)
Capacity(p) == maximumParallelMigrations - Cardinality(Busy(p))

(* One round, up to the query: look at stopWorkers, sleep, and count.        *)
CountTasks(p) ==
  LET maxTasks == Capacity(p)
  IN  /\ poll[p].at = "check"
      /\ stop[p] \/ maxTasks >= 1
      /\ poll' = [poll EXCEPT ![p] = IF stop[p] THEN Polling("done") ELSE [at |-> "pick", maxTasks |-> maxTasks]]
      /\ UNCHANGED <<db, stop, worker, builds, request, faults, past>>

(* Faulty variants: tasks of any status, with builds under way, or new ones  *)
(* only.                                                                    *)
PickableUnended  == {f \in Rows : queue[f].status # "completed" /\ ~Active(f, "running")}
PickableBuilding == {f \in Rows : queue[f].status = "queued"}
PickableFresh    == {f \in Rows : queue[f].status = "queued" /\ queue[f].next = 1 /\ ~Active(f, "running")}

Pickable == {f \in Rows : queue[f].status = "queued" /\ ~Active(f, "running")}

(* The first maxTasks of the queue.                                          *)
Picked(maxTasks) ==
  {F \in SUBSET Pickable :
     /\ Cardinality(F) <= maxTasks
     /\ Cardinality(F) < maxTasks => F = Pickable
     /\ \A f \in F : \A g \in Pickable \ F : queue[f].queuedAt <= queue[g].queuedAt}

(* Faulty variant: the sources are not archived.                            *)
ArchiveNone(F) == archived

Archive(F) == [f \in Sources |-> archived[f] \cup When(f \in F, "from")]

(* The goroutine of a task that is picked.                                   *)
Started(f) == [from |-> f, id |-> queue[f].id, next |-> queue[f].next, at |-> "execute", ok |-> TRUE,
               details |-> FALSE]

(* PickMigration marks the tasks and archives their sources in a             *)
(* transaction; the error of its commit is dropped, and the tasks are        *)
(* started all the same, in the first slots that are free.                   *)
StartTasks(p, F, slot, committed) ==
  /\ committed \/ (F # {} /\ faults < FaultBound)
  /\ faults' = IF committed THEN faults ELSE faults + 1
  /\ \A f, g \in F : slot[f] = slot[g] => f = g
  /\ \A f \in F : \A s \in Free(p) : s[2] < slot[f][2] => \E g \in F : slot[g] = s
  /\ worker' = [s \in Pods \X Slots |->
       IF \E f \in F : slot[f] = s THEN Started(CHOOSE f \in F : slot[f] = s) ELSE worker[s]]
  /\ queue' = [f \in Sources |->
       IF committed /\ f \in F THEN [queue[f] EXCEPT !.status = "in_progress"] ELSE queue[f]]
  /\ archived' = IF committed THEN Archive(F) ELSE archived
  /\ past' = [f \in Sources |->
       IF f \in F THEN (past[f] \ When(committed, "shown")) \cup When(~committed, "uncommitted")
                       \cup When(Active(f, "pending"), "unguarded")
       ELSE past[f]]

PickMigration(p) ==
  /\ poll[p].at = "pick"
  /\ poll' = [poll EXCEPT ![p] = Polling("check")]
  /\ \E F \in Picked(poll[p].maxTasks) : \E slot \in [F -> Free(p)] : \E committed \in BOOLEAN :
       StartTasks(p, F, slot, committed)
  /\ UNCHANGED <<linked, copied, moved, clock, stop, builds, request>>

-----------------------------------------------------------------------------
(* The goroutine of a task                                                   *)

Stage(w) == Stages[w.next]

(* What a stage stores: nothing, and no error, when what it joins with is    *)
(* not there.                                                                *)
Stored(f, stage) ==
  copied[f] \cup (IF stage \in Tables \cup Objects /\ \A s \in Needs[stage] : Has(f, s) THEN {stage} ELSE {})

(* MigrateBuilds copies month by month from the oldest build up to, and      *)
(* without, the newest one.                                                  *)
OlderBuilds(f) == Len(builds[f]) - 1

(* Builds that are copied while they are under way.                          *)
LiveIn(f, n) == {"live" : m \in {k \in 1..n : In(f, k, "pending") \/ In(f, k, "running")}}

MigrateBuilds(f, n) ==
  /\ moved' = [moved EXCEPT ![f] = n]
  /\ Happened(f, LiveIn(f, n))

(* Faulty variant: the pipeline that was moved is archived once more.        *)
ArchivedBySource(f, stage) ==
  CASE stage = "computed_tables" -> IF Has(f, "builds") THEN archived[f] \ {"to"} ELSE archived[f] \cup {"to"}
    [] stage = "archive" -> archived[f] \cup {"from"}
    [] OTHER -> archived[f]

(* The computed pipeline is copied as an archived one; the builds of the     *)
(* target, if there are any, make UpsertComputedPipeline show it, and the    *)
(* archive stage hides it.                                                   *)
ArchivedBy(f, stage) ==
  CASE stage = "computed_tables" -> IF Has(f, "builds") THEN archived[f] \ {"to"} ELSE archived[f] \cup {"to"}
    [] stage = "archive" /\ "computed_tables" \in copied[f] -> archived[f] \cup {"to"}
    [] OTHER -> archived[f]

ToUpdate(s, ok, details) ==
  worker' = [worker EXCEPT ![s] =
    [worker[s] EXCEPT !.at = "update", !.ok = ok, !.details = worker[s].details \/ details]]

(* The executor of a stage.  Objects that cannot be copied are no error as   *)
(* long as one can: they are told in the error details.                      *)
Execute(s) ==
  LET w == worker[s]
      f == w.from
      stage == Stage(w)
  IN  /\ s \in Working
      /\ w.at = "execute"
      /\ \/ /\ copied' = [copied EXCEPT ![f] = Stored(f, stage)]
            /\ archived' = [archived EXCEPT ![f] = ArchivedBy(f, stage)]
            /\ ToUpdate(s, TRUE, FALSE)
         \/ /\ stage \in Objects
            /\ \A t \in Needs[stage] : Has(f, t)
            /\ ToUpdate(s, TRUE, TRUE)
            /\ UNCHANGED <<copied, archived>>
      /\ IF stage = "builds" THEN MigrateBuilds(f, OlderBuilds(f)) ELSE UNCHANGED <<moved, past>>
      /\ UNCHANGED <<queue, linked, clock, poll, stop, builds, request, faults>>

(* A stage fails without a trace, or after some or all of its rows are       *)
(* stored: builds are copied month by month, and the counts of builds and    *)
(* releases and the computed tables of the target come later.                *)
ExecuteFails(s) ==
  LET w == worker[s]
      f == w.from
      stage == Stage(w)
  IN  /\ s \in Working
      /\ w.at = "execute"
      /\ stage # "completed"
      /\ \/ UNCHANGED <<copied, moved, archived, past>>
         \/ /\ stage = "builds"
            /\ \E n \in moved[f]..OlderBuilds(f) : MigrateBuilds(f, n)
            /\ UNCHANGED <<copied, archived>>
         \/ /\ stage \in {"releases", "computed_tables"}
            /\ copied' = [copied EXCEPT ![f] = Stored(f, stage)]
            /\ archived' = [archived EXCEPT ![f] = IF stage = "computed_tables" THEN @ \cup {"to"} ELSE @]
            /\ UNCHANGED <<moved, past>>
      /\ ToUpdate(s, FALSE, TRUE)
      /\ UNCHANGED <<queue, linked, clock, poll, stop, builds, request, faults>>

(* Goroutines that end with their task unfinished leave it in_progress.      *)
Lost(S) == [f \in Sources |->
  past[f] \cup When(f \in Rows /\ \E s \in S : worker[s].id = queue[f].id, "lost")]

(* Faulty variant: a failure that is not stored.                            *)
UpdatedUnended(row, w) ==
  LET last == w.next = Len(Stages)
  IN  [row EXCEPT !.status  = IF w.ok /\ last THEN "completed" ELSE "in_progress",
                  !.next    = IF w.ok /\ ~last THEN w.next + 1 ELSE w.next,
                  !.details = row.details \/ w.details]

(* UpdateMigration stores the outcome in the row with the id of the task,    *)
(* wherever that is now.                                                     *)
Updated(row, w) ==
  LET last == w.next = Len(Stages)
  IN  [row EXCEPT !.status  = IF ~w.ok THEN "failed" ELSE IF last THEN "completed" ELSE "in_progress",
                  !.next    = IF w.ok /\ ~last THEN w.next + 1 ELSE w.next,
                  !.details = @ \/ w.details]

(* A goroutine goes on to the next stage unless its pod is stopping: then    *)
(* the task is set to queued in memory only.                                 *)
UpdateMigration(s) ==
  LET w    == worker[s]
      ends == ~w.ok \/ w.next = Len(Stages)
  IN  /\ s \in Working
      /\ w.at = "update"
      /\ queue' = [f \in Sources |->
           IF f \in Rows /\ queue[f].id = w.id THEN Updated(queue[f], w) ELSE queue[f]]
      /\ worker' = [worker EXCEPT ![s] =
           IF ends \/ stop[s[1]] THEN None ELSE [w EXCEPT !.at = "execute", !.next = w.next + 1]]
      /\ past' = IF ~ends /\ stop[s[1]] THEN Lost({s}) ELSE past
      /\ UNCHANGED <<linked, copied, moved, archived, clock, poll, stop, builds, request, faults>>

(* The update fails, also when the stage has used up the time of the task.   *)
UpdateFails(s) ==
  /\ s \in Working
  /\ worker[s].at = "update"
  /\ worker' = [worker EXCEPT ![s] = None]
  /\ past' = Lost({s})
  /\ UNCHANGED <<db, poll, stop, builds, request, faults>>

-----------------------------------------------------------------------------
(* Pods and builds                                                           *)

(* The process ends and a new one takes its place.                           *)
Restart(p) ==
  /\ poll' = [poll EXCEPT ![p] = Polling("check")]
  /\ stop' = [stop EXCEPT ![p] = FALSE]
  /\ worker' = [s \in Pods \X Slots |-> IF s[1] = p THEN None ELSE worker[s]]
  /\ past' = Lost(Busy(p))
  /\ UNCHANGED <<db, builds, request>>

(* A crash, or log.Fatal: the query of PickMigration or the stream to the    *)
(* log migrator failed.                                                      *)
Crash(p) == faults < FaultBound /\ faults' = faults + 1 /\ Restart(p)

(* A graceful shutdown waits for PollMigrationTasks, not for its goroutines. *)
Stop(p) ==
  /\ faults < FaultBound
  /\ ~stop[p]
  /\ stop' = [stop EXCEPT ![p] = TRUE]
  /\ faults' = faults + 1
  /\ UNCHANGED <<db, poll, worker, builds, request, past>>

Exit(p) == poll[p].at = "done" /\ Restart(p) /\ UNCHANGED faults

(* Nothing keeps a build of the source from being inserted.                  *)
BuildInserted(f) ==
  /\ Len(builds[f]) < OldBuilds + NewBuilds[f]
  /\ builds' = [builds EXCEPT ![f] = Append(@, "pending")]
  /\ Happened(f, When(WorkingFor(f) # {}, "unguarded"))
  /\ UNCHANGED <<db, pod, request, faults>>

BuildGoes(f, n, from, to) ==
  /\ In(f, n, from)
  /\ builds' = [builds EXCEPT ![f] = [builds[f] EXCEPT ![n] = to]]
  /\ UNCHANGED <<queue, linked, copied, moved, clock, pod, request, faults>>

BuildStarts(f, n) == BuildGoes(f, n, "pending", "running") /\ UNCHANGED <<archived, past>>
BuildEnds(f, n)   == BuildGoes(f, n, "running", "upserting") /\ UNCHANGED <<archived, past>>

(* The goroutine started by the UPDATE of its status writes the computed     *)
(* pipeline, with archived as in the manifest.                               *)
UpsertComputedPipeline(f, n) ==
  /\ BuildGoes(f, n, "upserting", "over")
  /\ archived' = [archived EXCEPT ![f] = @ \ {"from"}]
  /\ Happened(f, {"shown"})

-----------------------------------------------------------------------------
RequestStep(u) ==
  \/ \E f \in Sources, id \in Ids \cup {None}, restart \in Restarts : QueueMigration(u, f, id, restart)
  \/ QueueTransaction(u)
  \/ \E f \in Sources : RollbackMigration(u, f)
  \/ RollbackTransaction(u)
  \/ RollbackObjects(u)
  \/ RequestFails(u)
  \/ \E f \in Sources, call \in Archivals : SetPipelineArchival(u, f, call[1], call[2])

PollStep(p)  == CountTasks(p) \/ PickMigration(p)
TaskStep(s)  == Execute(s) \/ ExecuteFails(s) \/ UpdateMigration(s) \/ UpdateFails(s)
PodStep(p)   == Crash(p) \/ Stop(p) \/ Exit(p)
BuildStep(f, n) == BuildStarts(f, n) \/ BuildEnds(f, n) \/ UpsertComputedPipeline(f, n)

Next ==
  \/ \E u \in Requests : RequestStep(u)
  \/ \E p \in Pods : PollStep(p) \/ PodStep(p)
  \/ \E s \in Pods \X Slots : TaskStep(s)
  \/ \E f \in Sources : BuildInserted(f) \/ \E n \in DOMAIN builds[f] : BuildStep(f, n)

(* Goroutines that can go on do, builds end, and a stopped pod is replaced.  *)
Fairness ==
  /\ \A p \in Pods : WF_vars(PollStep(p)) /\ WF_vars(Exit(p))
  /\ \A s \in Pods \X Slots : WF_vars(TaskStep(s))
  /\ \A f \in Sources : \A n \in 1..(OldBuilds + NewBuilds[f]) : WF_vars(BuildStarts(f, n) \/ BuildEnds(f, n))

Spec == Init /\ [][Next]_vars /\ Fairness

-----------------------------------------------------------------------------
(* Properties                                                                *)

(* No task is executed twice at the same time, by whatever pods, unless it   *)
(* was restarted while it was executed, an id was used again for a task      *)
(* still executed, or a commit of PickMigration failed.                      *)
OneExecutor ==
  \A f \in Rows : \A s, t \in Executing(queue[f].id) :
    s = t \/ past[f] \cap {"doubled", "reused", "uncommitted"} # {}

(* A task that is in progress is executed by some pod, or was abandoned by   *)
(* a pod that stopped, crashed or could not store the outcome of a stage;    *)
(* only a user who restarts it gets such a task going again.                 *)
InProgressExecuted ==
  \A f \in Rows : queue[f].status = "in_progress" => Executing(queue[f].id) # {} \/ "lost" \in past[f]

(* When a task is completed all rows are copied but the newest build, which  *)
(* MigrateBuilds leaves behind: through failures, crashes, restarts and      *)
(* overlapping executions, unless a user restarted it at a stage after the   *)
(* failed one or reused the id of a task still executed; and log objects     *)
(* that are missing are told in the error details unless a restart cleared   *)
(* these or an older rollback deleted the objects.                           *)
CompletedIsComplete ==
  \A f \in Rows : queue[f].status = "completed" /\ past[f] \cap {"skipped", "reused"} = {} =>
    /\ \A n \in Numbers : Stages[n] = "builds" => moved[f] >= OldBuilds - 1
    /\ OldBuilds > 1 => \A n \in Numbers : Stages[n] \in Tables => Stages[n] \in copied[f]
    /\ OldBuilds > 1 => \A n \in Numbers : Stages[n] \in Objects =>
         \/ Stages[n] \in copied[f]
         \/ queue[f].details
         \/ past[f] \cap {"restarted", "swept"} # {}

(* The computed pipeline of the target is archived when its task is          *)
(* completed, so that nothing is built there before a user unarchives it,    *)
(* although an earlier stage showed it: only another execution for the same  *)
(* source, of this task or of one rolled back meanwhile, can show it again,  *)
(* or a restart that leaves out the stage that hides it.                     *)
TargetHidden ==
  \A f \in Rows :
    queue[f].status = "completed" /\ past[f] \cap {"doubled", "reused", "uncommitted", "overtaken", "skipped"} = {} =>
      \A n \in Numbers : Stages[n] = "archive" => "to" \in archived[f]

(* Without a task nothing is stored under the target's name, unless the task *)
(* was rolled back while it was executed or its objects could not be         *)
(* deleted.                                                                  *)
TargetHasTask ==
  \A f \in Sources \ Rows : "overtaken" \notin past[f] =>
    /\ copied[f] \cap Tables = {} /\ moved[f] = 0
    /\ copied[f] \cap Objects # {} =>
         "left" \in past[f] \/ \E u \in Requests : request[u].at = "objects" /\ request[u].from = f

(* The pipeline is linked to its task, so that a second one is refused,      *)
(* unless a request was handled between the check and the transaction of     *)
(* another one.                                                              *)
Linked == \A f \in Rows : linked[f] = queue[f].id \/ "raced" \in past[f]

(* The source of a task that is executed or was completed is archived unless *)
(* a late upsert of its computed pipeline or a user showed it, or the commit *)
(* failed.                                                                   *)
SourceArchived ==
  \A f \in Rows : queue[f].status \in {"in_progress", "completed"} =>
    "from" \in archived[f] \/ past[f] \cap {"shown", "uncommitted", "reused"} # {}

(* A build is copied while it is pending or running only if it was pending   *)
(* when the task was picked or inserted while it was executed.               *)
LiveCopyUnguarded == \A f \in Sources : "live" \in past[f] => "unguarded" \in past[f]

(* A queued task ends, unless it is rolled back or abandoned.                *)
Settled(f) == queue[f] = None \/ queue[f].status \in {"failed", "completed"} \/ "lost" \in past[f]
TasksSettle == \A f \in Sources : (f \in Rows /\ queue[f].status = "queued") ~> Settled(f)

=============================================================================

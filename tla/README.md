# A TLA+ verification of the Estafette CI API

The Estafette CI API (`src/main.go`, `src/pkg/...`) is the REST service behind
the Estafette build system. It stores builds, releases and bots in
CockroachDB, starts one Kubernetes job per build, release or bot, receives the
events the `ci-builder` in that job posts back, lets users cancel what runs,
fires the triggers that start further builds and releases, moves repositories
to other names, and controls who may do all this. The modules here model its
stateful and concurrent core, TLC checks them on small instances, and TLAPS
proves the main safety results for instances of every size.

## 1. Inventory

| Part | State | Operations | Talks to |
| --- | --- | --- | --- |
| database client, `clients/database/client.go` | rows of builds, releases, bots; build versions; computed pipelines and releases; users, groups, organizations, clients; logs | insert, conditional status update, upsert of computed tables, archive, rename, queries | CockroachDB |
| core service, `services/estafette/service.go` | none of its own | CreateBuild/Release/Bot, FinishBuild/Release/Bot, FireXTriggers, Rename, UpdateJobResources | database client, job client, Prometheus, Cloud Storage |
| HTTP handlers, `services/estafette/transport.go` | none of their own | create, cancel, Commands (builder events), logs, tailing | core service, database client, job client |
| job client, `clients/builderapi/client.go` | none; the Kubernetes job, configmap and secrets of each job | create, cancel, await and remove, tail logs | Kubernetes |
| migration, `services/estafette/migration*.go`, `clients/database/migration.go` and its `queries/*.sql` | table of migration tasks; counters of a pod | queue, restart, pick, run stage by stage, roll back, archive | database, gcs-migrator |
| worker pool, `pkg/pool` | job and result channels, retry budget, error list | SendJobs, Close, Errors | users of the pool: DeleteLogs |
| rbac service and handlers, `services/rbac` | rows of users, groups, organizations, clients; tokens | login, impersonation, create, update, delete, batches | database client, OAuth providers |
| manifest injection, `pkg/api/manifest_injector.go` | the stages in the configuration | inject stages and commands into a manifest | core service, configuration |
| configuration, `pkg/api/config*.go` | configuration | read, defaults, reload | everything |
| queue, `services/queue/service.go` | NATS subscriptions | receive and publish cron and git events | core service |
| source hosts, `services/{github,bitbucket,cloudsource,pubsub}` | none | webhooks, access tokens, build status | core service, queue |
| catalog and slack services | catalog rows | CRUD, slash commands | database client |
| `main.go` | the process | wiring, router, reload of the configuration, shutdown | everything |
| `gcs-migrator` | none | copy log objects | Cloud Storage |

How the parts interact: a handler runs in a goroutine of its own and calls the
core service and the clients synchronously; what must not delay the answer
(computed tables, triggers, removal of jobs, the last login of a user) is
started in further goroutines, mostly with a context that is never canceled. No
lock is shared between requests. Three things coordinate them: the
`WHERE status IN (...)` clause of the status updates, the transactions of the
migration, and nothing else; everywhere else a row is read, changed in memory
and written back. The builder in the pod knows nothing of the handlers: it
posts events over HTTP and repeats those that are not answered. Several pods
run the api, so every interleaving between requests is also one between
processes.

What is hard here, and what must hold:

- *job lifecycle*: create, cancel and the builder's events interleave on one
  row and one Kubernetes job. A row must follow its life cycle, end with the
  builder's result, become canceled only for a user, and nothing may stay
  behind in Kubernetes.
- *trigger firing*: the fan-out must fire each trigger once, within the limit,
  and end; the result a finished trigger is told must be the one the row keeps.
- *versions, reruns, releases*: versions increase, a version is only rebuilt
  when all its builds failed, and only released when one of them succeeded.
- *computed tables*: unordered goroutines must leave a true copy behind, and
  must not take back what users chose in the meantime.
- *worker pool*: every job ends in a result or an error, and calls end.
- *migration*: a task is executed by one pod at a time, is not lost, rolls
  back, and what it says is copied is copied.
- *access control*: no write takes back what an administrator granted, tokens
  have the roles their user inherits.
- *injection*: every job gets the configured commands around its stages.

`PROJECT.json` lists every component with its status, and every hazard with the
line at which it bites.

## 2. Modules

| Modules | What | Section |
| --- | --- | --- |
| `JobTable`, `JobStatus`, `CiBuilderJobs`, `JobLifecycle`, `JobLiveness`, `JobLifecycleProofs` | the job lifecycle | 3 |
| `BoundedFanout`, `TriggerFanout`, `TriggerProofs` | FireXTriggers: errgroup, semaphore, captured `err` and `ctx` | 4 |
| `FinishedTriggers`, `TriggerProofs` | `JobTable` composed with the goroutine of FinishBuild and FinishRelease | 5 |
| `BuildLedger`, `BuildVersions`, `BuildVersionsProofs` | GetAutoIncrement, the rerun check, the release check, on rows of `JobTable` | 6 |
| `ComputedTables`, `ComputedTablesProofs` | UpsertComputedPipeline/Release, archival, permissions, and the readers CreateBuild and fireRelease, on rows of `JobTable` | 7 |
| `WorkerPool`, `WorkerPoolProofs` | channels, retries, panics, Close and Errors, with DeleteLogs | 8 |
| `Migration`, `MigrationProofs` | queue, pods, stages, restart, rollback, crashes, with the builds of the source | 9 |
| `AccessLedger`, `AccessControl`, `AccessControlProofs` | logins, impersonation, edits and batches on rows of users, groups, organizations, clients; the configured administrators | 10 |
| `ManifestInjection`, `ManifestInjectionProofs` | the stages of the configuration that all jobs share | 11 |

`MC...` modules hold values of constants, symmetries and regimes; each run has a `.cfg`
named after it. A run checks several questions at once, since each of its
properties has the same interesting instance. `JobStatus`, `BoundedFanout`,
`BuildLedger` and `AccessLedger` are the abstract specifications: what readers
of the rows, callers of a method, users of versions and administrators rely
on; the detailed module is shown to implement each (properties
`StatusLifeCycle`, `FansOut`, `KeepsLedger`, `KeepsGrants`).

Many of these components break an ideal promise in some rare interleaving. The
properties say precisely in which: a history variable (`past`, `raced`,
`overlapped`, `lost`, `caller`) records that the interleaving happened, and the
property states what holds otherwise. So a property is as strong as the code
is, and a change of the code that breaks a promise in one more case violates
it.

## 3. The job lifecycle

### Modules

- `JobTable` is the status column. `AllowedFrom` is the `switch` of
  UpdateBuildStatus, UpdateReleaseStatus and UpdateBotStatus, which are equal,
  and `UpdateStatus` the conditional UPDATE: one atomic statement, and a row
  that does not match is `sql.ErrNoRows`, which the code turns into success.
- `JobStatus` is the abstract specification: the life cycle that a reader of
  the rows relies on.
- `CiBuilderJobs` is the Kubernetes side: `kjob` is the job object, `objs` its
  configmap and secrets; `NextCall`/`CreateObject` are CreateCiBuilderJob,
  `JobExists` the Get calls, `RemoveCore` is removeCiBuilderJobCore.
- `JobLifecycle` composes them. Its actions are

  | Action | Code |
  | --- | --- |
  | `StoreRow`, `CreateStep`, `CreateFails` | CreateBuild, CreateRelease, CreateBot with CreateCiBuilderJob |
  | `CancelRead`, `CancelGet`, `CancelCore`, `CancelStore(Fails)`, `CancelSettle(Fails)` | CancelPipelineBuild/Release/Bot with CancelCiBuilderJob |
  | `HandleStatus` | Commands, UpdateBuildStatus, FinishBuild/Release/Bot |
  | `HandleClean`, `RemoverGet`, `RemoveJob` | Commands and the goroutine that runs RemoveCiBuilderJob |
  | `PodStart`, `BuilderFinishes`, `BuilderStopped`, `BuilderCleans`, `PodKilled`, `PodCrash`, `CollectJob`, `GiveUp` | Kubernetes and the ci-builder (external) |

- `JobLifecycleProofs` holds the theorems, `MCJobLifecycle` the values of the
  constants for TLC.

### What is abstracted

- Every call to the database or to Kubernetes is one step, so handlers,
  goroutines and builders interleave between any two of them. The four
  deletions of removeCiBuilderJobCore are one step: they are idempotent, do not
  depend on each other, and any subset of them may fail.
- `Faults` names the calls that may fail. A failing call may have had its
  effect (the reply was lost), be it the INSERT of a row that is refused
  (`Refuse`, an invalid manifest or secret): such a row is failed without a
  builder whether or not the caller was told (`ResultIsReported`). A process of the api that dies between two steps
  leaves what a failing call leaves, so crashes need no action of their own.
- An update of a status event that fails is answered 500 and the event comes
  again: `Answer(e, TRUE)` covers it, with and without the update.
- The builder posts running when it starts, its result when it ends, then
  clean. It waits for an answer, except when its pod is being deleted. With
  `Reliable` it repeats an event until it is answered; without, it may give up
  on any event (`GiveUp`). An event may arrive again after it was answered and
  overtake later ones: `net` is a set from which an event need not be removed. A
  builder that has reported its result does not crash before it exits.
- Jobs share nothing: their names end in the id of the row. One job shows all
  behaviours in TLC; the proofs are for any set of jobs.
- Triggers fired by FinishBuild, computed tables, resource usage, logs,
  authentication and the text of answers are left out.
- `BackoffLimit` and `RemoverBound` bound the restarts of a pod and the
  removal goroutines alive at once.

### Runs

| Run | Assumes | Shows |
| --- | --- | --- |
| `reliable` | two cancel requests, one restart, repeated events; all calls but deletions fail | `IInv`, `OutcomeRecorded`, `StartableJob`, `CancelAnswerHolds` |
| `lossy` | a bot, lost events, all calls fail | `CanceledByUser`, `ResultIsReported`, `RemovedByCancellation`, refinement `StatusLifeCycle` |
| `converges` | two regimes, see below | `JobCleanedUp`, `CancelConverges` |

`JobLiveness` puts two regimes of `JobLifecycle` side by side, and a behaviour
stays in its regime: in *working* no call fails, every event arrives and the
pod may crash once, so that nothing of a job may stay behind in Kubernetes; in
*persistent* calls to Kubernetes and events fail without end, and a user who
keeps asking to cancel must still end every row.

Two concurrent cancel requests are enough for every pair of handler positions
(a third one only repeats what one of the two does), one restart for a late
event of a lost pod, two removal goroutines for a repeated clean event. The
request slots are symmetric; the liveness runs use no symmetry. Runs do not
check deadlock: a system in which all jobs have ended stops.

Fairness: in both regimes handlers and goroutines go on until they return, as
the Go scheduler and the time limits of the clients ensure. Only in *working*
Kubernetes starts and ends pods, runs end (the builder has a time limit) and
events arrive; only in *persistent* somebody keeps pressing cancel.

### Where the code breaks a promise

- The cancel of a pending row finds no job while CreateCiBuilderJob is still
  creating the configmap. The row is canceled, the job is created afterwards
  and runs; its events are refused. Its clean event removes it
  (`JobCleanedUp`).
- The answer to the cancel of a *pending* row is not reliable. The handler reads
  pending; the builder's running event is applied; the UPDATE to canceled
  matches no row, which `UpdateBuildStatus` turns into success; the handler
  answers "Canceled build by user". The row stays running, its job is deleted,
  and the builder's canceled event is refused too: only a second cancel ends
  the row (`CancelConverges` shows that it does). `CancelAnswerHolds` is
  therefore about rows the handler read as running or canceling, where the
  answer is right in spite of the same interleavings, except for bots, whose
  handler is not told of a failing UPDATE.

### Proofs

`JobLifecycleProofs` proves, for every set of jobs, bots and requests, every
set of faults and all bounds:

- `Safety`: `Spec => []IInv`. The wanted properties are not inductive. That
  `row = "failed"` repeats the builder needs to know that every event on its
  way is true (`EventsTrue`), which needs that a builder reports once
  (`ReportedOnce`) and that there is no builder before the job is created
  (`CreateFirst`). `CanceledByUser` needs that canceled is only reported for a
  job whose deletion somebody asked for, so that a deletion by a removal
  goroutine comes after the builder's exit (`RemoversLate`,
  `ClickRecorded`). `RunRecorded` and `MountsKept` carry the assumptions
  `Reliable` and "deletions do not fail" as premises.
- One lemma per action shows that the action preserves `IInv`, with one step
  per conjunct it can disturb; `TypeStep` does the same for the types.
- `TypeCorrect`, `CanceledOnlyByUser`, `ResultFromBuilder`,
  `SkippedRemovalIsDone`, `ResultRecorded`, `ActiveJobStarts` follow from
  `Safety`.
- `CancelAnswered`: `Spec => CancelAnswerHolds`, from the invariant
  `SeenHolds` (what a handler has read still bounds how far its row has come)
  and from the refinement step below, by which rows only move forward.
- `RowsFollowLifeCycle`: `Spec => StatusLifeCycle`, the refinement of
  `JobStatus`: an INSERT and an UPDATE that matches follow an edge of the life
  cycle, everything else stutters.

- `NothingForgotten`: `Spec => []Attended`, for any faults but those of the
  removals' own calls (`RemovalsWork`: builders repeat their events, deletions
  and the Get before them do not fail). Every job that is not deleted has a pod
  at work or to come, or a goroutine or clean event that removes it, or its
  pods have all crashed (`JobAttended`); no configmap or secret outlives its
  job (`ObjectsHaveJob`); and the event a builder waits for is on its way
  (`AnswerDue`). This is the safety side of `JobCleanedUp`: what is missing for
  it is that pods, goroutines and events go on, which is fairness.

Only model-checked: `JobCleanedUp` and `CancelConverges`, which are liveness
properties under fairness.

## 4. Firing triggers

### Model

The seven methods FireGitTriggers, FireGithubTriggers, FireBitbucketTriggers,
FirePipelineTriggers, FireReleaseTriggers, FirePubSubTriggers and
FireCronTriggers share one shape: select the triggers that match, start one
goroutine for each in an errgroup, limit them with a weighted semaphore, wait.
`TriggerFanout` is that shape; the set `Triggers` stands for those that match.

| Action | Code |
| --- | --- |
| `Go`, `Wait`, `Return` | `g.Go` in the loop, `g.Wait`, the end of the method |
| `ReadContext`, `Acquire`, `AcquireFails`, `Assign` | `err = semaphore.Acquire(ctx, 1)`: evaluate the argument, call, fail, assign |
| `Check`, `ReturnError` | `if err != nil { return err }`, two reads of the shared variable |
| `Fire`, `Release` | the replaced `ctx` and the fire call, the deferred `Release` |
| `RequestEnds` | the client of a Pub/Sub push goes away |

The closures assign `err` and `ctx` of the method that starts them, so all
goroutines share both. Each access to one of them is a step. Go allows more
under a data race (a torn read of the two words of an interface); here a
read returns some value that was written.

Semaphore and errgroup are external, modelled after `golang.org/x/sync` v0.5.0:
`Acquire` takes a free permit without looking at the context, waiters are
served in order, a canceled waiter leaves the queue, releasing more than is
held panics. What a fired trigger does (fireBuild, fireRelease, fireBot) is
between `Fire` and `Release`; its errors are logged and dropped. Which trigger
matches which event is left out.

`caller` is "present", "left" when the request ended after every goroutine had
its permit, and "leftEarly" when it ended before. Only FirePubSubTriggers can
see either: all other callers pass a context nobody cancels.

### Run

`fanout` (four triggers, two permits: two goroutines wait while two release):

- `FansOut`, the refinement of `BoundedFanout`: each trigger is fired once, at
  most `Concurrency` at a time, before the method returns. It is stated up to
  the step at which a caller leaves early; one that leaves later changes
  nothing, which is what "create new context to avoid cancellation impacting
  execution" promises;
- `WaitEnds`: the wait ends, unless a caller left early.

When the push request is canceled early the promises fail: a goroutine that did
get a permit can read the error another one stored, and return before its
`Release` is deferred. The permit is lost, and a goroutine that waits for it
under the background context (stored in the shared `ctx` by a goroutine that
already fires) waits for ever, and with it `g.Wait`. In the other direction a
nil overwrites the error of a canceled goroutine, which then fires without a
permit.

Fairness: the Go scheduler runs every goroutine that can go on.

### Proofs

`TriggerProofs`, for every finite set of triggers and every
`Concurrency`: `FanoutSafety` (`IInv`: as long as no caller has left early, no
error ever appears, so every goroutine that got a permit keeps it until it
releases it, the semaphore's count is the number of those goroutines, and the
queue holds each waiting one once), `FanoutLimited` (at most `Concurrency`
fire), and `FanoutImplementsContract` (`FansOut`). The invariant is what makes
the hand-over of a permit in `Release` a step of the contract: the head of the
queue is known to wait. It also has that every waiting goroutine is in the queue
and that the queue is empty while a permit is free (`WaitersQueued`), and that
the method only waits when all goroutines were started (`AllSpawned`). From
these follows `NoWakeupLost`: a goroutine waits only while all permits are held
by others, and as long as the method waits for goroutines one of them can go on.
That is the safety side of `WaitEnds`, which itself is liveness and stays with
TLC.

## 5. Finished triggers

`FinishedTriggers` extends `JobTable`. For each status event FinishBuild and
FinishRelease update the row and, whether the UPDATE matched or not, start a
goroutine that reads the row again (`ReadRow`) and fires the "finished" triggers
with the status it finds (`Fire`); it gives up silently when a call fails
(`Quit`, recorded in `lost`). The builder (`PostRunning`, `PostResult`) posts
running and, once answered, its result; events are repeated and overtake each
other; `HandleFails` is an UPDATE answered with an error, carried out or not;
`UserCancels` are the cancel handlers, which update rows without a goroutine.

The run `announce` (three goroutines at once, one for each of two events and a
repetition; all faults) shows `ResultAnnounced`: a result that reaches the row
is announced, also when the UPDATE that set it was answered with an error and
the repeated event matches no row; this is why the goroutine must be started
regardless. The exception is a goroutine that gave up: nobody tries again. A
result may be announced more than once (each repeated event starts a goroutine
of its own), so no property says "once". The "started" event of new builds and
bots, which fire nothing, are left out.

Fairness: goroutines run on, and an event that is posted again and again is
handled. The latter is strong fairness only because the model's slots for
goroutines may be taken for a while; the api has no such bound.

`TriggerProofs` (which has `FinishedTriggers` as `F`), for any number of jobs
and goroutines:

- `AnnouncementsSafety`: `IInv` is inductive; the strengthening is that what a
  goroutine read as a result still holds, which rests on `AllowedFrom` having no
  way out of a terminal status.
- `AnnouncedIsFinal`: a result the triggers were told is the one the row has and
  keeps, although a goroutine decides on what it read before while other
  events, late ones and cancel requests change the row.
- `ResultNotForgotten`: a result in a row has been announced, or its event or a
  goroutine that will announce it is under way, or a goroutine gave up. This is
  the safety side of `ResultAnnounced`, which stays with TLC.

## 6. Versions, reruns and releases

### Model

`BuildVersions` is one pipeline: its counter in `build_versions`, its builds in
order, requests that overlap, and the versions released.

| Action | Code |
| --- | --- |
| `NewBuild`, `Increment`, `ReadNumber`, `Insert` | CreateBuild for a push or a trigger: GetAutoIncrement's two statements, InsertBuild |
| `Rerun`, `CheckUnfailed`, `Insert` | CreatePipelineBuild: its two queries, then CreateBuild with the old version |
| `FindSucceeded`, `CreateRelease` | CreatePipelineRelease and InsertRelease |
| `Fail` | any query in between fails, and the request ends |
| `Progress` | status updates of builds, by the rules of `JobTable` |

A version is its number: templates that contain it (the default does) keep the
order of the numbers; those that do not are outside this model. `known`, in a
request and in the build it stores, is how many builds were stored when the
request came; `overlapped` records that a request came while another one was
handled. `NumberBound` and `BuildBound` bound the numbers and builds.

### Run

`requests` (two overlapping requests of any kind, three numbers, four builds):

- `LaterIsHigher`: a new build has a higher version than each build stored
  before its request came. Two increments before two reads give both requests
  the same number, so no property says that versions of overlapping pushes
  differ; `LaterIsHigher` is what remains true;
- `ReleasesSucceeded`: a released version has a build that succeeded, although
  the release is stored after further queries;
- `KeepsLedger`, the refinement of `BuildLedger`: versions increase, and a
  version is only built again when all its builds failed or were canceled, up
  to the step at which requests overlap. After that "only if all builds are
  failed the pipeline can be re-run" does not hold: two overlapping reruns of a
  version both find only failed builds and store a build each.

Three builds are enough for a failed build and two reruns of it, the fourth is
for a later one. No fairness: all properties are about safety.

### Proofs

`BuildVersionsProofs`, for any number of requests and all bounds:
`VersionsSafety` (`IInv`), `VersionsIncrease` (`LaterIsHigher`) and
`ReleasedHasSucceeded` (`ReleasesSucceeded`). `LaterIsHigher` needs `Issued` (no
version is ahead of the counter) and `AboveKnown` (a request that incremented
will read, or has read, a number above the versions of the builds it knew),
`ReleasesSucceeded` that a succeeded build stays so (`Looked`). `SerialSafety`,
`OneBuild` and `KeepsLedgerWhenSerial` are about behaviours up to the first
overlap: a request knows all builds (`Unchanged`), so a rerun's check is still
true when its build is stored.

## 7. The computed tables

### Model

`ComputedTables` is one pipeline with one release target. Every INSERT and
UPDATE of a build or release starts a goroutine that reads the tables and
upserts `computed_releases` and `computed_pipelines`; goroutines of several
changes are not ordered. The row they write is what pages show, what
fireRelease releases and what CreateBuild derives the builder's maximum
counters from.

| Action | Code |
| --- | --- |
| `InsertBuild`, `UpdateBuildStatus`, `InsertRelease`, `UpdateReleaseStatus` | the database client's methods with the goroutine each starts |
| `UpdateComputedTables`, `ReadRelease`, `WriteRelease` | UpdateComputedTables, UpsertComputedRelease |
| `ReadBuilds`, `ReadTargets`, `WritePipeline` | UpsertComputedPipeline with enrichPipeline |
| `Fail` | a query of a goroutine fails, or the process ends |
| `CreateBuild`, `GetCounter`, `ReadBranch` | CreateBuild up to its INSERT: GetPipeline, getBuildCounter, and the builds of the branch the row shows |
| `FireRelease`, `LookUp` | fireRelease |
| `CallFails` | any other query of these fails |
| `SetArchived`, `LoadPermissions`, `UpdatePermissions` | archive and unarchive, the page and UpdatePipeline |

`changes` numbers the changes of the tables; `seen`, in what was read, is that
number at the time of the read, so that "an older read was written last" can be
said: `history` keeps the newest read that was written. `ManifestArchived` is
what the manifest says, with which every upsert overwrites `archived`.

CreateBuild ignores the errors of GetPipeline and GetPipelineBuilds: it goes on
as if there were no row, or no builds of the branch, and both maximum counters
stay what they are (`CreateBuild` reads the row or nothing, `ReadBranch` may
leave the maximum alone). A version is the number of its counter. The event
that fires a release may name a version of any build, of another pipeline, or
none: `FireRelease` is given any version, and one equal to the version shown is
released without a look.

### Run

`computed` (three builds on two branches, two releases, four events in all, two goroutines at a
time):

- `PipelineUpToDate`, `TargetUpToDate`: when the goroutines are done the row
  shows the last build and the last release with their statuses, unless an older
  read overwrote a newer one or a goroutine failed since the last change;
- `PermissionsKept`: no goroutine takes back groups that users chose;
- `ArchivedKept`: a pipeline is archived or not as users chose last, or as the
  manifest says, or as a page loaded before that choice: UpdatePipeline saves
  `archived` as the page has it;
- `TriggeredReleases`: a version that a trigger releases has a build that
  succeeded, or it is the version the pipeline showed, of which fireRelease does
  not check that (CreatePipelineRelease would refuse it). A version that is only
  another pipeline's is never released;
- `SettledCalls`: a call that reads the row when nothing is under way acts on
  the state of the tables: the maximum told to the builder is not below the
  version of the last build. The last build is the one inserted last, so that a
  rerun of an old version makes this maximum lower than numbers already used,
  and a call that could not read the row has its own number. The maximum of the
  branch is this maximum or the call's own number, whatever was read in between
  and however stale the row: with several builds on the branch none of them
  counts, higher ones neither.

Two goroutines are enough for each order of two reads and two writes, three
builds for a rerun after a newer version. Failing goroutines and calls count
among the four events (`ChangeBound`); the errors CreateBuild ignores do not.
Versions of events go up to `BuildBound`, so that some are not there. No
fairness.

### Proofs

`ComputedTablesProofs`, for any numbers of builds, releases, calls and
goroutines. `TablesSafety`: `IInv` is inductive. The core are three "carried"
invariants: the last change of a build reached the pipeline, or a goroutine is
under way that will read it or has read what is at least as new, or one failed
since (`BuildCarried`); the same of releases and `computed_releases`
(`ReleaseCarried`), and of what is copied from there into the pipeline
(`TargetCarried`). With `RowsShow` and `GoroutinesShow` (what was read after
the last change shows the last job) the six properties follow:
`PipelineShowsLastBuild`, `PipelineShowsLastRelease`, `PermissionsAreKept`,
`ArchivedIsKept`, `TriggersReleaseSucceeded`, `CallsActOnTables`. `NeverEmpty`,
part of `IInv` and of `TypeCorrect`, shows that a goroutine which has rows to
read finds one, so that the code's branch for empty tables, which logs and
returns without an upsert, is never taken by these callers and is not modelled.

## 8. The worker pool

### Model

`WorkerPool` is a pool and its user: DeleteLogs, which lists the log objects of
a repository and deletes them with a pool, or ("Close") a caller that keeps to
the comments of the interface: send all jobs, close the pool, read all results,
ask for the errors. `Configs` chooses the user, `MaxRetry` and `HandlePanic`.

| Action | Code |
| --- | --- |
| `Take`, `Leave`, `Crash`, `StoreResult` | startWorker and removeWorker, a panic that is handled or not |
| `Read`, `Retry`, `AppendError` | the worker's accesses to `MaxRetry` and `errors`, which all workers share without the mutex |
| `Call`, `Assign`, `Check` | the Worker function of DeleteLogs, which assigns the `err` of the enclosing function |
| `ListNext`, `ReadsErr` | the listing loop: `it.Next()` and three reads of the same `err` |
| `ListSafely`, `SendJobs`, `Close`, `Errors`, `ReturnErrors` | the user's calls |

The channels are bounded (`JobQueueLimit`, `ResultQueueLimit`). `past` records
that a read of `err` returned another goroutine's value ("torn"), that two
workers met in `MaxRetry` or `errors` ("overlapped"), that a worker panicked or
the process ended.

### Run

`pool` (two workers, channels of one element, five jobs or a list of up to five
objects: the workers and the channels hold four, so that the user waits with
the fifth while both workers wait for a reader of their results; both users,
with and without retries and panics):

- `NothingForgotten`: the caller that closes the pool learns of every job, by
  its result or by its error, unless two workers met in the slice or one
  panicked;
- `RetriesKept`: "MaxRetry is cumulative for all jobs": it is, unless two
  workers overlap;
- `SuccessDeleted`: DeleteLogs returns no error only after it deleted an object,
  unless a torn read misled it. It does not say that all objects are gone:
  DeleteLogs waits for one result only;
- `CallEnds`: a call ends unless the process crashed, or the user waits for a
  result that never comes (DeleteLogs never closes its pool, and an empty list
  or failing deletions give no result), or it sends to workers that all wait
  for somebody to read their results. That needs a fifth job, or a worker lost
  to a panic or to a nil that was sent.

Fairness: the Go scheduler runs every goroutine that is not blocked.

### Proofs

`WorkerPoolProofs`, for any number of workers, jobs and all limits:
`PoolSafety` (`IInv`), `RetriesAreKept`, `SuccessHasDeleted`, `NilIsNotSent`,
`NoJobForgotten`. `IInv` has the types with `ClosedLast` (the results are
closed exactly when the last worker has left, so nobody sends on a closed
channel), `JobsReal` (only listed jobs are anywhere), `DeleteInv` (unless torn,
a result is sent of an object whose deletion succeeded) and `CloseInv` (every job listed so far is
in a channel, a worker, the results or the errors).

`NoOtherDeadlock` is the safety side of `CallEnds`: in every state in which the
user and all workers wait (`ClientWaits`, `WorkerWaits`: the negations of the
guards of their steps) and the call has not ended, the deadlock is one of the
two that `CallEnds` names, `NoResult` or `NoTaker`. It rests on `PlacesSafety`:
workers only leave when the jobs are closed or with a panic
(`GoneForAReason`), and, unless DeleteLogs was misled by a torn read, each
object that was listed is in one place only (`InOnePlace`), so that full
channels and waiting workers can be counted: all of them together hold
`JobQueueLimit + Cardinality(Workers) + ResultQueueLimit` objects, beside the
one that is sent. That calls do not go on for ever is liveness: `CallEnds`
itself stays with TLC.

## 9. Repository migration

### Model

`Migration` moves repositories (`Sources`) to one target each. Requests queue,
restart and roll back tasks and set the archival of pipelines; every pod polls
the queue and executes the stages of a task one after the other; builds of the
source go on.

| Action | Code |
| --- | --- |
| `QueueMigration`, `QueueTransaction`, `RequestFails` | the handler's check outside the transaction, the transaction (link, insert or restart) |
| `RollbackMigration`, `RollbackTransaction`, `RollbackObjects` | the handler, the deletion of rows and task, the deletion of log objects, which can fail half-way |
| `SetPipelineArchival` | the handler, for either name |
| `CountTasks`, `PickMigration`, `StartTasks` | one round of PollMigrationTasks; the error of the commit in PickMigration is dropped |
| `Execute`, `ExecuteFails`, `UpdateMigration`, `UpdateFails` | the goroutine of a task: a stage, its failure with partial effect, the UPDATE after it |
| `Crash`, `Stop`, `Exit`, `Restart` | a lost pod, a graceful shutdown, the new process |
| `BuildInserted`, `BuildStarts`, `BuildEnds`, `UpsertComputedPipeline` | builds of the source and the goroutine that writes its computed pipeline |

The queries are read from `queries/*.sql`. The database is CockroachDB, whose
transactions are serializable: `PickMigration` is one step, two pods never pick
the same row from one state. `next` stands for `last_step`: the stage after the
one done. A stage stores what its SQL joins with; where that is missing it
stores nothing and succeeds (`Needs`, `Has`). MigrateBuilds copies month by
month up to, and without, the newest build: the calendar is abstracted to "all
but the newest". Releases are copied by one statement. Targets are not built or
moved again. `FaultBound` bounds crashes, shutdowns and failed commits;
queries fail without bound.

`past` names what can happen to a source: "restarted", "doubled" (restarted
while executed), "skipped" (restarted at a later stage than the failed one),
"reused" (an id given for another task), "uncommitted", "lost" (a goroutine
ended with its task unfinished), "raced" (another request between check and
transaction), "overtaken" (rolled back while executed), "left" and "swept"
(objects a rollback left, or deleted from a newer task), "shown" (the source
unarchived), "unguarded" and "live" (builds that begin behind the check for
running builds, builds copied under way).

### Runs

- `migration` (three requests, two pods, one fault, two builds, six stages):
  `OneExecutor`, `InProgressExecuted`, `CompletedIsComplete`, `TargetHasTask`,
  `Linked`, `TargetHidden`. Three requests are needed for queue, restart or
  rollback, and queue again; two pods for a task executed twice.
- `settle` (two repositories, one with up to two new builds, one pod that
  executes one task at a time): `SourceArchived`, `LiveCopyUnguarded` and
  `TasksSettle`: tasks wait for each other and for running builds and end all
  the same, unless abandoned or rolled back.

Each property names the exceptions the code has; those worth knowing: a pod
that stops leaves its tasks in progress for ever (the reset to queued is made
in memory); the newest build is never copied, and with a single build nothing
is, although the task completes; a rollback during an execution leaves copies
without a task; a pending build passes the check for running ones.

Deadlock is checked in both runs. Fairness: polling and goroutines go on, a
stopped pod is replaced, builds that started end.

### Proofs

`MigrationProofs`, for any sets of repositories, pods, slots and requests, any
stages that fulfil `StagesAssumption` (each once, after what it needs,
"completed" last), any numbers of builds and faults.

- `TypeCorrect`: types, no build is lost, a request under way knows its
  repository and task.
- `RowsAgree`: `RowsInv` is inductive. Beside the properties it has `UniqueIds`,
  `QueuedFree` (a queued task has no goroutine but for a named exception),
  `ExecutedArchived` (the source stays archived while a goroutine works, also
  when the row was queued again), `Guarded` (a live build in a source that is
  worked on was pending before or inserted since) and `OvertakenWorkers`. From
  it `ExecutedOnce`, `ProgressIsReal`, `TargetsHaveTasks`, `TasksLinked`,
  `SourcesArchived`, `LiveCopiesUnguarded`.
- `StagesDone`: `StagesInv` is inductive: for each row, its goroutines belong
  to it (`OwnOf`), and the stages before the next one of the row and of each
  goroutine were executed and what they stored is still there (`ProgressOf`).
  `CompletedTasksAreComplete` follows.
- `TargetsAreHidden`, under the assumption that no user unarchives a target
  (`TargetsStayHidden`, a premise of the theorem; the run's `Archivals` fulfil
  it): the pipeline that was copied stays hidden.

- `EndedTasksAreFree` and `OutcomesStand`: a task that failed or completed has
  no goroutine left, so its row changes only when a user restarts it or rolls
  it back: whatever pods poll, crash or restart. The exception is a task that
  may be executed twice (`Twice`: doubled, reused, uncommitted).
- `ParallelLimitKept`: a pod never executes more than
  `maximumParallelMigrations` tasks, although it counts them in one step and
  picks new ones in a later one: what it is going to ask for still fits beside
  those at work (`CountStands`), since meanwhile goroutines only end.

`TasksSettle` is liveness and stays with TLC.

## 10. Access control

### Model

`AccessControl` has the rows of users, groups, organizations and clients. A row
has whose it is (the identity of a user, the name of an organization), for a
user an email, and lists roles, groups and organizations; its other fields are
left out, and a user has one identity. Every update is a read of the whole row,
a change in memory and a write of the whole row, the fields it did not change
included.

| Action | Code |
| --- | --- |
| `LoginRead`, `LoginCreate`, `FindOrganization`, `CreateForLogin`, `LoginFails` | HandleOAuthLoginProviderAuthenticator up to the user and its organization |
| `CollectRoles`, `CollectFails`, `Collected`, `Answer` | GetInheritedRolesForUser and the token |
| `SaveCheck`, `SaveWrite`, `SaveFails` | the goroutine of a login that runs UpdateUser and assigns the login's `err` |
| `Impersonate` | HandleImpersonateAuthenticator |
| `CreateUser` ... `CreateClient`, `EditUser` ... `EditClient`, `UpdateUser` ... `UpdateClient`, `DeleteUser` ... `DeleteClient`, `Write`, `EditFails` | the handlers of administrators; the goroutines of a batch are edits in requests of their own |
| `EditIdentity`, `EditEmail` | the page of a user, whose identities and email UpdateUser copies, too |
| `Reload` | main's watch on the configuration, which replaces the administrators |

A request that creates a user decides its role and inserts it in one step, and
an edit changes one field of its copy: what two such changes do to a row, one
after the other or overlapping, is there. The names of groups and organizations
are not edited. A login's goroutine gives a user the email of the identity that
logs in: that is what `GetEmail`, which is not in the repository, is taken to
return.

UpdateUser sets the administrator role by the email in the copy and writes
later. The variable `outdated` notes the users whose role was decided under a
former configuration (those that exist when it is replaced, and those written
by a copy checked before), `current` does so for a copy. `raced` notes the
identities that two first logins create at the same time and those an
administrator creates or gives to a user.

`AccessLedger` is the abstract specification: a row is created, changed by one
grant at a time, a user given another identity or email, a row deleted for
good, and only the configuration makes a user administrator.

### Runs

`access` has two users and two requests, in two regimes that
`MCAccessControl` instantiates and a behaviour does not leave. In "granting"
there are a group, an organization and a client, one email, configured as
administrator or not, and one change by an administrator. In "lone" there are
users alone, but two emails of which one may be configured, two changes and one
replacement of the configuration. One instance with all of it is too large; each
property needs only what one of the regimes has. Clients, to which no row
refers, exist at first where groups do.

- `KeepsGrants`: rows change as the ledger says, except by a writer whose copy
  is older than the row or whose role is that of a former configuration. Such
  writers exist: a login's goroutine takes back what was granted since it read
  the user;
- `TokenRoles`: a token has exactly the roles its user inherits unless a group
  or organization was written meanwhile, and a login that could not collect
  them is refused, unless the goroutine's assignment of the shared `err` hides
  that: then the token has no roles, or a login is refused without reason;
- `AdministratorsConfigured`: a user has the administrator role of its own
  exactly when its email is configured, whoever wrote it last and whatever
  email it was given, and also after a replacement once it was written again.
  Until then it keeps the old role: nothing in the code goes over the rows.
  The "lone" regime is about this property and the next;
- `OneUserPerIdentity`: one user per identity, unless first logins overlap, an
  administrator creates one, or one gives a user another identity: a copy with
  the old identity, written later, can give that back.

Two requests give every pair of positions of two handlers, plus the goroutine
each login leaves behind. No fairness.

### Proofs

`AccessControlProofs`, for any sets, any configurations and any bound:
`TypeCorrect`, `ConfiguredAdministrators` (every copy still to be written that
is `current` has the role for the email it is written with: `RoleInv` of the
rows, `EditInv` and `SaveInv` of the copies, which `ReloadKeeps` carries over a
replacement), `GrantsKept` (the refinement: a copy in hand differs from the row
it was read from in one thing, up to the role that the configuration decides:
`OneChange`, `Same`), `TokensInherit` (`TokenInv`: what was collected and what
is still to be read never lose an inherited role), `OneUser` (`AloneInv`: who
creates a user alone found none; `BackInv`: a copy has the identity of its row,
or both are noted).

## 11. Manifest injection

`ManifestInjection` is InjectStages and InjectCommands on stages of the
configuration. The manifest belongs to the job, the injected stages belong to
the configuration: InjectCommands assigns the `Commands` of stages that all
jobs share, and nothing guards them. `Reload` is the replacement of the
configuration while jobs are created. Counted is how often the configured
commands stand before and after a stage's own.

The run `injection` (two jobs at a time, three in all, one reload, manifests
with builds and a bot or with two releases) shows `CommandsInjected`: when a job
is created each of its stages has the commands around it once for every job
that listed the stage since the configuration was read: the first one gets
them once, every later one once more than the one before. Bots get none. An
overlap of two jobs may lose some, and never adds any. Which stage is injected
by its name and labels is a choice.

### Proofs

`ManifestInjectionProofs`, for any sets of jobs, manifests and configurations:
`InjectionSafety` (`IInv`) and `CommandsAreInjected` (`CommandsInjected`).
The property speaks of stages whose job is done; the invariant adds those under
way. `Waiting(s)` are the places of a job that has still to prepend to stage
`s`, `Open(s)` those of a job that has still to append. What stands around the
commands plus what is still to come is at most the number of times the stage
was listed, and exactly that number when no two jobs met (`StagesAccounted`).
The commands a job has read, and is about to write back, fit in the same way
(`ReadsAccounted`): that is what two interleaved jobs need. A stage that two
jobs list at a time is known to be raced (`RacesSeen`), a job goes through its
list in order (`Ordered`), and nothing is wrapped around a bot
(`BotsUnwrapped`).

## 12. Proofs and what they rest on

The proof modules state their theorems for all values of the constants that
satisfy the named `ASSUME`s of the component's module, which TLC evaluates in
every run. No proof is left out. Every invariant, every action property and
every refinement that a run checks is also a theorem. The liveness properties
(`JobCleanedUp`, `CancelConverges`, `WaitEnds`, `ResultAnnounced`, `CallEnds`,
`TasksSettle`) stay with TLC: reasoning about fairness is out of the prover's
reach. For four of them the theorems have what a proof of liveness would start
from, that nothing is lost or stuck in a state from which only fairness would
have to go on: `NothingForgotten` of the job lifecycle, `NoWakeupLost`,
`ResultNotForgotten`, `NoOtherDeadlock`.

Some theorems state what no run checks: these four, `FanoutLimited`,
`AnnouncedIsFinal`, `OneBuild`, `NilIsNotSent`, `OutcomesStand` and
`ParallelLimitKept`. Three have a premise, which the instance of a run
fulfils where the property is checked: `Reliable` for `ResultRecorded`, no
failing deletion for `ActiveJobStarts`, no unarchived target for
`TargetsAreHidden`. `NothingForgotten` assumes `RemovalsWork`.

Safety proofs all have the same shape: types; an inductive invariant with one
lemma per action; the property from the invariant; for a refinement, each
action maps to a step of the abstract specification or stutters.

## 13. What is not modelled

- Job lifecycle: contents of the pod spec, resource usage, logs. `followPodLogs`
  hands lines to a handler over a bounded channel and blocks when its client
  has gone (`builderapi/client.go:594`); no stored state depends on it.
- UpdateJobResources: floating-point clamping of measured values, stateless.
- Release blocking, build control, which trigger matches an event: stateless
  matching of patterns.
- Rename: two goroutines, the database's and Cloud Storage's, and in the
  database's one goroutine per table, in no order and in no transaction. Both
  loops over the error channels drain them while logging, so the loops that
  should return an error never do (`service.go:1659`, `client.go:6040`): a
  half-done rename is answered as a success. A model would add nothing to that
  reading of the code; its interleavings with builds that are being created
  meanwhile are not modelled.
- The parts of the configuration that are only read, and the refresh of clients
  after a new one is loaded; start-up and routing.
- Clients that only translate requests (source hosts, Slack, Prometheus,
  BigQuery, Docker Hub, NATS; Cloud Storage but for DeleteLogs), read queries
  and statistics, and the gcs-migrator, which `Migration` has as an external
  call that fails.
- The `mock.go`, `tracing.go`, `metrics.go` and `logging.go` files of every
  client and service wrap the same interface method by method without state:
  they are most of what the map does not cover.
- In modelled parts: version templates without the number, the calendar of
  MigrateBuilds, callbacks at the end of a migration, names and labels of
  stages, preferences, listings, catalog entities.

## 14. Sensitivity

Operators marked "Faulty variant" in the modules are plausible mistakes in the
code (a forgotten secret, a check that is dropped, a status that may be left).
They are not part of any specification. For each checked property one of them,
put in place of the operator it varies, makes TLC report a violation, which
shows that the property depends on that piece of the code.

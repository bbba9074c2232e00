--------------------------- MODULE ComputedTables ---------------------------
(***************************************************************************)
(* The computed tables, from which pages, triggers and new builds learn    *)
(* the state of a pipeline: every change of its builds and releases starts *)
(* a goroutine that reads these, and then what it read is written.  The    *)
(* goroutines of several changes are not ordered, and what is not computed *)
(* in the row, its permissions and archived, is changed by users.          *)
(* One pipeline with one release target.                                   *)
(***************************************************************************)
EXTENDS Naturals, Sequences, FiniteSets

CONSTANTS
  Reported,           \* the statuses jobs are set to
  Calls,              \* CreateBuild and fireRelease under way
  Wants,              \* the versions of release actions: see versionToRelease
  Groups,             \* the values of groups and organizations
  Branches,           \* branches of the repository
  None,
  ManifestArchived,   \* archived in the manifest of the pipeline
  BuildBound, ReleaseBound,
  ChangeBound,        \* changes of their rows, choices of users and failures
  PendingBound        \* goroutines at a time

VARIABLES
  builds,             \* rows of builds in the order of their insertion
  releases,           \* rows of releases
  changes,            \* how often these were changed
  counter,            \* build_versions.auto_increment
  pipeline,           \* the row of computed_pipelines
  target,             \* the row of computed_releases
  goroutines,         \* those that update the two
  call,               \* what a call has read
  page,               \* the permissions as an administrator loaded them
  history             \* what the rows and users did

tables == <<builds, releases, changes, counter>>
vars   == <<tables, pipeline, target, goroutines, call, page, history>>

Table == INSTANCE JobTable WITH Jobs <- {}, row <- changes
Status == Table!Status
AllowedFrom(s) == Table!AllowedFrom(s)

ASSUME BoundsAssumption == {BuildBound, ReleaseBound, ChangeBound, PendingBound} \subseteq Nat
ASSUME ReportedAssumption == Reported \subseteq Status
ASSUME WantsAssumption == Wants \subseteq {"latest", "same", "current", "fixed"}
ASSUME ManifestAssumption == ManifestArchived \in BOOLEAN

(* A job as a row shows it, and after which change that was read; the job    *)
(* with the number 0 is none.                                                *)
Shown   == [job : Nat, status : Status, version : Nat, seen : Nat]
Nothing == [job |-> 0, status |-> "none", version |-> 0, seen |-> 0]

Build     == [version : Nat, status : Status, branch : Branches]
Release   == [version : Nat, status : Status, shown : Nat]
Pipeline  == [build : Shown, target : Shown, archived : BOOLEAN, groups : Groups]
ASSUME NoneAssumption == None \notin Groups \cup Pipeline \cup Branches

Goroutine == [change : Nat, at : {"tables", "readRelease", "writeRelease", "readBuilds", "readTargets", "writePipeline"},
              release : Shown, build : Shown, target : Shown]
Call      == [at : {"idle", "counter", "branch", "build", "lookup", "release"}, want : Wants \cup {"none"},
              version : Nat, branch : Branches \cup {None}, shown : Nat, on : Branches \cup {None},
              max : Nat, maxBranch : Nat, settled : BOOLEAN, newest : Nat, deployed : Nat]
History   == [buildChanged : Nat, releaseChanged : Nat, lost : Nat,
              build : Nat, release : Nat, target : Nat,
              groups : Groups, archived : BOOLEAN, shown : BOOLEAN, reverted : BOOLEAN, others : Nat]

TypeOK ==
  /\ builds \in Seq(Build) /\ releases \in Seq(Release)
  /\ changes \in Nat /\ counter \in Nat
  /\ pipeline \in Pipeline \cup {None}
  /\ target \in Shown
  /\ goroutines \subseteq Goroutine
  /\ call \in [Calls -> Call]
  /\ page \in [groups : Groups, archived : BOOLEAN] \cup {None}
  /\ history \in History

Idle == [at |-> "idle", want |-> "none", version |-> 0, branch |-> None, shown |-> 0, on |-> None,
         max |-> 0, maxBranch |-> 0, settled |-> FALSE, newest |-> 0, deployed |-> 0]

Init ==
  /\ builds = <<>> /\ releases = <<>>
  /\ changes = 0 /\ counter = 0
  /\ pipeline = None /\ target = Nothing
  /\ goroutines = {}
  /\ call = [c \in Calls |-> Idle]
  /\ page = None
  /\ \E g \in Groups :
       history = [buildChanged |-> 0, releaseChanged |-> 0, lost |-> 0, build |-> 0, release |-> 0, target |-> 0,
                  groups |-> g, archived |-> FALSE, shown |-> FALSE, reverted |-> FALSE, others |-> 0]

(* The last job of a table, as a query sees it.                              *)
Last(jobs) ==
  IF jobs = <<>> THEN [Nothing EXCEPT !.seen = changes]
  ELSE [job |-> Len(jobs), status |-> jobs[Len(jobs)].status, version |-> jobs[Len(jobs)].version, seen |-> changes]

Versions == {builds[b].version : b \in DOMAIN builds}
Succeeded(v) == \E b \in DOMAIN builds : builds[b].version = v /\ builds[b].status = "succeeded"

-----------------------------------------------------------------------------
(* Changes of builds and releases                                            *)

(* The goroutine of a change.                                                *)
Starts(at) ==
  goroutines' = goroutines \cup
    {[change |-> changes', at |-> at, release |-> Nothing, build |-> Nothing, target |-> Nothing]}

More == changes + history.others < ChangeBound

Changes ==
  /\ More /\ Cardinality(goroutines) < PendingBound
  /\ changes' = changes + 1

(* A build whose manifest is not valid fails at once.                        *)
InsertBuild(c) ==
  /\ call[c].at = "build"
  /\ Changes
  /\ \E status \in {"pending", "failed"} :
       builds' = Append(builds, [version |-> call[c].version, status |-> status, branch |-> call[c].branch])
  /\ Starts("tables")
  /\ call' = [call EXCEPT ![c] = Idle]
  /\ history' = [history EXCEPT !.buildChanged = changes']
  /\ UNCHANGED <<releases, counter, pipeline, target, page>>

(* Faulty variant: an update does not reach the computed pipeline.           *)
UpdateBuildStatusOnly(b, s) ==
  /\ builds[b].status \in AllowedFrom(s)
  /\ Changes
  /\ builds' = [builds EXCEPT ![b] = [@ EXCEPT !.status = s]]
  /\ history' = [history EXCEPT !.buildChanged = changes']
  /\ UNCHANGED <<releases, counter, pipeline, target, goroutines, call, page>>

UpdateBuildStatus(b, s) ==
  /\ builds[b].status \in AllowedFrom(s)
  /\ Changes
  /\ builds' = [builds EXCEPT ![b] = [@ EXCEPT !.status = s]]
  /\ Starts("readBuilds")
  /\ history' = [history EXCEPT !.buildChanged = changes']
  /\ UNCHANGED <<releases, counter, pipeline, target, call, page>>

InsertRelease(c) ==
  /\ call[c].at = "release"
  /\ Changes
  /\ releases' = Append(releases, [version |-> call[c].version, status |-> "pending", shown |-> call[c].shown])
  /\ Starts("readRelease")
  /\ call' = [call EXCEPT ![c] = Idle]
  /\ history' = [history EXCEPT !.releaseChanged = changes']
  /\ UNCHANGED <<builds, counter, pipeline, target, page>>

(* Faulty variant: only the pipeline is updated.                             *)
UpdateReleaseStatusPipeline(r, s) ==
  /\ releases[r].status \in AllowedFrom(s)
  /\ Changes
  /\ releases' = [releases EXCEPT ![r] = [@ EXCEPT !.status = s]]
  /\ Starts("readBuilds")
  /\ history' = [history EXCEPT !.releaseChanged = changes']
  /\ UNCHANGED <<builds, counter, pipeline, target, call, page>>

UpdateReleaseStatus(r, s) ==
  /\ releases[r].status \in AllowedFrom(s)
  /\ Changes
  /\ releases' = [releases EXCEPT ![r] = [@ EXCEPT !.status = s]]
  /\ Starts("readRelease")
  /\ history' = [history EXCEPT !.releaseChanged = changes']
  /\ UNCHANGED <<builds, counter, pipeline, target, call, page>>

-----------------------------------------------------------------------------
(* The goroutines                                                            *)

Goes(g, h)   == goroutines' = (goroutines \ {g}) \cup {h}
Leaves(g)    == goroutines' = goroutines \ {g}
Greater(m, n) == IF m > n THEN m ELSE n

Failure == More /\ history' = [history EXCEPT !.lost = changes, !.others = @ + 1]

(* UpdateComputedTables: the releases to update are those the row shows.     *)
UpdateComputedTables(g) ==
  /\ g.at = "tables"
  /\ Goes(g, [g EXCEPT !.at = IF pipeline # None /\ pipeline.target.job > 0 THEN "readRelease" ELSE "readBuilds"])
  /\ UNCHANGED <<tables, pipeline, target, call, page, history>>

(* UpsertComputedRelease: GetLastPipelineReleases, and the upsert.  There is *)
(* always a release, and a build below, when this is called: NeverEmpty in   *)
(* ComputedTablesProofs.                                                     *)
ReadRelease(g) ==
  /\ g.at = "readRelease"
  /\ Goes(g, [g EXCEPT !.at = "writeRelease", !.release = Last(releases)])
  /\ UNCHANGED <<tables, pipeline, target, call, page, history>>

WriteRelease(g) ==
  /\ g.at = "writeRelease"
  /\ target' = g.release
  /\ Goes(g, [g EXCEPT !.at = "readBuilds"])
  /\ history' = [history EXCEPT !.release = Greater(@, g.release.seen)]
  /\ UNCHANGED <<tables, pipeline, call, page>>

(* UpsertComputedPipeline: GetPipelineBuilds,                                *)
ReadBuilds(g) ==
  /\ g.at = "readBuilds"
  /\ Goes(g, [g EXCEPT !.at = "readTargets", !.build = Last(builds)])
  /\ UNCHANGED <<tables, pipeline, target, call, page, history>>

(* enrichPipeline, of which an error is only logged,                         *)
ReadTargets(g) ==
  /\ g.at = "readTargets"
  /\ \/ Goes(g, [g EXCEPT !.at = "writePipeline", !.target = target]) /\ UNCHANGED history
     \/ Goes(g, [g EXCEPT !.at = "writePipeline"]) /\ Failure
  /\ UNCHANGED <<tables, pipeline, target, call, page>>

(* Faulty variant: the conflict updates every column.                        *)
UpsertedEverything(g, groups) == [build |-> g.build, target |-> g.target, archived |-> ManifestArchived, groups |-> groups]

(* and the upsert, which keeps the permissions of a row that is there; those *)
(* of a new row come from the build.                                         *)
UpsertedPipeline(g, groups) ==
  IF pipeline = None
  THEN [build |-> g.build, target |-> g.target, archived |-> ManifestArchived, groups |-> groups]
  ELSE [pipeline EXCEPT !.build = g.build, !.target = g.target, !.archived = ManifestArchived]

WritePipeline(g) ==
  /\ g.at = "writePipeline"
  /\ \E groups \in Groups :
       /\ pipeline' = UpsertedPipeline(g, groups)
       /\ history' = [history EXCEPT !.build = Greater(@, g.build.seen), !.target = Greater(@, g.target.seen),
                                     !.groups = IF pipeline = None THEN groups ELSE @, !.shown = TRUE]
  /\ Leaves(g)
  /\ UNCHANGED <<tables, target, call, page>>

(* A query fails, or the process ends.                                       *)
Fail(g) ==
  /\ Leaves(g)
  /\ Failure
  /\ UNCHANGED <<tables, pipeline, target, call, page>>

-----------------------------------------------------------------------------
(* Reading the row to create builds and releases                             *)

Pending == goroutines # {}

(* Nothing is under way, the newest read was not overwritten by an older     *)
(* one, and nothing failed since the last change.                            *)
BuildSettled  == ~Pending /\ pipeline.build.seen = history.build /\ history.lost < history.buildChanged
TargetSettled ==
  /\ ~Pending
  /\ pipeline.target.seen = history.target /\ target.seen = history.release
  /\ history.lost < history.releaseChanged
Settled == pipeline # None /\ BuildSettled /\ (releases = <<>> \/ TargetSettled)

(* The versions and the branch a call reads, and for a settled row what it   *)
(* would find in the tables themselves (history).  The branch of a row is    *)
(* that of the build it shows.                                               *)
ShownVersion  == IF pipeline = None THEN 0 ELSE pipeline.build.version
ShownBranch   == IF pipeline = None THEN None ELSE builds[pipeline.build.job].branch
ActiveVersion == IF pipeline = None THEN 0 ELSE pipeline.target.version
Reading ==
  LET read == [Idle EXCEPT !.shown = ShownVersion, !.on = ShownBranch]
  IN  IF Settled
      THEN [read EXCEPT !.settled = TRUE, !.newest = Last(builds).version,
                        !.deployed = Last(releases).version]
      ELSE read

(* CreateBuild, for a version of its own (0), or once more for a version     *)
(* whose builds failed.  An error of GetPipeline is ignored: the call goes   *)
(* on as if there were no row.                                               *)
Rerun(version, branch) ==
  /\ \E b \in DOMAIN builds : builds[b].version = version /\ builds[b].branch = branch
  /\ \A b \in DOMAIN builds : builds[b].version = version => builds[b].status \in {"failed", "canceled"}

CreateBuild(c, version, branch) ==
  /\ call[c] = Idle
  /\ Len(builds) < BuildBound
  /\ version = 0 \/ Rerun(version, branch)
  /\ \E read \in {Reading, Idle} :
       call' = [call EXCEPT ![c] = [read EXCEPT !.at = "counter", !.version = version, !.branch = branch]]
  /\ UNCHANGED <<tables, pipeline, target, goroutines, page, history>>

(* getBuildCounter: the number of a new build, or of the version that is     *)
(* built again; the maximum the builder is told is the version shown if that *)
(* is higher.                                                                *)
GetCounter(c) ==
  LET new     == call[c].version = 0
      version == IF new THEN counter + 1 ELSE call[c].version
  IN  /\ call[c].at = "counter"
      /\ new => counter < BuildBound
      /\ counter' = IF new THEN version ELSE counter
      /\ call' = [call EXCEPT ![c] = [@ EXCEPT !.at = IF call[c].shown = 0 THEN "build" ELSE "branch",
                                               !.version = version, !.maxBranch = version,
                                               !.max = Greater(version, call[c].shown)]]
      /\ UNCHANGED <<builds, releases, changes, pipeline, target, goroutines, page, history>>

(* Faulty variant: the last of several builds counts.                        *)
SingleOrLast(branch) ==
  {b \in DOMAIN builds : builds[b].branch = branch
      /\ \A other \in DOMAIN builds : builds[other].branch = branch => other <= b}

(* The build of the branch shown counts for the branch if it is the only     *)
(* one.                                                                      *)
Single(branch) ==
  {b \in DOMAIN builds : \A other \in DOMAIN builds : builds[other].branch = branch <=> other = b}

(* GetPipelineBuilds of that branch, of which an error is ignored too.       *)
ReadBranch(c) ==
  /\ call[c].at = "branch"
  /\ \/ \E b \in Single(call[c].on) :
          call' = [call EXCEPT ![c] = [@ EXCEPT !.at = "build",
                                                !.maxBranch = Greater(call[c].maxBranch, builds[b].version)]]
     \/ call' = [call EXCEPT ![c].at = "build"]
  /\ UNCHANGED <<tables, pipeline, target, goroutines, page, history>>

(* Faulty variant: the version that is active on the target is not looked    *)
(* for.                                                                      *)
VersionNewest(want, version) == IF want \in {"same", "fixed"} THEN version ELSE ShownVersion

(* What fireRelease releases: the version given, that of the event, that     *)
(* which is active on the target, or else that of the last build.            *)
VersionToRelease(want, version) ==
  CASE want \in {"same", "fixed"}                -> version
    [] want = "current" /\ ActiveVersion > 0     -> ActiveVersion
    [] OTHER                                     -> ShownVersion

(* The pipeline fired for is the row as the trigger found it.  The version   *)
(* of an event may be that of a build of any status, or of another pipeline; *)
(* an event without one counts as the version shown.                         *)
FireRelease(c, want, version) ==
  /\ call[c] = Idle
  /\ Len(releases) < ReleaseBound
  /\ pipeline # None
  /\ LET toRelease == VersionToRelease(want, version)
     IN  call' = [call EXCEPT ![c] =
           [Reading EXCEPT !.at = IF toRelease = ShownVersion THEN "release" ELSE "lookup",
                           !.want = want, !.version = toRelease]]
  /\ UNCHANGED <<tables, pipeline, target, goroutines, page, history>>

(* Faulty variant: any build of the version will do.                         *)
FoundStored(version) == version \in Versions
Found(version) == Succeeded(version)

(* Only of another version than the one shown a build is looked for.         *)
LookUp(c) ==
  /\ call[c].at = "lookup"
  /\ call' = [call EXCEPT ![c] = IF Found(@.version) THEN [@ EXCEPT !.at = "release"] ELSE Idle]
  /\ UNCHANGED <<tables, pipeline, target, goroutines, page, history>>

CallFails(c) ==
  /\ call[c] # Idle
  /\ More
  /\ call' = [call EXCEPT ![c] = Idle]
  /\ history' = [history EXCEPT !.others = @ + 1]
  /\ UNCHANGED <<tables, pipeline, target, goroutines, page>>

-----------------------------------------------------------------------------
(* Users                                                                     *)

Chooses == More /\ pipeline # None

(* ArchiveComputedPipeline and UnarchiveComputedPipeline                     *)
SetArchived(archived) ==
  /\ Chooses
  /\ pipeline' = [pipeline EXCEPT !.archived = archived]
  /\ history' = [history EXCEPT !.archived = archived, !.shown = FALSE, !.reverted = FALSE, !.others = @ + 1]
  /\ UNCHANGED <<tables, target, goroutines, call, page>>

LoadPermissions ==
  /\ page = None
  /\ Chooses
  /\ page' = [groups |-> pipeline.groups, archived |-> pipeline.archived]
  /\ history' = [history EXCEPT !.others = @ + 1]
  /\ UNCHANGED <<tables, pipeline, target, goroutines, call>>

(* Faulty variant: a page that does not show it does not send it.            *)
SavedUnarchived(groups) == [pipeline EXCEPT !.groups = groups, !.archived = FALSE]
Saved(groups) == [pipeline EXCEPT !.groups = groups, !.archived = page.archived]

(* UpdatePipeline and UpdateComputedPipelinePermissions: the groups are      *)
(* those an administrator chose, archived is as the page was loaded.         *)
UpdatePermissions(groups) ==
  /\ page # None
  /\ pipeline' = Saved(groups)
  /\ page' = None
  /\ history' = [history EXCEPT !.groups = groups, !.reverted = @ \/ page.archived # pipeline.archived]
  /\ UNCHANGED <<tables, target, goroutines, call>>

-----------------------------------------------------------------------------
GoroutineStep(g) ==
  \/ UpdateComputedTables(g)
  \/ ReadRelease(g) \/ WriteRelease(g)
  \/ ReadBuilds(g) \/ ReadTargets(g) \/ WritePipeline(g)
  \/ Fail(g)

CallStep(c) ==
  \/ \E v \in 0..counter, branch \in Branches : CreateBuild(c, v, branch)
  \/ GetCounter(c) \/ ReadBranch(c)
  \/ \E want \in Wants, v \in 1..BuildBound : FireRelease(c, want, v)
  \/ LookUp(c) \/ InsertBuild(c) \/ InsertRelease(c) \/ CallFails(c)

JobStep ==
  \/ \E b \in DOMAIN builds, s \in Reported : UpdateBuildStatus(b, s)
  \/ \E r \in DOMAIN releases, s \in Reported : UpdateReleaseStatus(r, s)

UserStep ==
  \/ \E archived \in BOOLEAN : SetArchived(archived)
  \/ LoadPermissions
  \/ \E groups \in Groups : UpdatePermissions(groups)

Next ==
  \/ \E g \in goroutines : GoroutineStep(g)
  \/ \E c \in Calls : CallStep(c)
  \/ JobStep
  \/ UserStep

Spec == Init /\ [][Next]_vars

-----------------------------------------------------------------------------
(* Properties                                                                *)

(* When the goroutines are done the row shows the last build and its status, *)
(* unless an older read overwrote a newer one or a goroutine failed since    *)
(* the last change of a build.                                               *)
PipelineUpToDate ==
  pipeline # None /\ BuildSettled => pipeline.build.job = Len(builds) /\ pipeline.build.status = Last(builds).status

(* The same of the release shown as the active one: neither the release nor  *)
(* the pipeline it is copied to was overwritten by an older read.            *)
TargetUpToDate ==
  pipeline # None /\ releases # <<>> /\ TargetSettled =>
    pipeline.target.job = Len(releases) /\ pipeline.target.status = Last(releases).status

(* No goroutine, however late, takes back the permissions of a pipeline.     *)
PermissionsKept == pipeline # None => pipeline.groups = history.groups

(* A pipeline is archived or not as users chose last, unless a goroutine     *)
(* has written it since, with the manifest's value, or an administrator has  *)
(* saved permissions loaded before that choice.                              *)
ArchivedKept ==
  pipeline # None =>
    \/ pipeline.archived = history.archived
    \/ history.shown /\ pipeline.archived = ManifestArchived
    \/ history.reverted

(* What a trigger releases was built by this pipeline, whichever pipeline    *)
(* its event names, and has a build that succeeded, unless it is the version *)
(* the trigger saw: of that one a build of any status will do.               *)
TriggeredReleases ==
  \A r \in DOMAIN releases :
    /\ releases[r].version \in Versions
    /\ Succeeded(releases[r].version) \/ releases[r].version = releases[r].shown

(* A call that read a row nothing is under way for acts on the state of the  *)
(* tables: the last version is released as "latest", the one last released   *)
(* as "current", and the maximum told to a builder is not below the version  *)
(* of the last build.  Whatever it read and whatever failed, the maximum of  *)
(* the branch is this maximum or the version itself: other builds of the     *)
(* branch, higher ones too, never count.                                     *)
SettledCalls ==
  \A c \in Calls :
    /\ call[c].settled =>
         /\ call[c].want = "latest"  => call[c].version = call[c].newest
         /\ call[c].want = "current" => call[c].version = IF call[c].deployed > 0 THEN call[c].deployed ELSE call[c].newest
         /\ call[c].at = "build"     => call[c].max >= call[c].newest
    /\ call[c].at = "build" => call[c].maxBranch \in {call[c].version, call[c].max}

=============================================================================

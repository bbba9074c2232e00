------------------------ MODULE ComputedTablesProofs ------------------------
(***************************************************************************)
(* Theorems about ComputedTables for any numbers of builds, releases,      *)
(* calls, changes and goroutines.                                          *)
(***************************************************************************)
EXTENDS ComputedTables, SequenceTheorems, TLAPS

-----------------------------------------------------------------------------
(* The invariant                                                             *)

(* What was read of a table is not younger than its last change, and shows   *)
(* its last job unless it is older than that.                                *)
ShowsBuild(x) ==
  /\ x.seen <= changes
  /\ x.job > 0 => builds # <<>>
  /\ x.seen >= history.buildChanged =>
       x.job = Len(builds) /\ x.status = Last(builds).status /\ x.version = Last(builds).version

ShowsRelease(x) ==
  /\ x.seen <= changes
  /\ x.job > 0 => releases # <<>>
  /\ x.seen >= history.releaseChanged =>
       x.job = Len(releases) /\ x.status = Last(releases).status /\ x.version = Last(releases).version

GoroutinesShow == \A g \in goroutines : ShowsBuild(g.build) /\ ShowsRelease(g.release) /\ ShowsRelease(g.target)
RowsShow ==
  /\ ShowsRelease(target)
  /\ pipeline # None => ShowsBuild(pipeline.build) /\ ShowsRelease(pipeline.target)

Counted ==
  /\ history.buildChanged <= changes /\ history.releaseChanged <= changes /\ history.lost <= changes
  /\ history.buildChanged = 0 <=> builds = <<>>
  /\ history.releaseChanged = 0 <=> releases = <<>>

(* A goroutine that has a row to read finds one.                             *)
NeverEmpty ==
  /\ goroutines # {} \/ pipeline # None \/ releases # <<>> => builds # <<>>
  /\ \A c \in Calls : call[c].at \in {"lookup", "release"} => builds # <<>>
  /\ \A g \in goroutines : g.at \in {"readRelease", "writeRelease"} => releases # <<>>

(* The last change of a build reached the pipeline, or some goroutine will   *)
(* write it or what is newer.                                                *)
WillShowBuild(g) ==
  \/ g.at \in {"tables", "readRelease", "writeRelease", "readBuilds"}
  \/ g.at \in {"readTargets", "writePipeline"} /\ g.build.seen >= history.buildChanged
BuildCarried ==
  \/ history.lost >= history.buildChanged
  \/ history.build >= history.buildChanged
  \/ \E g \in goroutines : WillShowBuild(g)

(* The same of the last change of a release and the computed release,        *)
WillShowRelease(g) ==
  \/ g.at = "readRelease"
  \/ g.at = "writeRelease" /\ g.release.seen >= history.releaseChanged
ReleaseCarried ==
  \/ history.lost >= history.releaseChanged
  \/ history.release >= history.releaseChanged
  \/ \E g \in goroutines : WillShowRelease(g)

(* and, where this has it, of the pipeline.                                  *)
WillShowTarget(g) ==
  \/ g.at \in {"readBuilds", "readTargets"}
  \/ g.at = "writePipeline" /\ g.target.seen >= history.releaseChanged
TargetCarried ==
  \/ target.seen < history.releaseChanged
  \/ history.lost >= history.releaseChanged
  \/ history.target >= history.releaseChanged
  \/ \E g \in goroutines : WillShowTarget(g)

PageOpen == page # None => pipeline # None

TablesInv ==
  TypeOK /\ Counted /\ NeverEmpty /\ GoroutinesShow /\ RowsShow /\ BuildCarried /\ ReleaseCarried /\ TargetCarried /\ PageOpen

-----------------------------------------------------------------------------
(* Lemmas                                                                    *)

LEMMA LastShown ==
  ASSUME TypeOK
  PROVE  /\ Last(builds) \in Shown /\ Last(builds).seen = changes /\ Last(builds).job = Len(builds)
         /\ Last(releases) \in Shown /\ Last(releases).seen = changes /\ Last(releases).job = Len(releases)
  <1>1. ASSUME NEW R, NEW jobs \in Seq(R), \A r \in R : r.status \in Status /\ r.version \in Nat
        PROVE  Last(jobs) \in Shown /\ Last(jobs).seen = changes /\ Last(jobs).job = Len(jobs)
    <2>1. changes \in Nat
      BY DEF TypeOK
    <2>2. CASE jobs = <<>>
      <3>1. Last(jobs) = [job |-> 0, status |-> "none", version |-> 0, seen |-> changes]
        BY <2>2 DEF Last, Nothing
      <3>2. "none" \in Status
        BY DEF Status, Table!Status
      <3>. QED  BY <2>1, <2>2, <3>1, <3>2 DEF Shown
    <2>3. CASE jobs # <<>>
      <3>1. Len(jobs) \in Nat /\ jobs[Len(jobs)] \in R
        BY <2>3
      <3>2. Last(jobs) = [job |-> Len(jobs), status |-> jobs[Len(jobs)].status,
                          version |-> jobs[Len(jobs)].version, seen |-> changes]
        BY <2>3 DEF Last
      <3>. QED  BY <1>1, <2>1, <3>1, <3>2 DEF Shown
    <2>. QED  BY <2>2, <2>3
  <1>2. \A r \in Build \cup Release : r.status \in Status /\ r.version \in Nat
    BY DEF Build, Release
  <1>. QED  BY <1>1, <1>2 DEF TypeOK

LEMMA NothingShown == Nothing \in Shown /\ Nothing.seen = 0 /\ Nothing.job = 0
  BY DEF Nothing, Shown, Status, Table!Status

(* What a query reads of the tables as they are is shown.                    *)
LEMMA ReadShows ==
  ASSUME TypeOK, Counted
  PROVE  ShowsBuild(Last(builds)) /\ ShowsRelease(Last(releases))
  <1>1. changes \in Nat
    BY DEF TypeOK
  <1>2. builds = <<>> => Len(builds) = 0
    OBVIOUS
  <1>3. releases = <<>> => Len(releases) = 0
    OBVIOUS
  <1>. QED  BY <1>1, <1>2, <1>3, LastShown DEF ShowsBuild, ShowsRelease

LEMMA NothingShows ==
  ASSUME TypeOK, Counted
  PROVE  ShowsBuild(Nothing) /\ ShowsRelease(Nothing)
  <1>1. changes \in Nat /\ history.buildChanged \in Nat /\ history.releaseChanged \in Nat
    BY DEF TypeOK, History
  <1>2. history.buildChanged = 0 => builds = <<>>
    BY DEF Counted
  <1>3. history.releaseChanged = 0 => releases = <<>>
    BY DEF Counted
  <1>4. Len(<<>>) = 0
    OBVIOUS
  <1>. QED  BY <1>1, <1>2, <1>3, <1>4, NothingShown DEF ShowsBuild, ShowsRelease, Last, Nothing

(* What was shown stays so in steps that change no build and no release,     *)
LEMMA StaysShown ==
  ASSUME UNCHANGED <<builds, releases, changes>>,
         history'.buildChanged = history.buildChanged, history'.releaseChanged = history.releaseChanged,
         NEW x
  PROVE  (ShowsBuild(x) => ShowsBuild(x)') /\ (ShowsRelease(x) => ShowsRelease(x)')
  BY DEF ShowsBuild, ShowsRelease, Last

(* and in those that change a table, since the change is younger.            *)
LEMMA OlderThanBuild ==
  ASSUME TypeOK, changes' = changes + 1, history'.buildChanged = changes', builds' # <<>>,
         releases' = releases, history'.releaseChanged = history.releaseChanged,
         NEW x \in Shown
  PROVE  (ShowsBuild(x) => ShowsBuild(x)') /\ (ShowsRelease(x) => ShowsRelease(x)')
  <1>1. changes \in Nat /\ x.seen \in Nat
    BY DEF TypeOK, Shown
  <1>2. ShowsBuild(x) => ShowsBuild(x)'
    BY <1>1 DEF ShowsBuild
  <1>3. Last(releases)'.status = Last(releases).status /\ Last(releases)'.version = Last(releases).version
    BY DEF Last, Nothing
  <1>4. ShowsRelease(x) => ShowsRelease(x)'
    BY <1>1, <1>3 DEF ShowsRelease
  <1>. QED  BY <1>2, <1>4

LEMMA OlderThanRelease ==
  ASSUME TypeOK, changes' = changes + 1, history'.releaseChanged = changes', releases' # <<>>,
         builds' = builds, history'.buildChanged = history.buildChanged,
         NEW x \in Shown
  PROVE  (ShowsBuild(x) => ShowsBuild(x)') /\ (ShowsRelease(x) => ShowsRelease(x)')
  <1>1. changes \in Nat /\ x.seen \in Nat
    BY DEF TypeOK, Shown
  <1>2. ShowsRelease(x) => ShowsRelease(x)'
    BY <1>1 DEF ShowsRelease
  <1>3. Last(builds)'.status = Last(builds).status /\ Last(builds)'.version = Last(builds).version
    BY DEF Last, Nothing
  <1>4. ShowsBuild(x) => ShowsBuild(x)'
    BY <1>1, <1>3 DEF ShowsBuild
  <1>. QED  BY <1>2, <1>4

LEMMA NewGoroutine ==
  ASSUME changes' \in Nat, NEW at \in {"tables", "readRelease", "readBuilds"}, Starts(at)
  PROVE  \E n \in Goroutine : /\ goroutines' = goroutines \cup {n} /\ n.at = at
                              /\ n.build = Nothing /\ n.release = Nothing /\ n.target = Nothing
  <1> DEFINE n == [change |-> changes', at |-> at, release |-> Nothing, build |-> Nothing, target |-> Nothing]
  <1>1. goroutines' = goroutines \cup {n}
    BY DEF Starts
  <1>2. n \in Goroutine /\ n.at = at /\ n.build = Nothing /\ n.release = Nothing /\ n.target = Nothing
    BY NothingShown DEF Goroutine
  <1>. QED  BY <1>1, <1>2

(* A change of a build starts a goroutine that will show it.                 *)
LEMMA BuildsChange ==
  ASSUME TablesInv, NEW at \in {"tables", "readBuilds"}, Changes, Starts(at),
         builds' \in Seq(Build), builds' # <<>>, call' \in [Calls -> Call],
         history' = [history EXCEPT !.buildChanged = changes'],
         UNCHANGED <<releases, counter, pipeline, target, page>>
  PROVE  TablesInv'
  <1>1. /\ TypeOK /\ changes \in Nat /\ changes' = changes + 1
        /\ history \in History /\ target \in Shown /\ goroutines \subseteq Goroutine
    BY DEF TablesInv, TypeOK, Changes
  <1>2. /\ history' \in History /\ history'.buildChanged = changes' /\ history'.releaseChanged = history.releaseChanged
        /\ history'.lost = history.lost /\ history'.build = history.build
        /\ history'.release = history.release /\ history'.target = history.target
    BY <1>1 DEF History
  <1>3. PICK n \in Goroutine : /\ goroutines' = goroutines \cup {n} /\ n.at = at
                              /\ n.build = Nothing /\ n.release = Nothing /\ n.target = Nothing
    BY <1>1, NewGoroutine
  <1>4. TypeOK'
    BY <1>1, <1>2, <1>3 DEF TablesInv, TypeOK
  <1>5. Counted'
    BY <1>1, <1>2 DEF TablesInv, Counted, TypeOK, History
  <1>6. NeverEmpty'
    BY <1>3 DEF TablesInv, NeverEmpty
  <1>7. GoroutinesShow'
    <2> SUFFICES ASSUME NEW g \in goroutines'
                 PROVE  ShowsBuild(g.build)' /\ ShowsRelease(g.release)' /\ ShowsRelease(g.target)'
      BY DEF GoroutinesShow
    <2>1. /\ ShowsBuild(g.build) /\ ShowsRelease(g.release) /\ ShowsRelease(g.target)
          /\ g.build \in Shown /\ g.release \in Shown /\ g.target \in Shown
      <3>1. CASE g \in goroutines
        BY <1>1, <3>1 DEF TablesInv, GoroutinesShow, Goroutine
      <3>2. CASE g = n
        BY <1>3, <3>2, NothingShows, NothingShown DEF TablesInv
      <3>. QED  BY <1>3, <3>1, <3>2
    <2>. QED  BY <1>1, <1>2, <2>1, OlderThanBuild
  <1>8. RowsShow'
    <2>1. ShowsRelease(target)'
      BY <1>1, <1>2, OlderThanBuild DEF TablesInv, RowsShow
    <2>2. ASSUME pipeline # None
          PROVE  ShowsBuild(pipeline.build)' /\ ShowsRelease(pipeline.target)'
      <3>1. /\ pipeline.build \in Shown /\ pipeline.target \in Shown
            /\ ShowsBuild(pipeline.build) /\ ShowsRelease(pipeline.target)
        BY <2>2 DEF TablesInv, TypeOK, Pipeline, RowsShow
      <3>. QED  BY <1>1, <1>2, <3>1, OlderThanBuild
    <2>. QED  BY <2>1, <2>2 DEF RowsShow
  <1>9. BuildCarried'
    <2>1. n \in goroutines' /\ WillShowBuild(n)'
      BY <1>3 DEF WillShowBuild
    <2>. QED  BY <2>1 DEF BuildCarried
  <1>10. ReleaseCarried'
    BY <1>2, <1>3 DEF TablesInv, ReleaseCarried, WillShowRelease
  <1>11. TargetCarried'
    BY <1>2, <1>3 DEF TablesInv, TargetCarried, WillShowTarget
  <1>. QED  BY <1>4, <1>5, <1>6, <1>7, <1>8, <1>9, <1>10, <1>11 DEF TablesInv, PageOpen

(* A change of a release starts a goroutine that reads it.                   *)
LEMMA ReleasesChange ==
  ASSUME TablesInv, Changes, Starts("readRelease"), builds # <<>>,
         releases' \in Seq(Release), releases' # <<>>, call' \in [Calls -> Call],
         history' = [history EXCEPT !.releaseChanged = changes'],
         UNCHANGED <<builds, counter, pipeline, target, page>>
  PROVE  TablesInv'
  <1>1. /\ TypeOK /\ changes \in Nat /\ changes' = changes + 1
        /\ history \in History /\ target \in Shown /\ goroutines \subseteq Goroutine
    BY DEF TablesInv, TypeOK, Changes
  <1>2. /\ history' \in History /\ history'.releaseChanged = changes' /\ history'.buildChanged = history.buildChanged
        /\ history'.lost = history.lost /\ history'.build = history.build
        /\ history'.release = history.release /\ history'.target = history.target
    BY <1>1 DEF History
  <1>3. PICK n \in Goroutine : /\ goroutines' = goroutines \cup {n} /\ n.at = "readRelease"
                              /\ n.build = Nothing /\ n.release = Nothing /\ n.target = Nothing
    BY <1>1, NewGoroutine
  <1>4. TypeOK'
    BY <1>1, <1>2, <1>3 DEF TablesInv, TypeOK
  <1>5. Counted'
    BY <1>1, <1>2 DEF TablesInv, Counted, TypeOK, History
  <1>6. NeverEmpty'
    BY <1>3 DEF TablesInv, NeverEmpty
  <1>7. GoroutinesShow'
    <2> SUFFICES ASSUME NEW g \in goroutines'
                 PROVE  ShowsBuild(g.build)' /\ ShowsRelease(g.release)' /\ ShowsRelease(g.target)'
      BY DEF GoroutinesShow
    <2>1. /\ ShowsBuild(g.build) /\ ShowsRelease(g.release) /\ ShowsRelease(g.target)
          /\ g.build \in Shown /\ g.release \in Shown /\ g.target \in Shown
      <3>1. CASE g \in goroutines
        BY <1>1, <3>1 DEF TablesInv, GoroutinesShow, Goroutine
      <3>2. CASE g = n
        BY <1>3, <3>2, NothingShows, NothingShown DEF TablesInv
      <3>. QED  BY <1>3, <3>1, <3>2
    <2>. QED  BY <1>1, <1>2, <2>1, OlderThanRelease
  <1>8. RowsShow'
    <2>1. ShowsRelease(target)'
      BY <1>1, <1>2, OlderThanRelease DEF TablesInv, RowsShow
    <2>2. ASSUME pipeline # None
          PROVE  ShowsBuild(pipeline.build)' /\ ShowsRelease(pipeline.target)'
      <3>1. /\ pipeline.build \in Shown /\ pipeline.target \in Shown
            /\ ShowsBuild(pipeline.build) /\ ShowsRelease(pipeline.target)
        BY <2>2 DEF TablesInv, TypeOK, Pipeline, RowsShow
      <3>. QED  BY <1>1, <1>2, <3>1, OlderThanRelease
    <2>. QED  BY <2>1, <2>2 DEF RowsShow
  <1>9. BuildCarried'
    BY <1>2, <1>3 DEF TablesInv, BuildCarried, WillShowBuild
  <1>10. ReleaseCarried'
    <2>1. n \in goroutines' /\ WillShowRelease(n)'
      BY <1>3 DEF WillShowRelease
    <2>. QED  BY <2>1 DEF ReleaseCarried
  <1>11. TargetCarried'
    <2>1. target.seen <= changes /\ target.seen \in Nat
      BY <1>1 DEF TablesInv, RowsShow, ShowsRelease, Shown
    <2>. QED  BY <1>1, <1>2, <2>1 DEF TargetCarried
  <1>. QED  BY <1>4, <1>5, <1>6, <1>7, <1>8, <1>9, <1>10, <1>11 DEF TablesInv, PageOpen

(* A step of goroutine g, which is then one of H or ends.                    *)
LEMMA GoroutineGoes ==
  ASSUME TablesInv, NEW g \in goroutines, NEW H \in SUBSET Goroutine,
         goroutines' = (goroutines \ {g}) \cup H,
         UNCHANGED <<tables, call, page>>,
         \A h \in H : /\ ShowsBuild(h.build) /\ ShowsRelease(h.release) /\ ShowsRelease(h.target)
                      /\ h.at \in {"readRelease", "writeRelease"} => releases # <<>>,
         target' \in Shown, ShowsRelease(target)',
         pipeline' \in Pipeline \cup {None}, pipeline # None => pipeline' # None,
         pipeline' # None => ShowsBuild(pipeline.build)' /\ ShowsRelease(pipeline.target)',
         history' \in History,
         history'.buildChanged = history.buildChanged, history'.releaseChanged = history.releaseChanged,
         history'.lost \in {history.lost, changes},
         history'.build >= history.build, history'.release >= history.release, history'.target >= history.target,
         WillShowBuild(g) => \/ \E h \in H : WillShowBuild(h)
                             \/ history'.build >= history.buildChanged \/ history'.lost >= history.buildChanged,
         WillShowRelease(g) => \/ \E h \in H : WillShowRelease(h)
                               \/ history'.release >= history.releaseChanged \/ history'.lost >= history.releaseChanged,
         \/ \E h \in H : h.at = "readBuilds"
         \/ target' = target /\ (WillShowTarget(g) =>
              \/ (\E h \in H : WillShowTarget(h)) \/ target.seen < history.releaseChanged
              \/ history'.target >= history.releaseChanged \/ history'.lost >= history.releaseChanged)
  PROVE  TablesInv'
  <1>1. /\ TypeOK /\ changes \in Nat /\ history \in History /\ goroutines \subseteq Goroutine /\ target \in Shown
        /\ builds' = builds /\ releases' = releases /\ changes' = changes /\ counter' = counter
        /\ call' = call /\ page' = page
    BY DEF TablesInv, TypeOK, tables
  <1>2. /\ history.build \in Nat /\ history.release \in Nat /\ history.target \in Nat /\ history.lost \in Nat
        /\ history.buildChanged \in Nat /\ history.releaseChanged \in Nat
        /\ history'.build \in Nat /\ history'.release \in Nat /\ history'.target \in Nat /\ history'.lost \in Nat
        /\ history.lost <= changes /\ history.buildChanged <= changes /\ history.releaseChanged <= changes
    BY <1>1 DEF History, TablesInv, Counted
  <1>3. TypeOK'
    BY <1>1 DEF TypeOK
  <1>4. Counted'
    BY <1>1, <1>2 DEF TablesInv, Counted
  <1>5. NeverEmpty'
    BY <1>1 DEF TablesInv, NeverEmpty
  <1>6. GoroutinesShow'
    <2> SUFFICES ASSUME NEW k \in goroutines'
                 PROVE  ShowsBuild(k.build)' /\ ShowsRelease(k.release)' /\ ShowsRelease(k.target)'
      BY DEF GoroutinesShow
    <2>1. ShowsBuild(k.build) /\ ShowsRelease(k.release) /\ ShowsRelease(k.target)
      BY DEF TablesInv, GoroutinesShow
    <2>. QED  BY <1>1, <2>1, StaysShown
  <1>7. RowsShow'
    BY DEF RowsShow
  <1>8. \A k : /\ WillShowBuild(k)' <=> WillShowBuild(k)
               /\ WillShowRelease(k)' <=> WillShowRelease(k)
               /\ WillShowTarget(k)' <=> WillShowTarget(k)
    BY DEF WillShowBuild, WillShowRelease, WillShowTarget
  <1>9. history'.lost >= history.lost
    BY <1>1, <1>2
  <1>10. BuildCarried'
    <2>1. CASE history.lost >= history.buildChanged \/ history.build >= history.buildChanged
      BY <1>2, <1>9, <2>1 DEF BuildCarried
    <2>2. CASE \E k \in goroutines : WillShowBuild(k)
      <3>1. PICK k \in goroutines : WillShowBuild(k)
        BY <2>2
      <3>2. CASE k # g
        BY <1>8, <3>1, <3>2 DEF BuildCarried
      <3>3. CASE k = g
        BY <1>8, <3>1, <3>3 DEF BuildCarried
      <3>. QED  BY <3>2, <3>3
    <2>. QED  BY <2>1, <2>2 DEF TablesInv, BuildCarried
  <1>11. ReleaseCarried'
    <2>1. CASE history.lost >= history.releaseChanged \/ history.release >= history.releaseChanged
      BY <1>2, <1>9, <2>1 DEF ReleaseCarried
    <2>2. CASE \E k \in goroutines : WillShowRelease(k)
      <3>1. PICK k \in goroutines : WillShowRelease(k)
        BY <2>2
      <3>2. CASE k # g
        BY <1>8, <3>1, <3>2 DEF ReleaseCarried
      <3>3. CASE k = g
        BY <1>8, <3>1, <3>3 DEF ReleaseCarried
      <3>. QED  BY <3>2, <3>3
    <2>. QED  BY <2>1, <2>2 DEF TablesInv, ReleaseCarried
  <1>12. TargetCarried'
    <2>1. CASE \E h \in H : h.at = "readBuilds"
      <3>1. PICK h \in H : h.at = "readBuilds"
        BY <2>1
      <3>2. WillShowTarget(h)' /\ h \in goroutines'
        BY <3>1 DEF WillShowTarget
      <3>. QED  BY <3>2 DEF TargetCarried
    <2>2. CASE target' = target /\ ~\E h \in H : h.at = "readBuilds"
      <3>1. CASE \/ target.seen < history.releaseChanged
                 \/ history.lost >= history.releaseChanged \/ history.target >= history.releaseChanged
        BY <1>2, <1>9, <2>2, <3>1 DEF TargetCarried
      <3>2. CASE \E k \in goroutines : WillShowTarget(k)
        <4>1. PICK k \in goroutines : WillShowTarget(k)
          BY <3>2
        <4>2. CASE k # g
          BY <1>8, <4>1, <4>2 DEF TargetCarried
        <4>3. CASE k = g
          BY <1>8, <2>2, <4>1, <4>3 DEF TargetCarried
        <4>. QED  BY <4>2, <4>3
      <3>. QED  BY <3>1, <3>2 DEF TablesInv, TargetCarried
    <2>. QED  BY <2>1, <2>2
  <1>13. PageOpen'
    BY <1>1 DEF TablesInv, PageOpen
  <1>. QED  BY <1>3, <1>4, <1>5, <1>6, <1>7, <1>10, <1>11, <1>12, <1>13 DEF TablesInv

(* The step of a goroutine that goes on,                                     *)
LEMMA GoroutineTurns ==
  ASSUME TablesInv, NEW g \in goroutines, NEW h \in Goroutine,
         goroutines' = (goroutines \ {g}) \cup {h},
         UNCHANGED <<tables, call, page>>,
         ShowsBuild(h.build), ShowsRelease(h.release), ShowsRelease(h.target),
         h.at \in {"readRelease", "writeRelease"} => releases # <<>>,
         target' \in Shown, ShowsRelease(target)',
         pipeline' \in Pipeline \cup {None}, pipeline # None => pipeline' # None,
         pipeline' # None => ShowsBuild(pipeline.build)' /\ ShowsRelease(pipeline.target)',
         history' \in History,
         history'.buildChanged = history.buildChanged, history'.releaseChanged = history.releaseChanged,
         history'.lost \in {history.lost, changes},
         history'.build >= history.build, history'.release >= history.release, history'.target >= history.target,
         WillShowBuild(g) => WillShowBuild(h),
         WillShowRelease(g) => WillShowRelease(h) \/ history'.release >= history.releaseChanged,
         \/ h.at = "readBuilds"
         \/ target' = target /\ (WillShowTarget(g) =>
              \/ WillShowTarget(h) \/ target.seen < history.releaseChanged
              \/ history'.lost >= history.releaseChanged)
  PROVE  TablesInv'
  <1>1. {h} \in SUBSET Goroutine
    OBVIOUS
  <1>2. /\ WillShowBuild(g) => \E k \in {h} : WillShowBuild(k)
        /\ WillShowRelease(g) => (\E k \in {h} : WillShowRelease(k)) \/ history'.release >= history.releaseChanged
        /\ h.at = "readBuilds" => \E k \in {h} : k.at = "readBuilds"
        /\ WillShowTarget(h) => \E k \in {h} : WillShowTarget(k)
    OBVIOUS
  <1>3. \A k \in {h} : /\ ShowsBuild(k.build) /\ ShowsRelease(k.release) /\ ShowsRelease(k.target)
                       /\ k.at \in {"readRelease", "writeRelease"} => releases # <<>>
    OBVIOUS
  <1>4. \/ \E k \in {h} : k.at = "readBuilds"
        \/ target' = target /\ (WillShowTarget(g) =>
             \/ (\E k \in {h} : WillShowTarget(k)) \/ target.seen < history.releaseChanged
             \/ history'.lost >= history.releaseChanged)
    BY <1>2
  <1>. QED  BY <1>1, <1>2, <1>3, <1>4, GoroutineGoes

(* and of one that ends.                                                     *)
LEMMA GoroutineEnds ==
  ASSUME TablesInv, NEW g \in goroutines,
         goroutines' = goroutines \ {g},
         UNCHANGED <<tables, call, page>>,
         target' \in Shown, ShowsRelease(target)', target' = target,
         pipeline' \in Pipeline \cup {None}, pipeline # None => pipeline' # None,
         pipeline' # None => ShowsBuild(pipeline.build)' /\ ShowsRelease(pipeline.target)',
         history' \in History,
         history'.buildChanged = history.buildChanged, history'.releaseChanged = history.releaseChanged,
         history'.lost \in {history.lost, changes},
         history'.build >= history.build, history'.release >= history.release, history'.target >= history.target,
         \/ history'.lost = changes
         \/ /\ WillShowBuild(g) => history'.build >= history.buildChanged
            /\ ~WillShowRelease(g)
            /\ WillShowTarget(g) => history'.target >= history.releaseChanged
  PROVE  TablesInv'
  <1>1. goroutines' = (goroutines \ {g}) \cup {}
    OBVIOUS
  <1>2. changes >= history.buildChanged /\ changes >= history.releaseChanged
    BY DEF TablesInv, TypeOK, Counted, History
  <1>. QED  BY <1>1, <1>2, GoroutineGoes

(* What holds of a goroutine and of the rows.                                *)
LEMMA GoroutineFacts ==
  ASSUME TablesInv, NEW g \in goroutines
  PROVE  /\ g \in Goroutine /\ g.build \in Shown /\ g.release \in Shown /\ g.target \in Shown
         /\ ShowsBuild(g.build) /\ ShowsRelease(g.release) /\ ShowsRelease(g.target)
         /\ g.build.seen \in Nat /\ g.release.seen \in Nat /\ g.target.seen \in Nat
         /\ g.at \in {"readRelease", "writeRelease"} => releases # <<>>
  <1>1. /\ g \in Goroutine /\ ShowsBuild(g.build) /\ ShowsRelease(g.release) /\ ShowsRelease(g.target)
        /\ g.at \in {"readRelease", "writeRelease"} => releases # <<>>
    BY DEF TablesInv, TypeOK, GoroutinesShow, NeverEmpty
  <1>2. g.build \in Shown /\ g.release \in Shown /\ g.target \in Shown
    BY <1>1 DEF Goroutine
  <1>. QED  BY <1>1, <1>2 DEF Shown

LEMMA RowFacts ==
  ASSUME TablesInv
  PROVE  /\ TypeOK /\ Counted
         /\ target \in Shown /\ ShowsRelease(target)
         /\ pipeline \in Pipeline \cup {None}
         /\ pipeline # None => /\ pipeline \in Pipeline /\ pipeline.build \in Shown /\ pipeline.target \in Shown
                               /\ ShowsBuild(pipeline.build) /\ ShowsRelease(pipeline.target)
         /\ history \in History /\ changes \in Nat
         /\ history.build \in Nat /\ history.release \in Nat /\ history.target \in Nat /\ history.lost \in Nat
         /\ history.buildChanged \in Nat /\ history.releaseChanged \in Nat
         /\ history.lost <= changes /\ history.buildChanged <= changes /\ history.releaseChanged <= changes
  <1>1. /\ TypeOK /\ Counted /\ target \in Shown /\ ShowsRelease(target) /\ history \in History /\ changes \in Nat
        /\ pipeline \in Pipeline \cup {None}
    BY DEF TablesInv, TypeOK, RowsShow
  <1>2. pipeline # None => /\ pipeline \in Pipeline
                           /\ ShowsBuild(pipeline.build) /\ ShowsRelease(pipeline.target)
    BY DEF TablesInv, TypeOK, RowsShow
  <1>3. pipeline # None => pipeline.build \in Shown /\ pipeline.target \in Shown
    BY <1>2 DEF Pipeline
  <1>4. /\ history.build \in Nat /\ history.release \in Nat /\ history.target \in Nat /\ history.lost \in Nat
        /\ history.buildChanged \in Nat /\ history.releaseChanged \in Nat
    BY <1>1 DEF History
  <1>. QED  BY <1>1, <1>2, <1>3, <1>4 DEF Counted

(* The rows stay shown where they are not written.                           *)
LEMMA RowsStay ==
  ASSUME TablesInv, UNCHANGED <<tables, pipeline, target>>,
         history'.buildChanged = history.buildChanged, history'.releaseChanged = history.releaseChanged
  PROVE  /\ target' \in Shown /\ ShowsRelease(target)'
         /\ pipeline' \in Pipeline \cup {None} /\ (pipeline # None => pipeline' # None)
         /\ pipeline' # None => ShowsBuild(pipeline.build)' /\ ShowsRelease(pipeline.target)'
  <1>1. builds' = builds /\ releases' = releases /\ changes' = changes /\ pipeline' = pipeline /\ target' = target
    BY DEF tables
  <1>2. ShowsRelease(target)'
    BY <1>1, RowFacts, StaysShown
  <1>3. pipeline # None => ShowsBuild(pipeline.build)' /\ ShowsRelease(pipeline.target)'
    BY <1>1, RowFacts, StaysShown
  <1>. QED  BY <1>1, <1>2, <1>3, RowFacts

LEMMA UpdateComputedTablesInv ==
  ASSUME TablesInv, NEW g \in goroutines, UpdateComputedTables(g)
  PROVE  TablesInv'
  <1> DEFINE at == IF pipeline # None /\ pipeline.target.job > 0 THEN "readRelease" ELSE "readBuilds"
             h  == [g EXCEPT !.at = at]
  <1>1. /\ g.at = "tables" /\ goroutines' = (goroutines \ {g}) \cup {h}
        /\ UNCHANGED <<tables, pipeline, target, call, page, history>>
    BY DEF UpdateComputedTables, Goes
  <1>2. h \in Goroutine /\ h.at = at /\ h.build = g.build /\ h.release = g.release /\ h.target = g.target
    BY GoroutineFacts DEF Goroutine
  <1>3. at = "readRelease" => releases # <<>>
    BY RowFacts DEF ShowsRelease
  <1>4. at \in {"readRelease", "readBuilds"}
    OBVIOUS
  <1>5. \E k \in {h} : WillShowBuild(k)
    BY <1>2, <1>4 DEF WillShowBuild
  <1>6. ~WillShowRelease(g) /\ ~WillShowTarget(g)
    BY <1>1 DEF WillShowRelease, WillShowTarget
  <1> HIDE DEF h, at
  <1>7. history' = history /\ target' = target
    BY <1>1
  <1>. QED  BY <1>1, <1>2, <1>3, <1>4, <1>5, <1>6, <1>7, GoroutineFacts, RowFacts, RowsStay, GoroutineTurns

LEMMA ReadReleaseInv ==
  ASSUME TablesInv, NEW g \in goroutines, ReadRelease(g)
  PROVE  TablesInv'
  <1> DEFINE h == [g EXCEPT !.at = "writeRelease", !.release = Last(releases)]
  <1>1. /\ g.at = "readRelease" /\ goroutines' = (goroutines \ {g}) \cup {h}
        /\ UNCHANGED <<tables, pipeline, target, call, page, history>>
    BY DEF ReadRelease, Goes
  <1>2. /\ h \in Goroutine /\ h.at = "writeRelease" /\ h.build = g.build
        /\ h.release = Last(releases) /\ h.target = g.target
    BY GoroutineFacts, RowFacts, LastShown DEF Goroutine
  <1>3. ShowsRelease(h.release) /\ releases # <<>>
    BY <1>1, <1>2, RowFacts, ReadShows, GoroutineFacts
  <1>4. WillShowBuild(h) /\ WillShowRelease(h)
    <2>1. Last(releases).seen = changes /\ changes >= history.releaseChanged
      BY RowFacts, LastShown
    <2>. QED  BY <1>2, <2>1 DEF WillShowBuild, WillShowRelease
  <1>5. ~WillShowTarget(g)
    BY <1>1 DEF WillShowTarget
  <1> HIDE DEF h
  <1>6. history' = history /\ target' = target
    BY <1>1
  <1>. QED  BY <1>1, <1>2, <1>3, <1>4, <1>5, <1>6, GoroutineFacts, RowFacts, RowsStay, GoroutineTurns

LEMMA WriteReleaseInv ==
  ASSUME TablesInv, NEW g \in goroutines, WriteRelease(g)
  PROVE  TablesInv'
  <1> DEFINE h == [g EXCEPT !.at = "readBuilds"]
  <1>1. /\ g.at = "writeRelease" /\ goroutines' = (goroutines \ {g}) \cup {h}
        /\ target' = g.release
        /\ history' = [history EXCEPT !.release = Greater(history.release, g.release.seen)]
        /\ UNCHANGED <<tables, pipeline, call, page>>
    BY DEF WriteRelease, Goes
  <1>2. h \in Goroutine /\ h.at = "readBuilds" /\ h.build = g.build /\ h.release = g.release /\ h.target = g.target
    BY GoroutineFacts DEF Goroutine
  <1>3. /\ Greater(history.release, g.release.seen) \in Nat
        /\ Greater(history.release, g.release.seen) >= history.release
        /\ Greater(history.release, g.release.seen) >= g.release.seen
    BY GoroutineFacts, RowFacts DEF Greater
  <1>4. /\ history' \in History /\ history'.release = Greater(history.release, g.release.seen)
        /\ history'.buildChanged = history.buildChanged /\ history'.releaseChanged = history.releaseChanged
        /\ history'.lost = history.lost /\ history'.build = history.build /\ history'.target = history.target
    BY <1>1, <1>3, RowFacts DEF History
  <1>5. WillShowBuild(h)
    BY <1>2 DEF WillShowBuild
  <1>6. WillShowRelease(g) => history'.release >= history.releaseChanged
    BY <1>1, <1>3, <1>4, GoroutineFacts, RowFacts DEF WillShowRelease
  <1> HIDE DEF h
  <1>7. builds' = builds /\ releases' = releases /\ changes' = changes /\ pipeline' = pipeline
    BY <1>1 DEF tables
  <1>8. /\ target' \in Shown /\ ShowsRelease(target)'
        /\ pipeline' \in Pipeline \cup {None} /\ (pipeline # None => pipeline' # None)
        /\ pipeline' # None => ShowsBuild(pipeline.build)' /\ ShowsRelease(pipeline.target)'
    <2>1. ShowsRelease(g.release)'
      BY <1>4, <1>7, GoroutineFacts, StaysShown
    <2>2. pipeline # None => ShowsBuild(pipeline.build)' /\ ShowsRelease(pipeline.target)'
      BY <1>4, <1>7, RowFacts, StaysShown
    <2>3. ShowsRelease(target)'
      BY <1>1, <2>1 DEF ShowsRelease
    <2>. QED  BY <1>1, <1>7, <2>2, <2>3, GoroutineFacts, RowFacts
  <1>9. \E k \in {h} : k.at = "readBuilds"
    BY <1>2
  <1>. QED  BY <1>1, <1>2, <1>3, <1>4, <1>5, <1>6, <1>8, <1>9, GoroutineFacts, RowFacts, GoroutineTurns

LEMMA ReadBuildsInv ==
  ASSUME TablesInv, NEW g \in goroutines, ReadBuilds(g)
  PROVE  TablesInv'
  <1> DEFINE h == [g EXCEPT !.at = "readTargets", !.build = Last(builds)]
  <1>1. /\ g.at = "readBuilds" /\ goroutines' = (goroutines \ {g}) \cup {h}
        /\ UNCHANGED <<tables, pipeline, target, call, page, history>>
    BY DEF ReadBuilds, Goes
  <1>2. /\ h \in Goroutine /\ h.at = "readTargets" /\ h.release = g.release
        /\ h.build = Last(builds) /\ h.target = g.target
    BY GoroutineFacts, RowFacts, LastShown DEF Goroutine
  <1>3. ShowsBuild(h.build)
    BY <1>2, RowFacts, ReadShows
  <1>4. WillShowBuild(h) /\ WillShowTarget(h)
    <2>1. Last(builds).seen = changes /\ changes >= history.buildChanged
      BY RowFacts, LastShown
    <2>. QED  BY <1>2, <2>1 DEF WillShowBuild, WillShowTarget
  <1>5. ~WillShowRelease(g)
    BY <1>1 DEF WillShowRelease
  <1> HIDE DEF h
  <1>6. history' = history /\ target' = target
    BY <1>1
  <1>. QED  BY <1>1, <1>2, <1>3, <1>4, <1>5, <1>6, GoroutineFacts, RowFacts, RowsStay, GoroutineTurns

(* What a failure changes in history.                                        *)
LEMMA FailureFacts ==
  ASSUME TablesInv, Failure
  PROVE  /\ history' \in History /\ history'.lost = changes
         /\ history'.buildChanged = history.buildChanged /\ history'.releaseChanged = history.releaseChanged
         /\ history'.build = history.build /\ history'.release = history.release /\ history'.target = history.target
         /\ history'.groups = history.groups /\ history'.archived = history.archived
         /\ history'.shown = history.shown /\ history'.reverted = history.reverted
  <1>1. history \in History /\ changes \in Nat /\ history.others + 1 \in Nat
    BY RowFacts DEF History
  <1>2. history' = [history EXCEPT !.lost = changes, !.others = history.others + 1]
    BY DEF Failure
  <1>. QED  BY <1>1, <1>2 DEF History

LEMMA ReadTargetsInv ==
  ASSUME TablesInv, NEW g \in goroutines, ReadTargets(g)
  PROVE  TablesInv'
  <1> DEFINE h == [g EXCEPT !.at = "writePipeline", !.target = target]
             f == [g EXCEPT !.at = "writePipeline"]
  <1>1. /\ g.at = "readTargets" /\ UNCHANGED <<tables, pipeline, target, call, page>>
        /\ \/ goroutines' = (goroutines \ {g}) \cup {h} /\ UNCHANGED history
           \/ goroutines' = (goroutines \ {g}) \cup {f} /\ Failure
    BY DEF ReadTargets, Goes
  <1>2. /\ h \in Goroutine /\ h.at = "writePipeline" /\ h.release = g.release
        /\ h.build = g.build /\ h.target = target
    BY GoroutineFacts, RowFacts DEF Goroutine
  <1>3. /\ f \in Goroutine /\ f.at = "writePipeline" /\ f.release = g.release
        /\ f.build = g.build /\ f.target = g.target
    BY GoroutineFacts DEF Goroutine
  <1>4. ~WillShowRelease(g)
    BY <1>1 DEF WillShowRelease
  <1>5. CASE goroutines' = (goroutines \ {g}) \cup {h} /\ UNCHANGED history
    <2>1. WillShowBuild(g) => WillShowBuild(h)
      BY <1>1, <1>2 DEF WillShowBuild
    <2>2. target.seen >= history.releaseChanged => WillShowTarget(h)
      BY <1>2 DEF WillShowTarget
    <2> HIDE DEF h, f
    <2>3. history' = history /\ target' = target /\ target.seen \in Nat
      BY <1>1, <1>5, RowFacts DEF Shown
    <2>4. CASE target.seen >= history.releaseChanged
      BY <1>1, <1>2, <1>4, <1>5, <2>1, <2>2, <2>3, <2>4, GoroutineFacts, RowFacts, RowsStay, GoroutineTurns
    <2>5. CASE target.seen < history.releaseChanged
      BY <1>1, <1>2, <1>4, <1>5, <2>1, <2>2, <2>3, <2>5, GoroutineFacts, RowFacts, RowsStay, GoroutineTurns
    <2>. QED  BY <2>3, <2>4, <2>5, RowFacts
  <1>6. CASE goroutines' = (goroutines \ {g}) \cup {f} /\ Failure
    <2>1. WillShowBuild(g) => WillShowBuild(f)
      BY <1>1, <1>3 DEF WillShowBuild
    <2> HIDE DEF h, f
    <2>2. target' = target
      BY <1>1
    <2>. QED  BY <1>1, <1>3, <1>4, <1>6, <2>1, <2>2, FailureFacts, GoroutineFacts, RowFacts, RowsStay, GoroutineTurns
  <1>. QED  BY <1>1, <1>5, <1>6

LEMMA FailInv ==
  ASSUME TablesInv, NEW g \in goroutines, Fail(g)
  PROVE  TablesInv'
  <1>1. goroutines' = goroutines \ {g} /\ Failure /\ UNCHANGED <<tables, pipeline, target, call, page>>
    BY DEF Fail, Leaves
  <1>2. target' = target
    BY <1>1
  <1>. QED  BY <1>1, <1>2, FailureFacts, GoroutineFacts, RowFacts, RowsStay, GoroutineEnds

LEMMA WritePipelineInv ==
  ASSUME TablesInv, NEW g \in goroutines, WritePipeline(g)
  PROVE  TablesInv'
  <1>1. PICK groups \in Groups :
          /\ pipeline' = UpsertedPipeline(g, groups)
          /\ history' = [history EXCEPT !.build = Greater(history.build, g.build.seen),
                                        !.target = Greater(history.target, g.target.seen),
                                        !.groups = IF pipeline = None THEN groups ELSE history.groups, !.shown = TRUE]
    BY DEF WritePipeline
  <1>2. /\ g.at = "writePipeline" /\ goroutines' = goroutines \ {g}
        /\ UNCHANGED <<tables, target, call, page>>
    BY DEF WritePipeline, Leaves
  <1>3. /\ Greater(history.build, g.build.seen) \in Nat /\ Greater(history.target, g.target.seen) \in Nat
        /\ Greater(history.build, g.build.seen) >= history.build /\ Greater(history.build, g.build.seen) >= g.build.seen
        /\ Greater(history.target, g.target.seen) >= history.target
        /\ Greater(history.target, g.target.seen) >= g.target.seen
    BY GoroutineFacts, RowFacts DEF Greater
  <1>4. /\ history' \in History /\ history'.build = Greater(history.build, g.build.seen)
        /\ history'.target = Greater(history.target, g.target.seen)
        /\ history'.buildChanged = history.buildChanged /\ history'.releaseChanged = history.releaseChanged
        /\ history'.lost = history.lost /\ history'.release = history.release
    BY <1>1, <1>3, RowFacts DEF History
  <1>5. /\ pipeline' \in Pipeline /\ pipeline' # None
        /\ pipeline'.build = g.build /\ pipeline'.target = g.target
    <2>1. CASE pipeline = None
      BY <1>1, <2>1, GoroutineFacts, ManifestAssumption, NoneAssumption DEF UpsertedPipeline, Pipeline
    <2>2. CASE pipeline # None
      BY <1>1, <2>2, GoroutineFacts, RowFacts, ManifestAssumption, NoneAssumption DEF UpsertedPipeline, Pipeline
    <2>. QED  BY <2>1, <2>2
  <1>6. builds' = builds /\ releases' = releases /\ changes' = changes /\ target' = target
    BY <1>2 DEF tables
  <1>7. ShowsBuild(pipeline.build)' /\ ShowsRelease(pipeline.target)'
    <2>1. ShowsBuild(g.build)' /\ ShowsRelease(g.target)'
      BY <1>4, <1>6, GoroutineFacts, StaysShown
    <2>. QED  BY <1>5, <2>1 DEF ShowsBuild, ShowsRelease
  <1>8. target' \in Shown /\ ShowsRelease(target)'
    BY <1>4, <1>6, RowFacts, StaysShown
  <1>9. WillShowBuild(g) => history'.build >= history.buildChanged
    BY <1>2, <1>3, <1>4, GoroutineFacts, RowFacts DEF WillShowBuild
  <1>10. WillShowTarget(g) => history'.target >= history.releaseChanged
    BY <1>2, <1>3, <1>4, GoroutineFacts, RowFacts DEF WillShowTarget
  <1>11. ~WillShowRelease(g)
    BY <1>2 DEF WillShowRelease
  <1>. QED  BY <1>2, <1>3, <1>4, <1>5, <1>6, <1>7, <1>8, <1>9, <1>10, <1>11, RowFacts, GoroutineEnds

(* Changes of the tables                                                     *)
LEMMA InsertBuildInv ==
  ASSUME TablesInv, NEW c \in Calls, InsertBuild(c), call[c].branch \in Branches
  PROVE  TablesInv'
  <1>1. PICK status \in {"pending", "failed"} :
          builds' = Append(builds, [version |-> call[c].version, status |-> status, branch |-> call[c].branch])
    BY DEF InsertBuild
  <1>2. /\ Changes /\ Starts("tables") /\ call' = [call EXCEPT ![c] = Idle]
        /\ history' = [history EXCEPT !.buildChanged = changes']
        /\ UNCHANGED <<releases, counter, pipeline, target, page>>
    BY DEF InsertBuild
  <1>3. builds \in Seq(Build) /\ call \in [Calls -> Call]
    BY RowFacts DEF TypeOK
  <1>4. [version |-> call[c].version, status |-> status, branch |-> call[c].branch] \in Build
    BY <1>3 DEF Build, Call, Status, Table!Status, Table!Live, Table!Terminal
  <1>5. builds' \in Seq(Build) /\ builds' # <<>>
    BY <1>1, <1>3, <1>4
  <1>6. Idle \in Call
    BY DEF Idle, Call
  <1>7. call' \in [Calls -> Call]
    BY <1>2, <1>3, <1>6
  <1>. QED  BY <1>2, <1>5, <1>7, BuildsChange

LEMMA UpdateBuildStatusInv ==
  ASSUME TablesInv, NEW b \in DOMAIN builds, NEW s \in Reported, UpdateBuildStatus(b, s)
  PROVE  TablesInv'
  <1>1. /\ Changes /\ Starts("readBuilds") /\ builds' = [builds EXCEPT ![b] = [builds[b] EXCEPT !.status = s]]
        /\ history' = [history EXCEPT !.buildChanged = changes']
        /\ UNCHANGED <<releases, counter, pipeline, target, call, page>>
    BY DEF UpdateBuildStatus
  <1>2. builds \in Seq(Build) /\ call \in [Calls -> Call] /\ s \in Status
    BY RowFacts, ReportedAssumption DEF TypeOK
  <1>3. builds[b] \in Build
    BY <1>2
  <1>4. [builds[b] EXCEPT !.status = s] \in Build
    BY <1>2, <1>3 DEF Build
  <1>5. builds' \in Seq(Build) /\ builds' # <<>>
    BY <1>1, <1>2, <1>4
  <1>. QED  BY <1>1, <1>2, <1>5, BuildsChange

LEMMA InsertReleaseInv ==
  ASSUME TablesInv, NEW c \in Calls, InsertRelease(c)
  PROVE  TablesInv'
  <1> DEFINE x == [version |-> call[c].version, status |-> "pending", shown |-> call[c].shown]
  <1>1. /\ call[c].at = "release" /\ Changes /\ Starts("readRelease") /\ call' = [call EXCEPT ![c] = Idle]
        /\ releases' = Append(releases, x)
        /\ history' = [history EXCEPT !.releaseChanged = changes']
        /\ UNCHANGED <<builds, counter, pipeline, target, page>>
    BY DEF InsertRelease
  <1>2. releases \in Seq(Release) /\ call \in [Calls -> Call]
    BY RowFacts DEF TypeOK
  <1>3. x \in Release
    BY <1>2 DEF Release, Call, Status, Table!Status, Table!Live
  <1> HIDE DEF x
  <1>4. releases' \in Seq(Release) /\ releases' # <<>>
    BY <1>1, <1>2, <1>3
  <1>5. Idle \in Call
    BY DEF Idle, Call
  <1>6. call' \in [Calls -> Call]
    BY <1>1, <1>2, <1>5
  <1>7. builds # <<>>
    BY <1>1 DEF TablesInv, NeverEmpty
  <1>. QED  BY <1>1, <1>4, <1>6, <1>7, ReleasesChange

LEMMA UpdateReleaseStatusInv ==
  ASSUME TablesInv, NEW r \in DOMAIN releases, NEW s \in Reported, UpdateReleaseStatus(r, s)
  PROVE  TablesInv'
  <1>1. /\ Changes /\ Starts("readRelease") /\ releases' = [releases EXCEPT ![r] = [releases[r] EXCEPT !.status = s]]
        /\ history' = [history EXCEPT !.releaseChanged = changes']
        /\ UNCHANGED <<builds, counter, pipeline, target, call, page>>
    BY DEF UpdateReleaseStatus
  <1>2. releases \in Seq(Release) /\ call \in [Calls -> Call] /\ s \in Status
    BY RowFacts, ReportedAssumption DEF TypeOK
  <1>3. releases[r] \in Release /\ releases # <<>>
    BY <1>2
  <1>4. [releases[r] EXCEPT !.status = s] \in Release
    BY <1>2, <1>3 DEF Release
  <1>5. releases' \in Seq(Release) /\ releases' # <<>>
    BY <1>1, <1>2, <1>3, <1>4
  <1>6. builds # <<>>
    BY <1>3 DEF TablesInv, NeverEmpty
  <1>. QED  BY <1>1, <1>2, <1>5, <1>6, ReleasesChange

(* Steps that change neither tables, rows of builds nor goroutines.          *)
LEMMA OtherStep ==
  ASSUME TablesInv, UNCHANGED <<builds, releases, changes, target, goroutines>>, counter' \in Nat,
         call' \in [Calls -> Call],
         \A c \in Calls : call'[c].at \in {"lookup", "release"} => builds # <<>>,
         pipeline' = pipeline \/ (/\ pipeline # None /\ pipeline' # None /\ pipeline' \in Pipeline
                                  /\ pipeline'.build = pipeline.build /\ pipeline'.target = pipeline.target),
         history' \in History,
         history'.buildChanged = history.buildChanged, history'.releaseChanged = history.releaseChanged,
         history'.lost = history.lost, history'.build = history.build,
         history'.release = history.release, history'.target = history.target,
         page' \in [groups : Groups, archived : BOOLEAN] \cup {None},
         page' # None => pipeline # None
  PROVE  TablesInv'
  <1>1. TypeOK'
    BY RowFacts DEF TypeOK
  <1>2. Counted'
    BY RowFacts DEF Counted
  <1>3. NeverEmpty'
    BY DEF TablesInv, NeverEmpty
  <1>4. GoroutinesShow'
    BY StaysShown DEF TablesInv, GoroutinesShow
  <1>5. RowsShow'
    <2>1. ShowsRelease(target)'
      BY RowFacts, StaysShown
    <2>2. pipeline # None => ShowsBuild(pipeline.build) /\ ShowsRelease(pipeline.target)
      BY RowFacts
    <2>3. pipeline' # None => ShowsBuild(pipeline.build)' /\ ShowsRelease(pipeline.target)'
      BY <2>2 DEF ShowsBuild, ShowsRelease, Last
    <2>. QED  BY <2>1, <2>3 DEF RowsShow
  <1>6. BuildCarried' /\ ReleaseCarried' /\ TargetCarried'
    BY DEF TablesInv, BuildCarried, ReleaseCarried, TargetCarried, WillShowBuild, WillShowRelease, WillShowTarget
  <1>. QED  BY <1>1, <1>2, <1>3, <1>4, <1>5, <1>6 DEF TablesInv, PageOpen

-----------------------------------------------------------------------------
(* Settled rows                                                              *)

(* With nothing under way the rows show the last jobs.                       *)
LEMMA SettledBuild ==
  ASSUME TablesInv, pipeline # None, BuildSettled
  PROVE  /\ pipeline.build.job = Len(builds) /\ pipeline.build.status = Last(builds).status
         /\ pipeline.build.version = Last(builds).version
  <1>1. history.build >= history.buildChanged
    BY RowFacts DEF TablesInv, BuildCarried, BuildSettled, Pending
  <1>. QED  BY <1>1, RowFacts DEF BuildSettled, ShowsBuild

LEMMA SettledTarget ==
  ASSUME TablesInv, pipeline # None, TargetSettled
  PROVE  /\ pipeline.target.job = Len(releases) /\ pipeline.target.status = Last(releases).status
         /\ pipeline.target.version = Last(releases).version
  <1>1. history.release >= history.releaseChanged
    BY RowFacts DEF TablesInv, ReleaseCarried, TargetSettled, Pending
  <1>2. history.target >= history.releaseChanged
    BY <1>1, RowFacts DEF TablesInv, TargetCarried, TargetSettled, Pending
  <1>. QED  BY <1>2, RowFacts DEF TargetSettled, ShowsRelease

LEMMA SettledRow ==
  ASSUME TablesInv, Settled
  PROVE  ShownVersion = Last(builds).version /\ ActiveVersion = Last(releases).version
  <1>1. pipeline # None /\ BuildSettled
    BY DEF Settled
  <1>2. ShownVersion = Last(builds).version
    BY <1>1, SettledBuild DEF ShownVersion
  <1>3. CASE TargetSettled
    BY <1>1, <1>2, <1>3, SettledTarget DEF ActiveVersion
  <1>4. CASE releases = <<>>
    <2>1. history.releaseChanged = 0 /\ pipeline.target.seen \in Nat
      BY <1>1, <1>4, RowFacts DEF Counted, Shown
    <2>2. pipeline.target.version = Last(releases).version
      BY <1>1, <2>1, RowFacts DEF ShowsRelease
    <2>. QED  BY <1>1, <1>2, <2>2 DEF ActiveVersion
  <1>. QED  BY <1>1, <1>3, <1>4 DEF Settled

-----------------------------------------------------------------------------
(* Calls                                                                     *)

(* The build a call saw in the row is in the table.                          *)
Seen(q) == \E b \in DOMAIN builds : builds[b].version = q.shown /\ builds[b].branch = q.on

CallHolds(q) ==
  /\ q.at \in {"counter", "branch", "build"} => q.want = "none" /\ q.branch \in Branches
  /\ q.at \in {"branch", "lookup", "release"} \/ q.shown # 0 => Seen(q)
  /\ q.at = "release" => Succeeded(q.version) \/ q.version = q.shown
  /\ q.at = "branch" => q.maxBranch = q.version
  /\ q.at = "branch" => q.max = Greater(q.version, q.shown)
  /\ q.at = "build" => q.maxBranch \in {q.version, q.max}
  /\ q.settled =>
       /\ q.shown = q.newest
       /\ q.want = "latest"  => q.version = q.newest
       /\ q.want = "current" => q.version = IF q.deployed > 0 THEN q.deployed ELSE q.newest
       /\ q.at = "build"     => q.max >= q.newest

CallsHold == \A c \in Calls : CallHolds(call[c])

(* The row, and a goroutine about to write it, show the version of the build *)
(* they name.                                                                *)
ShownBuilt(x) == x.job \in DOMAIN builds /\ builds[x.job].version = x.version
RowsBuilt ==
  /\ pipeline # None => ShownBuilt(pipeline.build)
  /\ \A g \in goroutines : g.at \in {"readTargets", "writePipeline"} => ShownBuilt(g.build)

IInv == TablesInv /\ RowsBuilt /\ CallsHold /\ TriggeredReleases

(* What every step leaves: rows of builds keep their version and branch, and *)
(* one that succeeded stays so.                                              *)
KeepsBuilds ==
  /\ \A v : Succeeded(v) => Succeeded(v)'
  /\ \A b \in DOMAIN builds :
       b \in DOMAIN builds' /\ builds'[b].version = builds[b].version /\ builds'[b].branch = builds[b].branch

LEMMA IdleHolds == Idle \in Call /\ CallHolds(Idle)
  BY DEF Idle, Call, CallHolds

LEMMA CallFacts ==
  ASSUME TablesInv
  PROVE  /\ call \in [Calls -> Call] /\ \A c \in Calls : call[c] \in Call
         /\ builds \in Seq(Build) /\ releases \in Seq(Release) /\ counter \in Nat
         /\ page \in [groups : Groups, archived : BOOLEAN] \cup {None}
         /\ (page # None => pipeline # None)
  BY DEF TablesInv, TypeOK, PageOpen

LEMMA BuildsKept ==
  ASSUME TablesInv,
         \/ builds' = builds
         \/ \E x \in Build : builds' = Append(builds, x)
         \/ \E b \in DOMAIN builds, s \in Reported : /\ builds[b].status \in AllowedFrom(s)
                                                     /\ builds' = [builds EXCEPT ![b] = [builds[b] EXCEPT !.status = s]]
  PROVE  KeepsBuilds
  <1>1. builds \in Seq(Build)
    BY CallFacts
  <1>2. CASE builds' = builds
    BY <1>2 DEF KeepsBuilds, Succeeded
  <1>3. CASE \E x \in Build : builds' = Append(builds, x)
    <2>1. PICK x \in Build : builds' = Append(builds, x)
      BY <1>3
    <2>2. \A k \in DOMAIN builds : k \in DOMAIN builds' /\ builds'[k] = builds[k]
      BY <1>1, <2>1
    <2>. QED  BY <2>2 DEF KeepsBuilds, Succeeded
  <1>4. CASE \E b \in DOMAIN builds, s \in Reported : /\ builds[b].status \in AllowedFrom(s)
                                                      /\ builds' = [builds EXCEPT ![b] = [builds[b] EXCEPT !.status = s]]
    <2>1. PICK b \in DOMAIN builds, s \in Reported : /\ builds[b].status \in AllowedFrom(s)
                                                     /\ builds' = [builds EXCEPT ![b] = [builds[b] EXCEPT !.status = s]]
      BY <1>4
    <2>2. "succeeded" \notin AllowedFrom(s)
      BY DEF AllowedFrom, Table!AllowedFrom
    <2>3. \A k \in DOMAIN builds : k \in DOMAIN builds' /\ (k # b => builds'[k] = builds[k])
      BY <1>1, <2>1
    <2>4. builds[b] \in Build /\ builds'[b] = [builds[b] EXCEPT !.status = s]
      BY <1>1, <2>1
    <2>5. builds'[b].version = builds[b].version /\ builds'[b].branch = builds[b].branch
      BY <2>4 DEF Build
    <2>6. \A k \in DOMAIN builds : builds[k].status = "succeeded" => builds'[k] = builds[k]
      BY <2>1, <2>2, <2>3
    <2>. QED  BY <2>3, <2>5, <2>6 DEF KeepsBuilds, Succeeded
  <1>. QED  BY <1>2, <1>3, <1>4

LEMMA SameBuilds ==
  ASSUME builds' = builds
  PROVE  KeepsBuilds
  BY DEF KeepsBuilds, Succeeded

(* Where builds are kept, so are the facts of calls, releases and rows.      *)
LEMMA CallsHoldNext ==
  ASSUME \A c \in Calls : \E q : q = call'[c] /\ CallHolds(q)'
  PROVE  CallsHold'
  BY DEF CallsHold, CallHolds, Succeeded, Seen, Greater

LEMMA HoldsOn ==
  ASSUME NEW q, CallHolds(q), KeepsBuilds
  PROVE  CallHolds(q)'
  <1>1. Succeeded(q.version) => Succeeded(q.version)'
    BY DEF KeepsBuilds
  <1>2. Seen(q) => Seen(q)'
    BY DEF KeepsBuilds, Seen
  <1>. QED  BY <1>1, <1>2 DEF CallHolds, Greater

LEMMA TriggeredStay ==
  ASSUME TriggeredReleases, UNCHANGED releases, KeepsBuilds
  PROVE  TriggeredReleases'
  BY DEF TriggeredReleases, KeepsBuilds, Versions

LEMMA BuiltStays ==
  ASSUME RowsBuilt, KeepsBuilds,
         pipeline' # None =>
           \/ pipeline # None /\ pipeline'.build = pipeline.build
           \/ \E g \in goroutines : g.at = "writePipeline" /\ pipeline'.build = g.build,
         \A h \in goroutines' : h.at \in {"readTargets", "writePipeline"} =>
           \/ ShownBuilt(h.build)
           \/ \E g \in goroutines : g.at \in {"readTargets", "writePipeline"} /\ h.build = g.build
  PROVE  RowsBuilt'
  <1>1. ASSUME NEW x, ShownBuilt(x)
        PROVE  x.job \in DOMAIN builds' /\ builds'[x.job].version = x.version
    BY <1>1 DEF ShownBuilt, KeepsBuilds
  <1>2. pipeline' # None => ShownBuilt(pipeline.build)'
    <2>1. pipeline' # None => \E x : ShownBuilt(x) /\ pipeline'.build = x
      BY DEF RowsBuilt
    <2>. QED  BY <1>1, <2>1 DEF ShownBuilt
  <1>3. \A h \in goroutines' : h.at \in {"readTargets", "writePipeline"} => ShownBuilt(h.build)'
    <2>1. \A h \in goroutines' : h.at \in {"readTargets", "writePipeline"} => ShownBuilt(h.build)
      BY DEF RowsBuilt
    <2>. QED  BY <1>1, <2>1 DEF ShownBuilt
  <1>. QED  BY <1>2, <1>3 DEF RowsBuilt

(* A step that gives some call a record that holds, and leaves the others.   *)
LEMMA OneCall ==
  ASSUME CallsHold, TablesInv, NEW c \in Calls, NEW q, CallHolds(q), call' = [call EXCEPT ![c] = q],
         KeepsBuilds
  PROVE  CallsHold'
  <1> SUFFICES ASSUME NEW d \in Calls
               PROVE  \E r : r = call'[d] /\ CallHolds(r)'
    BY CallsHoldNext
  <1>1. CASE d = c
    <2>1. q = call'[d] /\ CallHolds(q)'
      BY <1>1, CallFacts, HoldsOn
    <2>. QED  BY <2>1
  <1>2. CASE d # c
    <2>1. PICK r : r = call[d]
      OBVIOUS
    <2>2. r = call'[d] /\ CallHolds(r)
      BY <1>2, <2>1, CallFacts DEF CallsHold
    <2>3. CallHolds(r)'
      BY <2>2, HoldsOn
    <2>. QED  BY <2>2, <2>3
  <1>. QED  BY <1>1, <1>2

LEMMA NoCall ==
  ASSUME CallsHold, TablesInv, call' = call, KeepsBuilds
  PROVE  CallsHold'
  <1> SUFFICES ASSUME NEW d \in Calls
               PROVE  \E r : r = call'[d] /\ CallHolds(r)'
    BY CallsHoldNext
  <1>1. PICK r : r = call[d]
    OBVIOUS
  <1>2. CallHolds(r)
    BY <1>1 DEF CallsHold
  <1>3. CallHolds(r)'
    BY <1>2, HoldsOn
  <1>. QED  BY <1>1, <1>3

(* What a call reads.                                                        *)
LEMMA ReadingFacts ==
  ASSUME TablesInv, RowsBuilt
  PROVE  /\ Reading \in Call /\ Reading.at = "idle" /\ Reading.want = "none" /\ Reading.shown = ShownVersion
         /\ ShownVersion \in Nat /\ ActiveVersion \in Nat
         /\ Reading.newest \in Nat /\ Reading.deployed \in Nat
         /\ pipeline # None \/ ShownVersion # 0 => Seen(Reading)
         /\ Reading.settled => /\ Reading.newest = ShownVersion /\ Reading.deployed = ActiveVersion
  <1>1. ShownVersion \in Nat /\ ActiveVersion \in Nat
    BY RowFacts DEF ShownVersion, ActiveVersion, Shown
  <1>2. Idle \in Call /\ Idle.at = "idle" /\ Idle.want = "none" /\ ~Idle.settled /\ Idle.newest = 0 /\ Idle.deployed = 0
    BY DEF Idle, Call
  <1>3. Last(builds).version \in Nat /\ Last(releases).version \in Nat
    BY RowFacts, LastShown DEF Shown
  <1>4. /\ ShownBranch \in Branches \cup {None}
        /\ pipeline # None => \E b \in DOMAIN builds : builds[b].version = ShownVersion /\ builds[b].branch = ShownBranch
    <2>1. CASE pipeline = None
      BY <2>1 DEF ShownBranch
    <2>2. CASE pipeline # None
      <3>1. pipeline.build.job \in DOMAIN builds /\ builds[pipeline.build.job].version = pipeline.build.version
        BY <2>2 DEF RowsBuilt, ShownBuilt
      <3>2. builds[pipeline.build.job] \in Build
        BY <3>1, CallFacts
      <3>3. ShownBranch = builds[pipeline.build.job].branch /\ ShownVersion = pipeline.build.version
        BY <2>2 DEF ShownBranch, ShownVersion
      <3>. QED  BY <3>1, <3>2, <3>3 DEF Build
    <2>. QED  BY <2>1, <2>2
  <1> DEFINE read == [Idle EXCEPT !.shown = ShownVersion, !.on = ShownBranch]
  <1>5. /\ read \in Call /\ read.at = "idle" /\ read.want = "none" /\ ~read.settled /\ read.shown = ShownVersion
        /\ read.on = ShownBranch /\ read.newest = 0 /\ read.deployed = 0
    BY <1>1, <1>2, <1>4 DEF Call
  <1> HIDE DEF read
  <1>6. ShownVersion # 0 => pipeline # None
    BY DEF ShownVersion
  <1>7. CASE ~Settled
    <2>1. Reading = read
      BY <1>7 DEF Reading, read
    <2>. QED  BY <1>1, <1>4, <1>5, <1>6, <2>1 DEF Seen
  <1>8. CASE Settled
    <2>1. Reading = [read EXCEPT !.settled = TRUE, !.newest = Last(builds).version, !.deployed = Last(releases).version]
      BY <1>8 DEF Reading, read
    <2>2. /\ Reading \in Call /\ Reading.at = "idle" /\ Reading.want = "none" /\ Reading.shown = ShownVersion
          /\ Reading.on = ShownBranch
          /\ Reading.newest = Last(builds).version /\ Reading.deployed = Last(releases).version
      BY <1>3, <1>5, <2>1 DEF Call
    <2>. QED  BY <1>1, <1>3, <1>4, <1>6, <1>8, <2>2, SettledRow DEF Seen
  <1>. QED  BY <1>7, <1>8

(* A call that goes on, or is dropped.                                       *)
LEMMA CallGoes ==
  ASSUME IInv, NEW c \in Calls, NEW q \in Call, CallHolds(q), call' = [call EXCEPT ![c] = q],
         q.at \in {"lookup", "release"} => builds # <<>>, counter' \in Nat,
         UNCHANGED <<builds, releases, changes, pipeline, target, goroutines, page>>,
         history' = history \/ history' = [history EXCEPT !.others = history.others + 1]
  PROVE  IInv'
  <1>1. TablesInv /\ RowsBuilt /\ CallsHold /\ TriggeredReleases
    BY DEF IInv
  <1>2. call' \in [Calls -> Call] /\ call'[c] = q /\ \A d \in Calls : d # c => call'[d] = call[d]
    BY <1>1, CallFacts
  <1>3. \A d \in Calls : call'[d].at \in {"lookup", "release"} => builds # <<>>
    BY <1>1, <1>2 DEF TablesInv, NeverEmpty
  <1>4. history \in History /\ history.others + 1 \in Nat
    BY <1>1, RowFacts DEF History
  <1>5. /\ history' \in History
        /\ history'.buildChanged = history.buildChanged /\ history'.releaseChanged = history.releaseChanged
        /\ history'.lost = history.lost /\ history'.build = history.build
        /\ history'.release = history.release /\ history'.target = history.target
    BY <1>4 DEF History
  <1>6. TablesInv'
    BY <1>1, <1>2, <1>3, <1>5, OtherStep, CallFacts, RowFacts
  <1>7. KeepsBuilds
    BY SameBuilds
  <1>8. CallsHold'
    BY <1>1, <1>7, OneCall
  <1>9. RowsBuilt'
    BY <1>1, <1>7, BuiltStays
  <1>10. TriggeredReleases'
    BY <1>1, <1>7, TriggeredStay
  <1>. QED  BY <1>6, <1>8, <1>9, <1>10 DEF IInv

LEMMA CreateBuildInv ==
  ASSUME IInv, NEW c \in Calls, NEW version \in 0..counter, NEW branch \in Branches, CreateBuild(c, version, branch)
  PROVE  IInv'
  <1>1. TablesInv /\ RowsBuilt /\ counter \in Nat /\ version \in Nat
    BY CallFacts DEF IInv
  <1>2. PICK read \in {Reading, Idle} :
          call' = [call EXCEPT ![c] = [read EXCEPT !.at = "counter", !.version = version, !.branch = branch]]
    BY DEF CreateBuild
  <1> DEFINE q == [read EXCEPT !.at = "counter", !.version = version, !.branch = branch]
  <1>3. /\ read \in Call /\ read.want = "none" /\ (read.settled => read.newest = read.shown)
        /\ read.shown # 0 => Seen(read)
    <2>1. CASE read = Reading
      BY <1>1, <2>1, ReadingFacts
    <2>2. CASE read = Idle
      <3>1. Idle.shown = 0 /\ Idle.want = "none" /\ ~Idle.settled
        BY DEF Idle
      <3>. QED  BY <2>2, <3>1, IdleHolds
    <2>. QED  BY <2>1, <2>2
  <1>4. /\ q \in Call /\ q.at = "counter" /\ q.want = "none" /\ q.branch = branch /\ q.shown = read.shown
        /\ q.on = read.on /\ q.settled = read.settled /\ q.newest = read.newest
    BY <1>1, <1>3 DEF Call
  <1> HIDE DEF q
  <1>5. CallHolds(q)
    BY <1>3, <1>4 DEF CallHolds, Seen
  <1>6. UNCHANGED <<builds, releases, changes, counter, pipeline, target, goroutines, page, history>>
    BY DEF CreateBuild, tables
  <1>. QED  BY <1>1, <1>2, <1>4, <1>5, <1>6, CallGoes DEF q

(* The maximum of a counter is not below the version shown.                  *)
LEMMA GetCounterInv ==
  ASSUME IInv, NEW c \in Calls, GetCounter(c)
  PROVE  IInv'
  <1> DEFINE p == call[c]
             v == IF p.version = 0 THEN counter + 1 ELSE p.version
             at == IF p.shown = 0 THEN "build" ELSE "branch"
             q == [p EXCEPT !.at = at, !.version = v, !.maxBranch = v, !.max = Greater(v, p.shown)]
  <1>1. TablesInv /\ counter \in Nat /\ p \in Call /\ CallHolds(p)
    BY CallFacts DEF IInv, CallsHold
  <1>2. /\ p.at = "counter" /\ call' = [call EXCEPT ![c] = q]
        /\ counter' = IF p.version = 0 THEN v ELSE counter
        /\ UNCHANGED <<builds, releases, changes, pipeline, target, goroutines, page, history>>
    BY DEF GetCounter
  <1>3. p.version \in Nat /\ p.shown \in Nat /\ p.newest \in Nat /\ v \in Nat
    BY <1>1 DEF Call
  <1>4. Greater(v, p.shown) \in Nat /\ Greater(v, p.shown) >= p.shown
    BY <1>3 DEF Greater
  <1>5. at \in {"build", "branch"} /\ (at = "branch" => p.shown # 0)
    OBVIOUS
  <1>6. p.want = "none" /\ p.branch \in Branches
    BY <1>1, <1>2 DEF CallHolds
  <1> HIDE DEF v, at
  <1>7. /\ q \in Call /\ q.at = at /\ q.version = v /\ q.maxBranch = v /\ q.max = Greater(v, p.shown)
        /\ q.shown = p.shown /\ q.on = p.on /\ q.want = p.want /\ q.branch = p.branch
        /\ q.settled = p.settled /\ q.newest = p.newest
    BY <1>1, <1>3, <1>4, <1>5 DEF Call
  <1> HIDE DEF q
  <1>8. CallHolds(q)
    BY <1>1, <1>3, <1>4, <1>5, <1>6, <1>7 DEF CallHolds, Seen
  <1>9. counter' \in Nat /\ q.at \notin {"lookup", "release"}
    BY <1>1, <1>2, <1>3, <1>5, <1>7
  <1>. QED  BY <1>2, <1>7, <1>8, <1>9, CallGoes

(* The only build of the branch the row showed is the one it showed.         *)
LEMMA ReadBranchInv ==
  ASSUME IInv, NEW c \in Calls, ReadBranch(c)
  PROVE  IInv'
  <1> DEFINE p == call[c]
             q(m) == [p EXCEPT !.at = "build", !.maxBranch = m]
  <1>1. TablesInv /\ counter \in Nat /\ p \in Call /\ CallHolds(p)
    BY CallFacts DEF IInv, CallsHold
  <1>2. p.at = "branch" /\ UNCHANGED <<builds, releases, changes, counter, pipeline, target, goroutines, page, history>>
    BY DEF ReadBranch, tables
  <1>3. /\ p.maxBranch = p.version /\ p.max = Greater(p.version, p.shown) /\ p.version \in Nat /\ p.shown \in Nat
        /\ Seen(p)
    BY <1>1, <1>2 DEF CallHolds, Call
  <1>4. PICK m \in {p.version, p.max} : call' = [call EXCEPT ![c] = q(m)]
    <2>1. CASE \E b \in Single(p.on) :
                 call' = [call EXCEPT ![c] = [p EXCEPT !.at = "build", !.maxBranch = Greater(p.maxBranch, builds[b].version)]]
      <3>1. PICK b \in Single(p.on) :
              call' = [call EXCEPT ![c] = [p EXCEPT !.at = "build", !.maxBranch = Greater(p.maxBranch, builds[b].version)]]
        BY <2>1
      <3>2. builds[b].version = p.shown
        BY <1>3 DEF Single, Seen
      <3>. QED  BY <1>3, <3>1, <3>2
    <2>2. CASE call' = [call EXCEPT ![c].at = "build"]
      <3>1. call' = [call EXCEPT ![c] = [p EXCEPT !.at = "build"]]
        BY <2>2
      <3>2. [p EXCEPT !.at = "build"] = q(p.version)
        BY <1>1, <1>3 DEF Call
      <3>. QED  BY <3>1, <3>2
    <2>. QED  BY <2>1, <2>2 DEF ReadBranch
  <1>5. p.max \in Nat /\ p.max >= p.shown /\ p.newest \in Nat
    BY <1>1, <1>3 DEF Greater, Call
  <1>6. /\ q(m) \in Call /\ q(m).at = "build" /\ q(m).maxBranch = m /\ q(m).version = p.version /\ q(m).max = p.max
        /\ q(m).shown = p.shown /\ q(m).on = p.on /\ q(m).want = p.want /\ q(m).branch = p.branch
        /\ q(m).settled = p.settled /\ q(m).newest = p.newest /\ q(m).deployed = p.deployed
    BY <1>1, <1>3, <1>5 DEF Call
  <1> HIDE DEF q
  <1>7. CallHolds(q(m))
    BY <1>1, <1>2, <1>5, <1>6 DEF CallHolds, Seen
  <1>. QED  BY <1>1, <1>2, <1>4, <1>6, <1>7, CallGoes

LEMMA FireReleaseInv ==
  ASSUME IInv, NEW c \in Calls, NEW want \in Wants, NEW version \in 1..BuildBound, FireRelease(c, want, version)
  PROVE  IInv'
  <1> DEFINE v == VersionToRelease(want, version)
             at == IF v = ShownVersion THEN "release" ELSE "lookup"
             q  == [Reading EXCEPT !.at = at, !.want = want, !.version = v]
  <1>1. TablesInv /\ RowsBuilt /\ CallsHold /\ counter \in Nat /\ version \in Nat
    BY CallFacts, BoundsAssumption DEF IInv
  <1>2. /\ pipeline # None /\ call' = [call EXCEPT ![c] = q]
        /\ UNCHANGED <<builds, releases, changes, counter, pipeline, target, goroutines, page, history>>
    BY DEF FireRelease, tables
  <1>3. /\ v \in Nat
        /\ want = "latest" => v = ShownVersion
        /\ want = "current" => v = IF ActiveVersion > 0 THEN ActiveVersion ELSE ShownVersion
    BY <1>1, ReadingFacts DEF VersionToRelease
  <1>4. /\ q \in Call /\ q.at = at /\ q.want = want /\ q.version = v /\ q.shown = ShownVersion /\ q.on = Reading.on
        /\ q.settled = Reading.settled /\ q.newest = Reading.newest /\ q.deployed = Reading.deployed
    BY <1>1, <1>3, ReadingFacts DEF Call
  <1>5. at \in {"lookup", "release"} /\ (at = "release" => v = ShownVersion)
    OBVIOUS
  <1> HIDE DEF v, at, q
  <1>6. Seen(q)
    BY <1>1, <1>2, <1>4, ReadingFacts DEF Seen
  <1>7. CallHolds(q)
    BY <1>1, <1>3, <1>4, <1>5, <1>6, ReadingFacts DEF CallHolds
  <1>8. builds # <<>>
    BY <1>1, <1>2 DEF TablesInv, NeverEmpty
  <1>. QED  BY <1>1, <1>2, <1>4, <1>7, <1>8, CallGoes

LEMMA CallFailsInv ==
  ASSUME IInv, NEW c \in Calls, CallFails(c)
  PROVE  IInv'
  <1>1. /\ call' = [call EXCEPT ![c] = Idle] /\ history' = [history EXCEPT !.others = history.others + 1]
        /\ UNCHANGED <<builds, releases, changes, counter, pipeline, target, goroutines, page>>
    BY DEF CallFails, tables
  <1>2. Idle.at = "idle" /\ counter \in Nat
    BY CallFacts DEF Idle, IInv
  <1>. QED  BY <1>1, <1>2, IdleHolds, CallGoes

LEMMA LookUpInv ==
  ASSUME IInv, NEW c \in Calls, LookUp(c)
  PROVE  IInv'
  <1> DEFINE q == [call[c] EXCEPT !.at = "release"]
  <1>1. TablesInv /\ call[c] \in Call /\ CallHolds(call[c]) /\ counter \in Nat
    BY CallFacts DEF IInv, CallsHold
  <1>2. /\ call[c].at = "lookup"
        /\ call' = [call EXCEPT ![c] = IF Found(call[c].version) THEN q ELSE Idle]
        /\ UNCHANGED <<builds, releases, changes, counter, pipeline, target, goroutines, page, history>>
    BY DEF LookUp, tables
  <1>3. builds # <<>>
    BY <1>1, <1>2 DEF TablesInv, NeverEmpty
  <1>4. CASE Found(call[c].version)
    <2>1. /\ q \in Call /\ q.at = "release" /\ q.want = call[c].want /\ q.version = call[c].version
          /\ q.shown = call[c].shown /\ q.on = call[c].on
          /\ q.settled = call[c].settled /\ q.newest = call[c].newest /\ q.deployed = call[c].deployed
      BY <1>1 DEF Call
    <2> HIDE DEF q
    <2>2. Succeeded(q.version)
      BY <1>4, <2>1 DEF Found
    <2>3. CallHolds(q)
      BY <1>1, <1>2, <2>1, <2>2 DEF CallHolds, Seen
    <2>. QED  BY <1>1, <1>2, <1>3, <1>4, <2>1, <2>3, CallGoes
  <1>5. CASE ~Found(call[c].version)
    BY <1>1, <1>2, <1>3, <1>5, IdleHolds, CallGoes
  <1>. QED  BY <1>4, <1>5

(* A new build, or a new status of one, leaves what was built.               *)
LEMMA BuildStepInv ==
  ASSUME IInv, \/ \E c \in Calls : InsertBuild(c)
               \/ \E b \in DOMAIN builds, s \in Reported : UpdateBuildStatus(b, s)
  PROVE  IInv'
  <1>1. TablesInv /\ RowsBuilt /\ CallsHold /\ TriggeredReleases
    BY DEF IInv
  <1>2. ASSUME Starts("tables") \/ Starts("readBuilds"), pipeline' = pipeline, KeepsBuilds
        PROVE  RowsBuilt'
    BY <1>1, <1>2, BuiltStays DEF Starts
  <1>3. CASE \E c \in Calls : InsertBuild(c)
    <2>1. PICK c \in Calls : InsertBuild(c)
      BY <1>3
    <2>2. call[c].branch \in Branches
      BY <1>1, <2>1 DEF CallsHold, CallHolds, InsertBuild
    <2>3. PICK status \in {"pending", "failed"} :
            builds' = Append(builds, [version |-> call[c].version, status |-> status, branch |-> call[c].branch])
      BY <2>1 DEF InsertBuild
    <2>4. [version |-> call[c].version, status |-> status, branch |-> call[c].branch] \in Build
      BY <1>1, <2>2, CallFacts DEF Build, Call, Status, Table!Status, Table!Live, Table!Terminal
    <2>5. \E x \in Build : builds' = Append(builds, x)
      BY <2>3, <2>4
    <2>6. KeepsBuilds
      BY <1>1, <2>5, BuildsKept
    <2>7. call' = [call EXCEPT ![c] = Idle] /\ releases' = releases /\ Starts("tables") /\ pipeline' = pipeline
      BY <2>1 DEF InsertBuild
    <2>8. CallsHold'
      BY <1>1, <2>6, <2>7, IdleHolds, OneCall
    <2>9. TablesInv'
      BY <1>1, <2>1, <2>2, InsertBuildInv
    <2>. QED  BY <1>1, <1>2, <2>6, <2>7, <2>8, <2>9, TriggeredStay DEF IInv
  <1>4. CASE \E b \in DOMAIN builds, s \in Reported : UpdateBuildStatus(b, s)
    <2>1. PICK b \in DOMAIN builds, s \in Reported : UpdateBuildStatus(b, s)
      BY <1>4
    <2>2. builds[b].status \in AllowedFrom(s) /\ builds' = [builds EXCEPT ![b] = [builds[b] EXCEPT !.status = s]]
      BY <2>1 DEF UpdateBuildStatus
    <2>3. KeepsBuilds
      BY <1>1, <2>2, BuildsKept
    <2>4. call' = call /\ releases' = releases /\ Starts("readBuilds") /\ pipeline' = pipeline
      BY <2>1 DEF UpdateBuildStatus
    <2>5. CallsHold' /\ TriggeredReleases'
      BY <1>1, <2>3, <2>4, NoCall, TriggeredStay
    <2>6. TablesInv'
      BY <1>1, <2>1, UpdateBuildStatusInv
    <2>. QED  BY <1>2, <2>3, <2>4, <2>5, <2>6 DEF IInv
  <1>. QED  BY <1>3, <1>4

(* A new release is of a version its call may release.                       *)
LEMMA InsertReleaseKeeps ==
  ASSUME IInv, NEW c \in Calls, InsertRelease(c)
  PROVE  IInv'
  <1> DEFINE x == [version |-> call[c].version, status |-> "pending", shown |-> call[c].shown]
  <1>1. TablesInv /\ RowsBuilt /\ CallsHold /\ TriggeredReleases /\ call[c] \in Call /\ CallHolds(call[c])
    BY CallFacts DEF IInv, CallsHold
  <1>2. /\ call[c].at = "release" /\ releases' = Append(releases, x) /\ call' = [call EXCEPT ![c] = Idle]
        /\ builds' = builds /\ pipeline' = pipeline /\ Starts("readRelease")
    BY DEF InsertRelease
  <1>3. TablesInv'
    BY <1>1, <1>2, InsertReleaseInv
  <1>4. KeepsBuilds
    BY <1>2, SameBuilds
  <1>5. CallsHold'
    BY <1>1, <1>2, <1>4, IdleHolds, OneCall
  <1>6. RowsBuilt'
    BY <1>1, <1>2, <1>4, BuiltStays DEF Starts
  <1>7. x.version = call[c].version /\ x.shown = call[c].shown
    OBVIOUS
  <1>8. x.version \in Versions /\ (Succeeded(x.version) \/ x.version = x.shown)
    BY <1>1, <1>2, <1>7 DEF CallHolds, Seen, Succeeded, Versions
  <1>9. x \in Release
    BY <1>1, <1>2 DEF Release, Call, CallHolds, Status, Table!Status, Table!Live
  <1> HIDE DEF x
  <1>10. TriggeredReleases'
    <2> SUFFICES ASSUME NEW r \in DOMAIN releases'
                 PROVE  /\ releases'[r].version \in Versions'
                        /\ Succeeded(releases[r].version)' \/ releases'[r].version = releases'[r].shown
      BY DEF TriggeredReleases
    <2>1. PICK y : y = releases'[r]
      OBVIOUS
    <2>2. y.version \in Versions /\ (Succeeded(y.version) \/ y.version = y.shown)
      <3>1. CASE r \in DOMAIN releases
        <4>1. y = releases[r]
          BY <1>1, <1>2, <1>9, <2>1, <3>1, CallFacts
        <4>. QED  BY <1>1, <3>1, <4>1 DEF TriggeredReleases
      <3>2. CASE r \notin DOMAIN releases
        <4>1. y = x
          BY <1>1, <1>2, <1>9, <2>1, <3>2, CallFacts
        <4>. QED  BY <1>8, <4>1
      <3>. QED  BY <3>1, <3>2
    <2>. QED  BY <1>2, <2>1, <2>2 DEF Succeeded, Versions
  <1>. QED  BY <1>3, <1>5, <1>6, <1>10 DEF IInv

LEMMA UpdateReleaseKeeps ==
  ASSUME IInv, NEW r \in DOMAIN releases, NEW s \in Reported, UpdateReleaseStatus(r, s)
  PROVE  IInv'
  <1>1. TablesInv /\ RowsBuilt /\ CallsHold /\ TriggeredReleases /\ releases \in Seq(Release)
    BY CallFacts DEF IInv
  <1>2. /\ releases' = [releases EXCEPT ![r] = [releases[r] EXCEPT !.status = s]] /\ call' = call /\ builds' = builds
        /\ pipeline' = pipeline /\ Starts("readRelease")
    BY DEF UpdateReleaseStatus
  <1>3. KeepsBuilds
    BY <1>2, SameBuilds
  <1>4. \A k \in DOMAIN releases : releases[k] \in Release
    BY <1>1
  <1>5. DOMAIN releases' = DOMAIN releases
    BY <1>1, <1>2
  <1>6. \A k \in DOMAIN releases : releases'[k].version = releases[k].version /\ releases'[k].shown = releases[k].shown
    BY <1>1, <1>2, <1>4 DEF Release
  <1>7. TriggeredReleases'
    BY <1>1, <1>2, <1>5, <1>6 DEF TriggeredReleases, Succeeded, Versions
  <1>8. RowsBuilt'
    BY <1>1, <1>2, <1>3, BuiltStays DEF Starts
  <1>. QED  BY <1>1, <1>2, <1>3, <1>7, <1>8, UpdateReleaseStatusInv, NoCall DEF IInv

(* The goroutines, and users, change no build, release or call.              *)
LEMMA KeepsCalls ==
  ASSUME IInv, TablesInv', RowsBuilt', UNCHANGED <<tables, call>>
  PROVE  IInv'
  <1>1. builds' = builds /\ releases' = releases /\ call' = call
    BY DEF tables
  <1>2. KeepsBuilds
    BY <1>1, SameBuilds
  <1>. QED  BY <1>1, <1>2, NoCall, TriggeredStay DEF IInv

LEMMA GoroutineStepInv ==
  ASSUME IInv, NEW g \in goroutines, GoroutineStep(g)
  PROVE  IInv'
  <1>1. UNCHANGED <<tables, call>>
    BY DEF GoroutineStep, UpdateComputedTables, ReadRelease, WriteRelease, ReadBuilds, ReadTargets, WritePipeline, Fail
  <1>2. TablesInv'
    BY UpdateComputedTablesInv, ReadReleaseInv, WriteReleaseInv, ReadBuildsInv, ReadTargetsInv, WritePipelineInv, FailInv
       DEF GoroutineStep, IInv
  <1>3. KeepsBuilds /\ RowsBuilt /\ TablesInv
    BY <1>1, SameBuilds DEF tables, IInv
  <1>4. RowsBuilt'
    <2>1. CASE WritePipeline(g)
      <3>1. PICK groups \in Groups : pipeline' = UpsertedPipeline(g, groups)
        BY <2>1 DEF WritePipeline
      <3>2. pipeline # None => pipeline \in Pipeline
        BY <1>3, RowFacts
      <3>3. g.at = "writePipeline" /\ goroutines' \subseteq goroutines /\ pipeline'.build = g.build
        BY <2>1, <3>1, <3>2 DEF WritePipeline, Leaves, UpsertedPipeline, Pipeline
      <3>. QED  BY <1>3, <3>3, BuiltStays
    <2>2. CASE ReadBuilds(g)
      <3>1. /\ goroutines' = (goroutines \ {g}) \cup {[g EXCEPT !.at = "readTargets", !.build = Last(builds)]}
            /\ pipeline' = pipeline
        BY <2>2 DEF ReadBuilds, Goes
      <3>2. g \in Goroutine /\ builds # <<>> /\ builds \in Seq(Build)
        BY <1>3, GoroutineFacts, CallFacts DEF TablesInv, NeverEmpty
      <3>3. ShownBuilt(Last(builds))
        BY <3>2 DEF ShownBuilt, Last
      <3>4. [g EXCEPT !.at = "readTargets", !.build = Last(builds)].build = Last(builds)
        BY <3>2 DEF Goroutine
      <3>. QED  BY <1>3, <3>1, <3>3, <3>4, BuiltStays
    <2>3. CASE ReadTargets(g)
      <3>1. /\ g.at = "readTargets" /\ pipeline' = pipeline
            /\ \/ goroutines' = (goroutines \ {g}) \cup {[g EXCEPT !.at = "writePipeline", !.target = target]}
               \/ goroutines' = (goroutines \ {g}) \cup {[g EXCEPT !.at = "writePipeline"]}
        BY <2>3 DEF ReadTargets, Goes
      <3>2. g \in Goroutine
        BY <1>3, GoroutineFacts
      <3>3. /\ [g EXCEPT !.at = "writePipeline", !.target = target].build = g.build
            /\ [g EXCEPT !.at = "writePipeline"].build = g.build
        BY <3>2 DEF Goroutine
      <3>. QED  BY <1>3, <3>1, <3>3, BuiltStays
    <2>4. CASE Fail(g)
      BY <1>3, <2>4, BuiltStays DEF Fail, Leaves
    <2>5. CASE UpdateComputedTables(g) \/ ReadRelease(g) \/ WriteRelease(g)
      <3>1. PICK h : /\ goroutines' = (goroutines \ {g}) \cup {h} /\ pipeline' = pipeline
                     /\ h.at \in {"readRelease", "readBuilds", "writeRelease"}
        <4>1. g \in Goroutine
          BY <1>3, GoroutineFacts
        <4>2. CASE UpdateComputedTables(g)
          <5>1. PICK at \in {"readRelease", "readBuilds"} :
                  goroutines' = (goroutines \ {g}) \cup {[g EXCEPT !.at = at]} /\ pipeline' = pipeline
            BY <4>2 DEF UpdateComputedTables, Goes
          <5>2. [g EXCEPT !.at = at].at = at
            BY <4>1 DEF Goroutine
          <5>. QED  BY <5>1, <5>2
        <4>3. CASE ReadRelease(g)
          <5>1. [g EXCEPT !.at = "writeRelease", !.release = Last(releases)].at = "writeRelease"
            BY <4>1 DEF Goroutine
          <5>. QED  BY <4>3, <5>1 DEF ReadRelease, Goes
        <4>4. CASE WriteRelease(g)
          <5>1. [g EXCEPT !.at = "readBuilds"].at = "readBuilds"
            BY <4>1 DEF Goroutine
          <5>. QED  BY <4>4, <5>1 DEF WriteRelease, Goes
        <4>. QED  BY <2>5, <4>2, <4>3, <4>4
      <3>. QED  BY <1>3, <3>1, BuiltStays
    <2>. QED  BY <2>1, <2>2, <2>3, <2>4, <2>5 DEF GoroutineStep
  <1>. QED  BY <1>1, <1>2, <1>4, KeepsCalls

LEMMA UserStepInv ==
  ASSUME IInv, UserStep
  PROVE  IInv'
  <1>1. TablesInv
    BY DEF IInv
  <1>2. ASSUME NEW archived \in BOOLEAN, SetArchived(archived)
        PROVE  TablesInv' /\ UNCHANGED <<tables, call>>
    <2>1. /\ pipeline # None /\ pipeline' = [pipeline EXCEPT !.archived = archived]
          /\ history' = [history EXCEPT !.archived = archived, !.shown = FALSE, !.reverted = FALSE,
                                        !.others = history.others + 1]
          /\ UNCHANGED <<tables, target, goroutines, call, page>>
      BY <1>2 DEF SetArchived, Chooses
    <2>2. pipeline' \in Pipeline /\ pipeline'.build = pipeline.build /\ pipeline'.target = pipeline.target
      BY <1>1, <2>1, RowFacts DEF Pipeline
    <2>3. history.others + 1 \in Nat
      BY <1>1, RowFacts DEF History
    <2>4. /\ history' \in History
          /\ history'.buildChanged = history.buildChanged /\ history'.releaseChanged = history.releaseChanged
          /\ history'.lost = history.lost /\ history'.build = history.build
          /\ history'.release = history.release /\ history'.target = history.target
      BY <1>1, <2>1, <2>3, RowFacts DEF History
    <2>5. \A c \in Calls : call'[c].at \in {"lookup", "release"} => builds # <<>>
      BY <1>1, <2>1 DEF TablesInv, NeverEmpty
    <2>6. builds' = builds /\ releases' = releases /\ changes' = changes /\ counter' = counter
      BY <2>1 DEF tables
    <2>7. pipeline' # None
      BY <2>2, NoneAssumption
    <2>. QED  BY <1>1, <2>1, <2>2, <2>4, <2>5, <2>6, <2>7, OtherStep, CallFacts
  <1>3. ASSUME LoadPermissions
        PROVE  TablesInv' /\ UNCHANGED <<tables, call>>
    <2>1. /\ pipeline # None /\ page' = [groups |-> pipeline.groups, archived |-> pipeline.archived]
          /\ history' = [history EXCEPT !.others = history.others + 1]
          /\ UNCHANGED <<tables, pipeline, target, goroutines, call>>
      BY <1>3 DEF LoadPermissions, Chooses
    <2>2. page' \in [groups : Groups, archived : BOOLEAN]
      BY <1>1, <2>1, RowFacts DEF Pipeline
    <2>3. history.others + 1 \in Nat
      BY <1>1, RowFacts DEF History
    <2>4. /\ history' \in History
          /\ history'.buildChanged = history.buildChanged /\ history'.releaseChanged = history.releaseChanged
          /\ history'.lost = history.lost /\ history'.build = history.build
          /\ history'.release = history.release /\ history'.target = history.target
      BY <1>1, <2>1, <2>3, RowFacts DEF History
    <2>5. \A c \in Calls : call'[c].at \in {"lookup", "release"} => builds # <<>>
      BY <1>1, <2>1 DEF TablesInv, NeverEmpty
    <2>6. builds' = builds /\ releases' = releases /\ changes' = changes /\ counter' = counter
      BY <2>1 DEF tables
    <2>. QED  BY <1>1, <2>1, <2>2, <2>4, <2>5, <2>6, OtherStep, CallFacts
  <1>4. ASSUME NEW groups \in Groups, UpdatePermissions(groups)
        PROVE  TablesInv' /\ UNCHANGED <<tables, call>>
    <2>1. /\ page # None /\ page' = None
          /\ pipeline' = [pipeline EXCEPT !.groups = groups, !.archived = page.archived]
          /\ history' = [history EXCEPT !.groups = groups,
                                        !.reverted = history.reverted \/ page.archived # pipeline.archived]
          /\ UNCHANGED <<tables, target, goroutines, call>>
      BY <1>4 DEF UpdatePermissions, Saved
    <2>2. pipeline # None /\ page.archived \in BOOLEAN
      BY <1>1, <2>1, CallFacts
    <2>3. pipeline' \in Pipeline /\ pipeline'.build = pipeline.build /\ pipeline'.target = pipeline.target
      BY <1>1, <2>1, <2>2, RowFacts DEF Pipeline
    <2>4. /\ history' \in History
          /\ history'.buildChanged = history.buildChanged /\ history'.releaseChanged = history.releaseChanged
          /\ history'.lost = history.lost /\ history'.build = history.build
          /\ history'.release = history.release /\ history'.target = history.target
      <3>1. history \in History /\ (history.reverted \/ page.archived # pipeline.archived) \in BOOLEAN
        BY <1>1, RowFacts DEF History
      <3>. QED  BY <2>1, <3>1 DEF History
    <2>5. \A c \in Calls : call'[c].at \in {"lookup", "release"} => builds # <<>>
      BY <1>1, <2>1 DEF TablesInv, NeverEmpty
    <2>6. builds' = builds /\ releases' = releases /\ changes' = changes /\ counter' = counter
      BY <2>1 DEF tables
    <2>7. pipeline' # None
      BY <2>3, NoneAssumption
    <2>. QED  BY <1>1, <2>1, <2>2, <2>3, <2>4, <2>5, <2>6, <2>7, OtherStep, CallFacts
  <1>5. TablesInv' /\ UNCHANGED <<tables, call>>
    BY <1>2, <1>3, <1>4 DEF UserStep
  <1>6. RowsBuilt'
    <2>1. /\ pipeline # None => pipeline \in Pipeline
          /\ page # None => pipeline # None
      BY <1>1, RowFacts, CallFacts
    <2>2. (pipeline' # None => pipeline # None /\ pipeline'.build = pipeline.build) /\ goroutines' = goroutines
      BY <2>1 DEF UserStep, SetArchived, LoadPermissions, UpdatePermissions, Saved, Chooses, Pipeline
    <2>3. KeepsBuilds
      BY <1>5, SameBuilds DEF tables
    <2>. QED  BY <2>2, <2>3, BuiltStays DEF IInv
  <1>. QED  BY <1>5, <1>6, KeepsCalls

LEMMA InitInv == Init => IInv
  <1> SUFFICES ASSUME Init PROVE IInv
    OBVIOUS
  <1>1. PICK g \in Groups :
          history = [buildChanged |-> 0, releaseChanged |-> 0, lost |-> 0, build |-> 0, release |-> 0, target |-> 0,
                     groups |-> g, archived |-> FALSE, shown |-> FALSE, reverted |-> FALSE, others |-> 0]
    BY DEF Init
  <1>2. /\ history \in History /\ history.buildChanged = 0 /\ history.releaseChanged = 0 /\ history.lost = 0
        /\ history.build = 0 /\ history.release = 0 /\ history.target = 0
    BY <1>1 DEF History
  <1>3. /\ builds = <<>> /\ releases = <<>> /\ changes = 0 /\ counter = 0 /\ pipeline = None /\ target = Nothing
        /\ goroutines = {} /\ call = [c \in Calls |-> Idle] /\ page = None
    BY DEF Init
  <1>4. TypeOK
    BY <1>2, <1>3, NothingShown, IdleHolds DEF TypeOK
  <1>5. Counted
    BY <1>2, <1>3 DEF Counted
  <1>6. ShowsRelease(target)
    BY <1>3, <1>4, <1>5, NothingShows
  <1>7. Idle.at = "idle"
    BY DEF Idle
  <1>8. TablesInv
    BY <1>2, <1>3, <1>4, <1>5, <1>6, <1>7
       DEF TablesInv, NeverEmpty, GoroutinesShow, RowsShow, BuildCarried, ReleaseCarried, TargetCarried, PageOpen
  <1>9. CallsHold
    BY <1>3, IdleHolds DEF CallsHold
  <1>. QED  BY <1>3, <1>8, <1>9 DEF IInv, TriggeredReleases, RowsBuilt

LEMMA NextIInv ==
  ASSUME IInv, [Next]_vars
  PROVE  IInv'
  <1>1. CASE UNCHANGED vars
    BY <1>1 DEF vars, tables, IInv, TablesInv, TypeOK, Counted, NeverEmpty, GoroutinesShow, RowsShow, ShowsBuild, ShowsRelease,
                Last, BuildCarried, ReleaseCarried, TargetCarried, WillShowBuild, WillShowRelease, WillShowTarget, PageOpen,
                CallsHold, CallHolds, Seen, Greater, RowsBuilt, ShownBuilt, Succeeded, Versions, TriggeredReleases
  <1>2. CASE Next
    <2>1. ASSUME NEW c \in Calls, CallStep(c)
          PROVE  IInv'
      BY <2>1, CreateBuildInv, GetCounterInv, ReadBranchInv, FireReleaseInv, LookUpInv, BuildStepInv, InsertReleaseKeeps, CallFailsInv DEF CallStep
    <2>2. CASE JobStep
      BY <2>2, BuildStepInv, UpdateReleaseKeeps DEF JobStep
    <2>. QED  BY <1>2, <2>1, <2>2, GoroutineStepInv, UserStepInv DEF Next
  <1>. QED  BY <1>1, <1>2

-----------------------------------------------------------------------------
(* What users chose                                                          *)

Chosen == PermissionsKept /\ ArchivedKept

(* Only WritePipeline and users change the row or the record of choices; the *)
(* record's other fields do not matter to what was chosen.                   *)
LEMMA ChosenStays ==
  ASSUME Chosen, pipeline' = pipeline,
         history'.groups = history.groups, history'.archived = history.archived,
         history'.shown = history.shown, history'.reverted = history.reverted
  PROVE  Chosen'
  BY DEF Chosen, PermissionsKept, ArchivedKept

LEMMA WritePipelineChosen ==
  ASSUME TypeOK, Chosen, NEW g \in goroutines, WritePipeline(g)
  PROVE  Chosen'
  <1>1. PICK groups \in Groups :
          /\ pipeline' = UpsertedPipeline(g, groups)
          /\ history' = [history EXCEPT !.build = Greater(history.build, g.build.seen),
                                        !.target = Greater(history.target, g.target.seen),
                                        !.groups = IF pipeline = None THEN groups ELSE history.groups, !.shown = TRUE]
    BY DEF WritePipeline
  <1>2. history \in History
    BY DEF TypeOK
  <1>3. history'.groups = (IF pipeline = None THEN groups ELSE history.groups) /\ history'.shown = TRUE
    BY <1>1, <1>2 DEF History
  <1>4. CASE pipeline = None
    <2>1. pipeline' = [build |-> g.build, target |-> g.target, archived |-> ManifestArchived, groups |-> groups]
      BY <1>1, <1>4 DEF UpsertedPipeline
    <2>2. pipeline'.archived = ManifestArchived /\ pipeline'.groups = groups
      BY <2>1
    <2>. QED  BY <1>3, <1>4, <2>2 DEF Chosen, PermissionsKept, ArchivedKept
  <1>5. CASE pipeline # None
    <2>1. pipeline' = [pipeline EXCEPT !.build = g.build, !.target = g.target, !.archived = ManifestArchived]
      BY <1>1, <1>5 DEF UpsertedPipeline
    <2>2. pipeline \in Pipeline
      BY <1>5 DEF TypeOK
    <2>3. pipeline'.archived = ManifestArchived /\ pipeline'.groups = pipeline.groups
      BY <2>1, <2>2 DEF Pipeline
    <2>. QED  BY <1>3, <1>5, <2>3 DEF Chosen, PermissionsKept, ArchivedKept
  <1>. QED  BY <1>4, <1>5

LEMMA FailureKeepsChoices ==
  ASSUME TypeOK, Failure
  PROVE  /\ history'.groups = history.groups /\ history'.archived = history.archived
         /\ history'.shown = history.shown /\ history'.reverted = history.reverted
  BY DEF TypeOK, History, Failure

LEMMA GoroutineChosen ==
  ASSUME TypeOK, Chosen, NEW g \in goroutines, GoroutineStep(g)
  PROVE  Chosen'
  <1>1. CASE UpdateComputedTables(g) \/ ReadRelease(g) \/ ReadBuilds(g)
    BY <1>1, ChosenStays DEF UpdateComputedTables, ReadRelease, ReadBuilds
  <1>2. CASE WriteRelease(g)
    <2>1. /\ pipeline' = pipeline
          /\ history' = [history EXCEPT !.release = Greater(history.release, g.release.seen)]
      BY <1>2 DEF WriteRelease
    <2>. QED  BY <2>1, ChosenStays DEF TypeOK, History
  <1>3. CASE ReadTargets(g) \/ Fail(g)
    <2>1. pipeline' = pipeline /\ (history' = history \/ Failure)
      BY <1>3 DEF ReadTargets, Fail
    <2>. QED  BY <2>1, ChosenStays, FailureKeepsChoices
  <1>. QED  BY <1>1, <1>2, <1>3, WritePipelineChosen DEF GoroutineStep

LEMMA UserChosen ==
  ASSUME TypeOK, PageOpen, Chosen, UserStep
  PROVE  Chosen'
  <1>1. history \in History
    BY DEF TypeOK
  <1>2. ASSUME NEW archived \in BOOLEAN, SetArchived(archived)
        PROVE  Chosen'
    <2>1. /\ pipeline # None /\ pipeline' = [pipeline EXCEPT !.archived = archived]
          /\ history' = [history EXCEPT !.archived = archived, !.shown = FALSE, !.reverted = FALSE,
                                        !.others = history.others + 1]
      BY <1>2 DEF SetArchived, Chooses
    <2>2. history'.archived = archived /\ history'.groups = history.groups
      BY <1>1, <2>1 DEF History
    <2>3. pipeline \in Pipeline
      BY <2>1 DEF TypeOK
    <2>4. pipeline'.archived = archived /\ pipeline'.groups = pipeline.groups
      BY <2>1, <2>3 DEF Pipeline
    <2>. QED  BY <2>1, <2>2, <2>4 DEF Chosen, PermissionsKept, ArchivedKept
  <1>3. CASE LoadPermissions
    <2>1. pipeline' = pipeline /\ history' = [history EXCEPT !.others = history.others + 1]
      BY <1>3 DEF LoadPermissions
    <2>. QED  BY <1>1, <2>1, ChosenStays DEF History
  <1>4. ASSUME NEW groups \in Groups, UpdatePermissions(groups)
        PROVE  Chosen'
    <2>1. /\ page # None
          /\ pipeline' = [pipeline EXCEPT !.groups = groups, !.archived = page.archived]
          /\ history' = [history EXCEPT !.groups = groups,
                                        !.reverted = history.reverted \/ page.archived # pipeline.archived]
      BY <1>4 DEF UpdatePermissions, Saved
    <2>2. pipeline # None
      BY <2>1 DEF PageOpen
    <2>3. pipeline \in Pipeline
      BY <2>2 DEF TypeOK
    <2>4. pipeline'.archived = page.archived /\ pipeline'.groups = groups
      BY <2>1, <2>3 DEF Pipeline
    <2>5. /\ history'.archived = history.archived /\ history'.groups = groups /\ history'.shown = history.shown
          /\ history'.reverted = (history.reverted \/ page.archived # pipeline.archived)
      BY <1>1, <2>1 DEF History
    <2>6. PermissionsKept'
      BY <2>4, <2>5 DEF PermissionsKept
    <2>7. CASE page.archived = pipeline.archived
      <3>1. ArchivedKept'
        BY <2>2, <2>4, <2>5, <2>7 DEF Chosen, ArchivedKept
      <3>. QED  BY <2>6, <3>1 DEF Chosen
    <2>8. CASE page.archived # pipeline.archived
      <3>1. ArchivedKept'
        BY <2>5, <2>8 DEF ArchivedKept
      <3>. QED  BY <2>6, <3>1 DEF Chosen
    <2>. QED  BY <2>7, <2>8
  <1>. QED  BY <1>2, <1>3, <1>4 DEF UserStep

LEMMA NextChosen ==
  ASSUME TypeOK, PageOpen, Chosen, [Next]_vars
  PROVE  Chosen'
  <1>1. history \in History
    BY DEF TypeOK
  <1>2. ASSUME NEW c \in Calls, CallStep(c)
        PROVE  Chosen'
    <2>1. pipeline' = pipeline
      BY <1>2 DEF CallStep, CreateBuild, GetCounter, ReadBranch, FireRelease, LookUp, InsertBuild, InsertRelease, CallFails
    <2>2. \/ history' = history
          \/ history' = [history EXCEPT !.buildChanged = changes']
          \/ history' = [history EXCEPT !.releaseChanged = changes']
          \/ history' = [history EXCEPT !.others = history.others + 1]
      BY <1>2 DEF CallStep, CreateBuild, GetCounter, ReadBranch, FireRelease, LookUp, InsertBuild, InsertRelease, CallFails
    <2>. QED  BY <1>1, <2>1, <2>2, ChosenStays DEF History
  <1>3. CASE JobStep
    <2>1. /\ pipeline' = pipeline
          /\ \/ history' = [history EXCEPT !.buildChanged = changes']
             \/ history' = [history EXCEPT !.releaseChanged = changes']
      BY <1>3 DEF JobStep, UpdateBuildStatus, UpdateReleaseStatus
    <2>. QED  BY <1>1, <2>1, ChosenStays DEF History
  <1>4. CASE UNCHANGED vars
    BY <1>4, ChosenStays DEF vars
  <1>. QED  BY <1>2, <1>3, <1>4, GoroutineChosen, UserChosen DEF Next

-----------------------------------------------------------------------------
(* Theorems                                                                  *)

(* IInv is inductive.                                                        *)
THEOREM TablesSafety == Spec => []IInv
  BY InitInv, NextIInv, PTL DEF Spec

(* Rows, goroutines and calls keep the fields the code gives them, and a     *)
(* goroutine of UpdateComputedTables that has rows to read finds one.        *)
THEOREM TypeCorrect == Spec => [](TypeOK /\ NeverEmpty)
  <1>1. IInv => TypeOK /\ NeverEmpty
    BY DEF IInv, TablesInv
  <1>. QED  BY <1>1, TablesSafety, PTL

(* When no goroutine is under way the computed pipeline shows the last build *)
(* and its status, or an older read of UpsertComputedPipeline was written    *)
(* last or a goroutine failed.                                               *)
THEOREM PipelineShowsLastBuild == Spec => []PipelineUpToDate
  <1>1. IInv => PipelineUpToDate
    BY SettledBuild DEF IInv, PipelineUpToDate
  <1>. QED  BY <1>1, TablesSafety, PTL

(* The same of the release the pipeline shows as the active one.             *)
THEOREM PipelineShowsLastRelease == Spec => []TargetUpToDate
  <1>1. IInv => TargetUpToDate
    BY SettledTarget DEF IInv, TargetUpToDate
  <1>. QED  BY <1>1, TablesSafety, PTL

(* fireRelease releases a version of this pipeline's builds with one that    *)
(* succeeded, or else the version the pipeline showed, whatever its event or *)
(* its release action names.                                                 *)
THEOREM TriggersReleaseSucceeded == Spec => []TriggeredReleases
  <1>1. IInv => TriggeredReleases
    BY DEF IInv
  <1>. QED  BY <1>1, TablesSafety, PTL

(* CreateBuild and fireRelease act on the state of the tables when nothing   *)
(* was under way as they read the pipeline; the maximum of the branch is the *)
(* maximum or the version itself, whatever CreateBuild read and whatever     *)
(* failed.                                                                   *)
THEOREM CallsActOnTables == Spec => []SettledCalls
  <1>1. IInv => SettledCalls
    BY DEF IInv, CallsHold, CallHolds, SettledCalls
  <1>. QED  BY <1>1, TablesSafety, PTL

(* UpsertComputedPipeline never takes back what users chose: the permissions *)
(* are those of the last choice,                                             *)
THEOREM PermissionsAreKept == Spec => []PermissionsKept
  <1>1. Init => Chosen
    BY DEF Init, Chosen, PermissionsKept, ArchivedKept
  <1>2. IInv => TypeOK /\ PageOpen
    BY DEF IInv, TablesInv
  <1>3. Chosen => PermissionsKept
    BY DEF Chosen
  <1>. QED  BY <1>1, <1>2, <1>3, NextChosen, TablesSafety, PTL DEF Spec

(* and archived is so too, or it is the manifest's value or was loaded       *)
(* before the choice by a page of an administrator.                          *)
THEOREM ArchivedIsKept == Spec => []ArchivedKept
  <1>1. Init => Chosen
    BY DEF Init, Chosen, PermissionsKept, ArchivedKept
  <1>2. IInv => TypeOK /\ PageOpen
    BY DEF IInv, TablesInv
  <1>3. Chosen => ArchivedKept
    BY DEF Chosen
  <1>. QED  BY <1>1, <1>2, <1>3, NextChosen, TablesSafety, PTL DEF Spec

=============================================================================

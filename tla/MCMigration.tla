----------------------------- MODULE MCMigration ----------------------------
(***************************************************************************)
(* Instances of Migration for TLC.                                         *)
(***************************************************************************)
EXTENDS Migration, TLC

(* Stages without the releases, which are copied like the builds.            *)
BuildStages == <<"builds", "build_logs", "build_log_objects", "computed_tables", "archive", "completed">>

(* The stages that write the computed pipelines.                             *)
ShownStages == <<"builds", "completed">>

FromShown  == {<<"from", FALSE>>}
FromHidden == {<<"from", TRUE>>}
NoBuilds   == [f \in Sources |-> 0]
SomeBuilds == [f \in Sources |-> IF f = CHOOSE g \in Sources : TRUE THEN 2 ELSE 0]

Symmetry == Permutations(Requests) \cup Permutations(Pods)

=============================================================================

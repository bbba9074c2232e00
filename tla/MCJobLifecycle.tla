--------------------------- MODULE MCJobLifecycle ---------------------------
(***************************************************************************)
(* Instances of JobLifecycle for TLC: the sets of faults the runs choose   *)
(* from, and the symmetry of the cancel request slots.                     *)
(***************************************************************************)
EXTENDS JobLifecycle, TLC

KeepFaults == {"create", "get", "db"}     \* all but failing deletions
AllFaults  == FaultKinds

RequestSymmetry == Permutations(Requests)

=============================================================================

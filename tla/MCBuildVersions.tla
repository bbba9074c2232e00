--------------------------- MODULE MCBuildVersions --------------------------
(***************************************************************************)
(* Instances of BuildVersions for TLC.                                     *)
(***************************************************************************)
EXTENDS BuildVersions, TLC

AllKinds == {"build", "rerun", "release"}
Symmetry == Permutations(Requests)

=============================================================================

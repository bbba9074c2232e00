-------------------------- MODULE MCComputedTables --------------------------
(***************************************************************************)
(* Instances of ComputedTables for TLC.                                    *)
(***************************************************************************)
EXTENDS ComputedTables, TLC

Symmetry == Permutations(Groups) \cup Permutations(Branches)

=============================================================================

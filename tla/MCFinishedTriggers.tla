------------------------- MODULE MCFinishedTriggers -------------------------
(***************************************************************************)
(* Instances of FinishedTriggers for TLC.                                  *)
(***************************************************************************)
EXTENDS FinishedTriggers

AllFaults == {"update", "read", "fire"}

=============================================================================

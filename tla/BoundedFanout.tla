--------------------------- MODULE BoundedFanout ----------------------------
(***************************************************************************)
(* What a caller of FireXTriggers may rely on: each trigger that should    *)
(* fire is fired once, no more than Concurrency of them at a time, and the *)
(* call returns when all of them are done.                                 *)
(***************************************************************************)
EXTENDS Naturals, FiniteSets

CONSTANTS
  Triggers,      \* the triggers that should fire
  Concurrency    \* how many may be fired at a time

VARIABLES firing, finished, returned

vars == <<firing, finished, returned>>

Init == firing = {} /\ finished = {} /\ returned = FALSE

Begin(t) ==
  /\ t \notin firing \cup finished
  /\ Cardinality(firing) < Concurrency
  /\ firing' = firing \cup {t}
  /\ UNCHANGED <<finished, returned>>

End(t) ==
  /\ t \in firing
  /\ firing' = firing \ {t}
  /\ finished' = finished \cup {t}
  /\ UNCHANGED returned

Return ==
  /\ finished = Triggers
  /\ returned' = TRUE
  /\ UNCHANGED <<firing, finished>>

Next == Return \/ \E t \in Triggers : Begin(t) \/ End(t)

Spec == Init /\ [][Next]_vars

=============================================================================

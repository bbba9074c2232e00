\* Every kind of request, up to two at a time.
SPECIFICATION Spec
CONSTANTS
  Requests = {r1, r2}
  Kinds <- AllKinds
  NumberBound = 3
  BuildBound = 4
SYMMETRY Symmetry
INVARIANTS
  LaterIsHigher
  ReleasesSucceeded
PROPERTIES
  KeepsLedger
CHECK_DEADLOCK FALSE

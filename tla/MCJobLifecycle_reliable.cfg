\* A builder that repeats its events; every call but a deletion may fail.
SPECIFICATION Spec
CONSTANTS
  Jobs = {j1}
  Bots = {}
  Requests = {r1, r2}
  PullSecret = TRUE
  Faults <- KeepFaults
  Reliable = TRUE
  BackoffLimit = 1
  RemoverBound = 2
SYMMETRY RequestSymmetry
INVARIANTS
  IInv
  OutcomeRecorded
  StartableJob
PROPERTIES
  CancelAnswerHolds
CHECK_DEADLOCK FALSE

SPECIFICATION Spec
CONSTANTS
  Jobs = {j1}
  Bots = {j1}
  Requests = {r1, r2}
  PullSecret = FALSE
  Faults <- AllFaults
  Reliable = FALSE
  BackoffLimit = 0
  RemoverBound = 1
SYMMETRY RequestSymmetry
INVARIANTS
  CanceledByUser
  ResultIsReported
  RemovedByCancellation
CHECK_DEADLOCK FALSE
PROPERTIES
  StatusLifeCycle

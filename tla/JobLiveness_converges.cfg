\* The constants are those of the persistent regime.
SPECIFICATION LiveSpec
CONSTANTS
  Jobs = {j1}
  Bots = {}
  Requests = {r1, r2}
  PullSecret = FALSE
  Faults <- KubeFaults
  Reliable = FALSE
  BackoffLimit = 0
  RemoverBound = 1
PROPERTIES
  JobCleanedUp
  CancelConverges
CHECK_DEADLOCK FALSE

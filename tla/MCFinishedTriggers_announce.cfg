\* Every call may fail; three goroutines, one per event and a repeated one.
SPECIFICATION FairSpec
CONSTANTS
  Jobs = {j}
  Announcers = {a1, a2, a3}
  Faults <- AllFaults
PROPERTIES
  ResultAnnounced
CHECK_DEADLOCK FALSE

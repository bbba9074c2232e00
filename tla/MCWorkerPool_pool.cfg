SPECIFICATION Spec
CONSTANTS
  Listed = 5
  Workers = {w1, w2}
  JobQueueLimit = 1
  ResultQueueLimit = 1
  Configs <- BothUsers
INVARIANTS
  NothingForgotten
  RetriesKept
  SuccessDeleted
PROPERTIES
  CallEnds
CHECK_DEADLOCK FALSE

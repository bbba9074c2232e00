\* Two permits, four triggers: two of them have to wait.
SPECIFICATION FairSpec
CONSTANTS
  Triggers = {t1, t2, t3, t4}
  Concurrency = 2
PROPERTIES
  FansOut
  WaitEnds
CHECK_DEADLOCK FALSE

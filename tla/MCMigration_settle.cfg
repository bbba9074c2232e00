SPECIFICATION Spec
CONSTANTS
  Sources = {f1, f2}
  Pods = {p1}
  maximumParallelMigrations = 1
  Slots = {1, 2}
  Requests = {u1, u2}
  None = None
  Stages <- ShownStages
  Restarts = {None, 0}
  OldBuilds = 1
  NewBuilds <- SomeBuilds
  Archivals <- FromHidden
  FaultBound = 1
INVARIANTS
  SourceArchived
  LiveCopyUnguarded
PROPERTIES
  TasksSettle

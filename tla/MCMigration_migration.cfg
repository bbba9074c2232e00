SPECIFICATION Spec
CONSTANTS
  Sources = {f1}
  Pods = {p1, p2}
  maximumParallelMigrations = 1
  Slots = {1, 2}
  Requests = {u1, u2, u3}
  None = None
  Stages <- BuildStages
  Restarts = {2}
  OldBuilds = 2
  NewBuilds <- NoBuilds
  Archivals <- FromShown
  FaultBound = 1
INVARIANTS
  OneExecutor
  InProgressExecuted
  CompletedIsComplete
  TargetHasTask
  Linked
  TargetHidden
SYMMETRY Symmetry

SPECIFICATION Spec
CONSTANTS
  Reported = {"running", "succeeded"}
  Calls = {c1}
  Wants = {"latest", "same", "current"}
  Groups = {g1, g2}
  Branches = {main, side}
  None = None
  ManifestArchived = FALSE
  BuildBound = 3
  ReleaseBound = 2
  ChangeBound = 4
  PendingBound = 2
INVARIANTS
  PipelineUpToDate
  TargetUpToDate
  PermissionsKept
  ArchivedKept
  TriggeredReleases
  
SYMMETRY Symmetry
CHECK_DEADLOCK FALSE

SPECIFICATION Spec
CONSTANTS
  Requests = {r1, r2}
  JobBound = 3
  ReloadBound = 1
  Manifests <- TwoManifests
SYMMETRY Symmetry
INVARIANTS
  CommandsInjected
CHECK_DEADLOCK FALSE

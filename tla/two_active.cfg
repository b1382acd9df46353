SPECIFICATION Spec
CONSTANTS
  Workers = {w1, w2}
  Controllers = {c1}
  ControllerOf <- MCControllerOf
  VersionInterval = 4
  NewGenerationOnly = FALSE
  KeepVersions = 2
  Timeout = 2
  TTLAfterFinished = FALSE
  MaxGen = 1
  MaxTime = 2
  MayCrash = {}
  MaxFaults = 0
INVARIANTS OneActive

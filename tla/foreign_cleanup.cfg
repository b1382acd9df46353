SPECIFICATION Spec
CONSTANTS
  Workers = {w1, w2}
  Controllers = {c1, c2}
  ControllerOf <- MCControllerOf
  VersionInterval = 4
  NewGenerationOnly = FALSE
  KeepVersions = 2
  Timeout = 2
  TTLAfterFinished = FALSE
  MaxGen = 2
  MaxTime = 1
  MayCrash = {}
  MaxFaults = 0
PROPERTIES DeletesOnlyOwn

SPECIFICATION HSpec
CONSTANTS
  Workers = {w1}
  Controllers = {c1}
  ControllerOf <- MCControllerOf
  VersionInterval = 2
  NewGenerationOnly = FALSE
  KeepVersions = 1
  Timeout = 2
  TTLAfterFinished = FALSE
  MaxGen = 3
  MaxTime = 4
  MayCrash = {c1}
  MaxFaults = 0
PROPERTIES ImplementsContract

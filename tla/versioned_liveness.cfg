SPECIFICATION FairSpec
CONSTANTS
  Workers = {w1, w2}
  Controllers = {c1}
  ControllerOf <- MCControllerOf
  VersionInterval = 1
  NewGenerationOnly = FALSE
  KeepVersions = 1
  Timeout = 1
  TTLAfterFinished = FALSE
  MaxGen = 2
  MaxTime = 1
  MayCrash = {c1}
  MaxFaults = 1
PROPERTIES GenerationServed OldGenerationsSwept

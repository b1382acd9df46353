SPECIFICATION Spec
CONSTANTS
  Workers = {w1, w2}
  Controllers = {c1, c2}
  ControllerOf <- MCControllerOf
  VersionInterval = 2
  NewGenerationOnly = FALSE
  KeepVersions = 1
  Timeout = 1
  TTLAfterFinished = TRUE
  MaxGen = 2
  MaxTime = 2
  MayCrash = {}
  MaxFaults = 0
INVARIANTS TypeOK ReportsCurrent
PROPERTIES RunningJobSurvives
SYMMETRY Interchangeable

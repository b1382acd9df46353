SPECIFICATION FairSpec
CONSTANTS
  Handlers = {h1, h2}
  Targets <- MCTargets
  Configured = "clusters"
  Written <- MCWritten
  MaxWrites = 1
  MaxEdits = 1
  MaxFaults = 1
INVARIANTS TypeOK CacheSuits
PROPERTIES LatestTargetServes

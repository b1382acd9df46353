SPECIFICATION FairSpec
CONSTANTS
  cluster = cluster
  workers = workers
  Cluster = cluster
  NodePools <- MCNobody
  Rendered <- Objects
  Templates <- MCTemplates
  Deletable <- MCNobody
  Handlers = {h1,h2}
  MaxGen = 2
  MaxDrift = 1
  MaxFaults = 1
  MaxCrashes = 1
  MaxRemovals = 1
INVARIANTS AppliedWasMade
PROPERTIES NewestSpecWins

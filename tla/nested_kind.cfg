SPECIFICATION Spec
CONSTANTS
  cluster = cluster
  workers = workers
  Cluster = cluster
  NodePools <- MCNodePools
  Rendered <- Objects
  Templates <- MCNested
  Deletable <- MCOwners
  Handlers = {h1}
  MaxGen = 1
  MaxDrift = 0
  MaxFaults = 0
  MaxCrashes = 0
  MaxRemovals = 0
INVARIANTS NothingLeft
CHECK_DEADLOCK FALSE

SPECIFICATION Spec
CONSTANTS
  cluster = cluster
  workers = workers
  Cluster = cluster
  NodePools <- MCNodePools
  Rendered <- MCRendered
  Templates <- MCTemplates
  Deletable <- MCOwners
  Handlers = {h1,h2}
  MaxGen = 1
  MaxDrift = 0
  MaxFaults = 1
  MaxCrashes = 1
  MaxRemovals = 1
INVARIANTS TypeOK DeletedIsGone
PROPERTIES LiveObjectsStay KeepsOwnership
SYMMETRY Interchangeable
CHECK_DEADLOCK FALSE

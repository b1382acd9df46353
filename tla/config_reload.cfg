SPECIFICATION FairSpec
CONSTANTS
  a = a
  b = b
  ready = ready
  Handlers = {h1}
  Names <- MCNames
  Contents <- MCContents
  MaxVersion = 2
  MaxEvents = 1
  MaxFaults = 1
  MaxCrashes = 1
INVARIANTS TypeOK SettledConfig TemplatesOfOneVersion
PROPERTY LatestConfigServes

SPECIFICATION FairSpec
CONSTANTS
  created = created
  unknown = unknown
  garbled = garbled
  Callbacks = {c1, c2}
  Messages <- MCMessages
  Kind <- MCKind
  MaxSignals = 1
  MaxCrashes = 1
  MaxFaults = 1
  MaxGivenUp = 1
  MaxRemovals = 1
INVARIANTS TypeOK NothingLost StoppedIsQuiet
PROPERTIES StopEnds EventsReportedByReceiver

CONSTANTS
  NumFiles = 3
  d1 = d1
  d2 = d2
  Dirs = {d1, d2}
  PathOf <- MCPathOf
  MaxConfigs = 2
  WdLimit = 2
  QueueCap = 2
  MaxWd = 7
  MaxFaults = 1
  MaxEvents = 2
  Records <- FsRecords
  NoRecord = NoRecord
SPECIFICATION Spec
CHECK_DEADLOCK FALSE
INVARIANTS
  TypeOK
  OnIsWatched
PROPERTIES
  RightlyAttributed
  ListsRecentEvents
ACTION_CONSTRAINT EditsAtRest

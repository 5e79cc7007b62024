SPECIFICATION FairSpec
CONSTANTS
  Files = 2
  NoJob = NoJob
  Empty = Empty
  Torn = Torn
  MaxCrashes = 1
INVARIANTS IndexedIsStored
PROPERTIES PageSeesEnd
CHECK_DEADLOCK FALSE

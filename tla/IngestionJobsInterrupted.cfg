SPECIFICATION Spec
CONSTANTS
  Files = 1
  NoJob = NoJob
  Empty = Empty
  Torn = Torn
  MaxCrashes = 1
INVARIANTS InterruptedMeansRestart
CHECK_DEADLOCK FALSE

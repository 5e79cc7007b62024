SPECIFICATION Spec
CONSTANTS
  Task = {t1, t2, t3, t4}
  Putter = {t3, t4}
  Writes = 2
INVARIANTS TypeOK AllOrNothing DoneIsStored
CHECK_DEADLOCK FALSE

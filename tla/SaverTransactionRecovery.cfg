SPECIFICATION Spec
CONSTANTS
  Task = {t1, t2, t3}
  Putter = {}
  Writes = 2
INVARIANTS ConnectionRecovered
CHECK_DEADLOCK FALSE

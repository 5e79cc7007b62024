SPECIFICATION TurnSpec
CONSTANTS
  Thread = {t1}
  Turn = {u1}
  Ns = {n1}
  CkptId = {1, 2}
  Run = {r1, r2}
  Payload = {p1}
  Nil = Nil
  LeaseDuration = 2
  OrphanGrace = 3
  Retention = 4
  MaxNow = 3
  MaxClaims = 2
  TheThread = t1
  TheTurn = u1
  TheNs = n1
  RoundLimit = 1
  MaxStarts = 1
SYMMETRY Symmetry
INVARIANTS LinkedRunFindsRecipe PunctualHeartbeatKeepsLease
PROPERTIES NodesRunAlone
CHECK_DEADLOCK FALSE

SPECIFICATION FairTurnSpec
CONSTANTS
  Thread = {t1}
  Turn = {u1}
  Ns = {n1}
  CkptId = {1, 2, 3, 4, 5, 6, 7, 8, 9}
  Run = {r1}
  Payload = {p1, p2}
  Nil = Nil
  LeaseDuration = 1
  OrphanGrace = 2
  Retention = 3
  MaxNow = 1
  MaxClaims = 10
  TheThread = t1
  TheTurn = u1
  TheNs = n1
  RoundLimit = 1
  MaxStarts = 2
INVARIANTS TurnTypeOK
PROPERTIES RunsEnd
CHECK_DEADLOCK FALSE

SPECIFICATION FairSpec
CONSTANTS
  Thread = {t1}
  Turn = {u1}
  Ns = {n1}
  CkptId = {1}
  Run = {r1, r2}
  Payload = {p1}
  Nil = Nil
  LeaseDuration = 1
  OrphanGrace = 2
  Retention = 3
  MaxNow = 4
  MaxClaims = 1
PROPERTIES AbandonedCollected RunLinkProtects
CHECK_DEADLOCK FALSE

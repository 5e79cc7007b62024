SPECIFICATION Spec
CONSTANTS
  Thread = {t1, t2}
  Turn = {u1}
  Ns = {n1}
  CkptId = {1}
  Run = {r1}
  Payload = {p1}
  Nil = Nil
  LeaseDuration = 1
  OrphanGrace = 2
  Retention = 3
  MaxNow = 1
  MaxClaims = 2
SYMMETRY Symmetry
INVARIANTS TypeOK LinksResolve ResumableHasRecipe
PROPERTIES LeasedRecipeFrozen ImplementsFencedLease
CHECK_DEADLOCK FALSE

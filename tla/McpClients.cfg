SPECIFICATION FairSpec
CONSTANTS
  Load = {l1, l2, l3}
  Test = {l3}
  Server = {s1}
  Secret = {x1, x2}
  NoSecret = NoSecret
  Skew = 1
  Lifetimes = {1, 2}
  MaxNow = 1
INVARIANTS ClientsTypeOK CachedClientsWork ServedStayOpen OpenIsOwned
PROPERTIES HeadersAreCurrent TestsEnd
CHECK_DEADLOCK FALSE

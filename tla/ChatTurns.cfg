SPECIFICATION Spec
CONSTANTS
  Mode = {"direct", "rag", "mcp", "mixed"}
  Doc = {d1}
  CallId = {c1, c2}
  Server = {search}
  Behaviour = {b1, b2}
  Secret = {s1, s2}
  EmptySelection = none
  Required = {search}
  Reranker = TRUE
  RoundLimit = 2
  MaxTurns = 2
  MaxCalls = 2
  MaxCallsPerAnswer = 2
  kb1 = kb1
  kb2 = kb2
  k1 = k1
  k2 = k2
  Chunk = {k1, k2}
  Name = {kb1, kb2, other}
  NoName = noname
  KnowledgeBase = {kb1, kb2}
  Default = kb1
  Holdings <- TwoBases
  ResultLimit = 1
  CandidateLimit = 2
  DefaultCandidates = 1
  HardLimit = 2
  EnableReranker = TRUE
  AllowOverride = TRUE
SYMMETRY Symmetry
INVARIANTS ChatTypeOK CallsAccounted SourcesOfThisTurn NoSilentFailure ToolsOfTurn
PROPERTIES ImplementsConversation
CHECK_DEADLOCK FALSE

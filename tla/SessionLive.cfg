\* Two questions in turn: every run ends.
SPECIFICATION FairSpec
CONSTANTS
  Questions = {q1, q2}
  Sessions = {s1}
  s1 = s1
  SessionOf <- OneSession
  None = None
  MaxRetries = 2
  SelfCorrection = TRUE
  CacheOn = TRUE
  HandlerOn = TRUE
  Modes = {"run"}
  MaxOpen = 1
INVARIANTS
  OwnRows
PROPERTIES
  Answering

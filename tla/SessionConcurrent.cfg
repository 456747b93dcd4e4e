\* Two streamed questions of a session, also at the same time.
SPECIFICATION CSpec
CONSTANTS
  Questions = {q1, q2}
  Sessions = {s1}
  s1 = s1
  SessionOf <- OneSession
  None = None
  MaxRetries = 1
  SelfCorrection = TRUE
  CacheOn = TRUE
  HandlerOn = TRUE
  Modes = {"stream"}
  MaxOpen = 2
  LowerOf <- MCLower
  CaseInsensitiveProps = {"name"}
  Params <- MCParams
  Texts <- MCTexts
  Written <- MCWritten
  NamesOf <- MCNamesOf
SYMMETRY Symmetry
INVARIANTS
  FreshTurn
  OwnQueries
  CorrectionsSound

\* Two requests of any kind over one stored proposal and one new one.
SPECIFICATION Spec
CONSTANTS
  Ids = {p1, p2}
  Existing = {p1}
  Tasks = {t1, t2}
  Kinds = {"approve", "reject", "edit", "chat", "chat_unsure", "learn", "batch_approve", "batch_reject", "create"}
  Keys = {k1}
  Contents = {c1, c2}
  None = None
  MinFrequency = 3
  DailyLimit = 1
  MaxDay = 0
  MaxFailures = 1
SYMMETRY Symmetry
INVARIANTS
  Inv
  OneWinner
  ApprovedAsSeen
PROPERTIES
  DecisionFinal
  ImplementsReview

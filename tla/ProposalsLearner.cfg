\* Learning items over two stored proposals of one or two terms.
SPECIFICATION Spec
CONSTANTS
  Ids = {p1, p2, p3}
  Existing = {p1, p2}
  Tasks = {t1, t2, t3}
  Kinds = {"learn", "reject"}
  Keys = {k1, k2}
  Contents = {c1}
  None = None
  MinFrequency = 3
  DailyLimit = 1
  MaxDay = 1
  MaxFailures = 1
SYMMETRY Symmetry
INVARIANTS
  WithinDailyLimit
  AutoApprovedOften

SPECIFICATION FairSpec
CONSTANTS
  r1 = r1
  r2 = r2
  r3 = r3
  Tasks = {r1, r2, r3}
  Allowed <- MCAllowed
  Workers = 2
  MaxFaults = 1
  None = None
INVARIANTS
  RefreshesApart
  NoBipartiteLeft
PROPERTIES
  RefreshCleansUp
  RequestsEnd
CHECK_DEADLOCK FALSE

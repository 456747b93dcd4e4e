SPECIFICATION FairSpec
CONSTANTS
  Requests = {q1, q2}
  Kinds = {"question", "ingest"}
  Calls <- MCCalls
  Outcomes <- MCOutcomes
  None = None
  MaxMade = 2
  MaxCalls = 1
  MaxFailed = 1
INVARIANTS
  WorkerSound
PROPERTIES
  StopEnds
CHECK_DEADLOCK FALSE

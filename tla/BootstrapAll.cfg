SPECIFICATION BootstrapSpec
CONSTANTS
  Documents <- MCDocuments
  Length <- MCLength
  Replies <- MCReplies
  Groupings <- MCGroupings
  Lower <- MCLower
  ChunkSize = 4
  Overlap = 2
  BatchSize = 2
  LoadBatch = 2
  MinConfidence = 1
  MaxConfidence = 2
  MaxRelationTypeLength = 3
  MaxRuns <- MCMaxRuns
  MaxFaults = 1
  Missing = Missing
  Torn = Torn
INVARIANTS
  FactsAreTold
  LoadIsComplete
  NamesSettle
CHECK_DEADLOCK FALSE

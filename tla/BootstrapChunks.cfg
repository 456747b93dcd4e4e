SPECIFICATION FairSpec
CONSTANTS
  Documents <- MCDocuments
  Length <- MCLength
  Replies <- MCReplies
  Groupings <- MCGroupings
  Lower <- MCLower
  ChunkSize = 4
  Overlap = 2
  BatchSize = 1
  LoadBatch = 2
  MinConfidence = 1
  MaxConfidence = 2
  MaxRelationTypeLength = 3
  MaxRuns <- MCOneRun
  MaxFaults = 0
  Missing = Missing
  Torn = Torn
PROPERTY
  ExtractionEnds
CHECK_DEADLOCK FALSE

SPECIFICATION FairSpec
CONSTANTS
  Uploads = {u1, u2}
  Jobs = {j1, j2}
  None = None
  BatchSize = 2
  Documents <- MCDocuments
  Rows <- MCRows
  Replies <- MCReplies
  ValidRelations <- MCValidRelations
  Deletable <- MCDeletable
INVARIANTS
  GraphSound
  CompletedIsStored
  FilesKeptWhileNeeded
PROPERTIES
  JobsEnd

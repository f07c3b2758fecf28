SPECIFICATION FairSpec
CONSTANTS
  MaxOps = 18
  MaxBranch = 3
  MaxTables = 5
  MaxOutputs = 3
  MaxQueries = 4
  Queries <- MixedQueries
  MaxCalls = 7
INVARIANTS
  MeaningKept
  UnlinksSafely
  FreedUnread
  ReadersTold
PROPERTIES
  CallsReturn

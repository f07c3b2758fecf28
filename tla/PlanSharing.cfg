SPECIFICATION Spec
CONSTANTS
  MaxOps = 24
  MaxBranch = 4
  MaxTables = 5
  MaxOutputs = 4
  MaxQueries = 4
  Queries <- SharingQueries
  MaxCalls = 6
INVARIANTS
  TypeOK
  EdgesAgree
  ClassIsHighest
  AllShared
  Consumed
  ReadByNoOther

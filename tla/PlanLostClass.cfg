SPECIFICATION Spec
CONSTANTS
  MaxOps = 18
  MaxBranch = 4
  MaxTables = 5
  MaxOutputs = 3
  MaxQueries = 4
  Queries <- TightQueries
  MaxCalls = 6
INVARIANTS
  ClassIsHighest

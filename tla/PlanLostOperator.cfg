SPECIFICATION Spec
CONSTANTS
  MaxOps = 22
  MaxBranch = 4
  MaxTables = 5
  MaxOutputs = 4
  MaxQueries = 4
  Queries <- ViewQueries
  MaxCalls = 7
INVARIANTS
  SharedInUse

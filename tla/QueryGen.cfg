SPECIFICATION Spec
CONSTANTS
  Texts <- MCTexts
  Tables <- MCTables
  Arrivals <- MCArrivals
  MaxNodes = 36
  MaxExprs = 44
  MaxTables = 4
  MaxAttrs = 5
  MaxInputs = 3
  MaxPred = 3
  MaxProj = 8
  MaxGroupAttrs = 4
INVARIANTS
  TypeOK
  PoolsSuffice
  PlanWellFormed
  RefsResolve
  StreamsOnlyInsert
  SelectsPushed
  TypesAgree
PROPERTIES
  AnswerKept

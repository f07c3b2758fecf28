SPECIFICATION Spec
CONSTANTS
  TableTexts <- SmallTables
  QueryTexts <- SmallQueries
  Classes = {1, 2}
  MaxTables = 4
  MaxAttrs = 2
  MaxQueries = 3
  QryBufLen = 9
  MaxPlanOutput = 2
  MaxSources = 3
  MaxOutput = 3
  MaxQuery = 4
  MaxCommands = 10
INVARIANTS
  TypeOK
  TablesProduced
  TablesComplete
  TextsApart
  MapFindsQuery
  NumbersAgree
PROPERTIES
  ImplementsCatalog

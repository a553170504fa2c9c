SPECIFICATION MCSpec
CONSTANTS
  Parts = {"graph", "store", "selection", "correlation", "context", "search"}
  n1 = n1
  n2 = n2
  n3 = n3
  Nodes = {n1, n2, n3}
  Horizon = 1
  RowTables <- MCRowTables
  RecordLimits <- MCRecordLimits
  ByteLimits <- MCByteLimits
  ScanBatches <- MCScanBatches
  MaxGroups = 1
  Groupings <- MCGroupings
  Contexts <- MCContexts
  ContextBudget = 5
  FallbackBudget = 3
  SearchItems = 7
  SearchBudget = 2
  SizeValues <- MCSizes
  None = None
  JsonNull = JsonNull
INVARIANTS EvidenceIsWhole BestRowsKept RelationsAreSound GroupsAreSound ContextIsTrue
PROPERTY SelectsDag
CHECK_DEADLOCK FALSE

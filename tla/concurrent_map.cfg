\* Five values over three workers, in each of the three copies of the map.
CONSTANTS
  Count = 5
  Limit = 3
  MaxRequests = 6
  MaxRetries = 1
  MaxResponse = 2
  MaxTotal = 5
SPECIFICATION AuditSpec
INVARIANTS
  TypeOK
  AskedOnce
  ResolvedIsComplete
  NothingRunsOn
  BudgetsHold
PROPERTIES
  Settles
CHECK_DEADLOCK FALSE

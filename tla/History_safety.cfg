SPECIFICATION Spec
CONSTANTS
  MaxMessages = 4
  LowWater = 3
  Window = 2
  MaxCalls = 2
  MaxIds = 5
  MaxLoads = 1
  MaxSummaries = 2
INVARIANTS TypeOK SentWellPaired
PROPERTIES RoundKept  LoadKeepsAttached  
CHECK_DEADLOCK FALSE

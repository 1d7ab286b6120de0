SPECIFICATION FairSpec
CONSTANTS
  N = 3
  MaxParallel = 2
  MaxFailures = 1
INVARIANTS
  TypeOK
  EveryCallAnswered
  
PROPERTIES
  ExecutionIsAllowed
  RoundEnds
CHECK_DEADLOCK FALSE

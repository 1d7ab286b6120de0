SPECIFICATION FairSpec
CONSTANTS
  u1 = u1
  Uris = {u1}
  MaxStarts = 1
  MaxIds = 3
  MaxTurns = 0
CHECK_DEADLOCK FALSE
PROPERTY
  RequestsEnd

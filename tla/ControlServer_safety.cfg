SPECIFICATION FairSpec
CONSTANTS
  c1 = c1
  c2 = c2
  Connections = {c1, c2}
  MaxRequests <- MCMaxRequests
  Fragile = {c2}
  Timeouts = {1}
  StillTime = 1
  Frames = {1}
  Kinds = {"element", "stable", "frames"}
CHECK_DEADLOCK FALSE
INVARIANTS
  TypeOK
  WaitsMatchClients
  EachAnsweredOnce
  EveryoneRead
  NoChangeMissed
  StableMeansStill
PROPERTY
  CatchesUp

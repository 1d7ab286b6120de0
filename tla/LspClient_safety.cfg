SPECIFICATION FairSpec
CONSTANTS
  u1 = u1
  Uris = {u1}
  MaxStarts = 2
  MaxIds = 3
  MaxTurns = 2
CHECK_DEADLOCK FALSE
INVARIANTS
  TypeOK
  DocumentsAgree
  ReadyMeansGreeted
  AnsweredOnce
  NothingLeft

  

SPECIFICATION FairSpec
CONSTANTS
  c1 = c1
  i1 = i1
  r1 = r1
  r2 = r2
  s1 = s1
  Scheduled = {s1}
  Manual = {}
  Idle = {i1}
  OneShot = {}
  Prompt = {s1, i1}
  Bound = {s1}
  Ephemeral = {s1}
  Notified = {i1}
  Windowed = {i1}
  MaxConcurrent = 1
  Clients = {c1}
  Runs = {r1, r2}
  MaxOps = 1
  MaxTicks = 1
  MaxFails = 1
CHECK_DEADLOCK FALSE
INVARIANTS
  TypeOK
  
  
PROPERTY
  DrainEnds

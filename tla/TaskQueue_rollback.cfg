SPECIFICATION Spec
CONSTANTS
  c1 = c1
  m1 = m1
  r1 = r1
  r2 = r2
  s1 = s1
  Scheduled = {s1}
  Manual = {m1}
  Idle = {}
  OneShot = {}
  Prompt = {}
  Bound = {}
  Ephemeral = {}
  Notified = {}
  Windowed = {}
  MaxConcurrent = 1
  Clients = {c1}
  Runs = {r1, r2}
  MaxOps = 1
  MaxTicks = 2
  MaxFails = 0
CHECK_DEADLOCK FALSE
INVARIANT
  FinishNotUndone

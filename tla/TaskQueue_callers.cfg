SPECIFICATION Spec
CONSTANTS
  c1 = c1
  c2 = c2
  m1 = m1
  m2 = m2
  r1 = r1
  r2 = r2
  Scheduled = {}
  Manual = {m1, m2}
  Idle = {}
  OneShot = {}
  Prompt = {m2}
  Bound = {}
  Ephemeral = {m1}
  Notified = {m2}
  Windowed = {}
  MaxConcurrent = 1
  Clients = {c1, c2}
  Runs = {r1, r2}
  MaxOps = 3
  MaxTicks = 0
  MaxFails = 0
CHECK_DEADLOCK FALSE
INVARIANTS
  NoLostWakeup

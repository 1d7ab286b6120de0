SPECIFICATION FairSpec
CONSTANTS
  a1 = a1
  b1 = b1
  p1 = p1
  Approvals = {a1, b1}
  Choices = {}
  Envs = {}
  Draws = {}
  Captures = {p1}
  Background = {b1}
  PendingLimit = 1
  SettledLimit = 2
  MaxRuns = 2
INVARIANTS
  TypeOK
  NoDecisionStranded
  AbortLeavesNoWaiter
  VerdictWasSaid
PROPERTIES
  OneShotHolds
  WaitsEnd

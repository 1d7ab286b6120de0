SPECIFICATION FairSpec
CONSTANTS
  a1 = a1
  b1 = b1
  Approvals = {a1, b1}
  Choices = {}
  Envs = {}
  Draws = {}
  Captures = {}
  Background = {b1}
  PendingLimit = 1
  SettledLimit = 2
  MaxRuns = 1
PROPERTY
  BackgroundWaitsEnd

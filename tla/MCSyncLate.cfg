SPECIFICATION StallSpec
CONSTANTS
  inner = inner
  outer = outer
  e1 = e1
  e2 = e2
  f1 = f1
  f2 = f2
  f3 = f3
  home = home
  logo = logo
  Led <- MCLed
  Name = {home}
  File <- MCPair
  Rank <- MCPairRank
  Event = {e1, e2}
  EventOf <- MCTwoEvents
  Folder = {f1, f2, f3}
  Choices <- MCShared
  ClockSteps = {1}
  MidRun = FALSE
  MaxVersion = 2
  MaxSaves = 2
  MaxFaults = 1
INVARIANTS
  LeftAloneIsOnDevice
CHECK_DEADLOCK FALSE

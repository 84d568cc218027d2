SPECIFICATION StatusSpec
CONSTANTS
  inner = inner
  outer = outer
  e1 = e1
  e2 = e2
  f1 = f1
  f2 = f2
  home = home
  Led <- MCLed
  Name = {home}
  File <- MCFile
  Rank <- MCRank
  Event = {e1, e2}
  EventOf <- MCEventOf
  Folder = {f1, f2}
  Choices <- MCChoices
  ClockSteps = {1}
  MidRun = TRUE
  MaxVersion = 2
  MaxSaves = 2
  MaxFaults = 1
INVARIANTS
  StatusTypeOK
  StatusIsCurrent
  SyncedIsDelivered
PROPERTIES
  StatusSettles
CHECK_DEADLOCK FALSE

SPECIFICATION FairSpec
CONSTANTS
  logged = logged
  byHand = byHand
  other = other
  File <- MCTrio
  Rank <- MCTrioRank
  Logged = {logged, other}
  Day = 3
  DayTime = 1
  MaxClock = 3
  MaxFaults = 1
  Retries = 1
  MaxFiles = 2
INVARIANTS
  TypeOK
  RecordNotAhead
PROPERTIES
  CutoffHolds
  Converges
CHECK_DEADLOCK FALSE

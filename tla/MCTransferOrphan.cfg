SPECIFICATION FairSpec
CONSTANTS
  logged = logged
  byHand = byHand
  other = other
  File <- MCPair
  Rank <- MCPairRank
  Logged = {logged}
  Day = 3
  DayTime = 1
  MaxClock = 3
  MaxFaults = 2
  Retries = 1
  MaxFiles = 2
INVARIANTS
  NothingStored
CHECK_DEADLOCK FALSE

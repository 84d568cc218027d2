SPECIFICATION DashSpec
CONSTANTS
  dash = dash
  changeLog = changeLog
  e1 = e1
  e2 = e2
  Event <- MCEvent
  MaxRuns = 2
  Request = {r1}
  Tab <- MCTab
  Watches <- MCWatches
INVARIANTS
  TypeOK
  OneRunPerEvent
  FinishedHasSummary
PROPERTIES
  FinishedIsFinal
  ImplementsLifecycle
  SummaryReachesAPage
CHECK_DEADLOCK FALSE

SPECIFICATION ReportSpec
CONSTANTS
  e1 = e1
  e2 = e2
  inner = inner
  outer = outer
  g1 = g1
  g2 = g2
  g3 = g3
  f1 = f1
  t1 = t1
  t2 = t2
  p1 = p1
  p2 = p2
  w = w
  c1 = c1
  c2 = c2
  v = v
  NoFolder = NoFolder
  NoGuid = NoGuid
  Event = {e1, e2}
  Led <- MCLed
  EventOf <- MCEventOf
  Rank <- MCRank
  Folder = {f1}
  Guid = {g1, g2, g3}
  Tab = {t1, t2}
  Page = {p1, p2}
  Actor = {t1, t2, p1, p2, w, c1, c2, v}
  Run = {w}
  Checker = {c1, c2}
  Viewer = {v}
  Scenarios <- MCScenarios
  Config <- MCConfig
  MaxPending = 1
INVARIANTS
  ReportTypeOK
  GuidIsUnique
  ShownIsApplied
  TestIsOfFolder
  OneFolderEach
  RowsFollowFile
PROPERTIES
  FoldersSurvive
  ShownHistoryIsTrue
  ShownStructureIsTrue
CHECK_DEADLOCK FALSE

SPECIFICATION Spec
CONSTANTS
  installer = installer
  app = app
  again = again
  scheduled = scheduled
  e1 = e1
  e2 = e2
  t1 = t1
  t2 = t2
  w1 = w1
  w2 = w2
  theirs = theirs
  own = own
  inner = inner
  account = account
  container = container
  k1 = k1
  k2 = k2
  days = days
  time = time
  user = user
  to = to
  from = from
  p1 = p1
  p2 = p2
  p3 = p3
  Blank = Blank
  Absent = Absent
  NoTask = NoTask
  DefaultRpi = DefaultRpi
  DefaultAssets = DefaultAssets
  Nobody = Nobody
  NoPassword = NoPassword
  Default = p1
  Password = {p1, p2, p3}
  MaxFailures = 2
  Tab = {t1, t2}
  Window = {w1, w2}
  Proc = {installer, app, again, scheduled}
  KindOf <- MCKindOf
  EventId = {e1, e2}
  Place <- MCPlace
  Within <- MCWithin
  Typed <- MCTyped
  Seeds <- MCSeeds
  Scenarios <- MCOneTabOnly
INVARIANTS
  EnabledHasTask
CHECK_DEADLOCK FALSE

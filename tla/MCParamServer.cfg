SPECIFICATION FairSpec
CONSTANTS
  d1 = d1
  s1 = s1
  r1 = r1
  v0 = v0
  v1 = v1
  v2 = v2
  Declarers = {d1}
  Setters = {s1}
  RemoteSetters = {r1}
  LocalWatchers = {w1}
  RemoteWatchers = {w2}
  Values = {v0, v1, v2}
  ValueOf <- MCValueOf
  ConstArgs = {TRUE, FALSE}
  NoValue = NoValue
  NotAvailable = NotAvailable
CHECK_DEADLOCK FALSE
INVARIANTS StreamCurrent
PROPERTIES SetRespectsConst BlockedWatcherServed

CONSTANTS
  Caller = {c1}
  Handle = {h1, h2, h3}
  t1 = t1
  e1 = e1
  Task = {t1, e1}
  s1 = s1
  s2 = s2
  d1 = d1
  p1 = p1
  o1 = o1
  Seat = {s1, s2, d1, p1, o1}
  SeatsOf <- MCOneSeatOf
  Parent <- MCParent
  LandResult = {"ok", "conflict", "failed"}
  Asks <- MCTask
  HardStops = FALSE
  NoSeat = NoSeat
  NoTask = NoTask
  NoHandle = NoHandle
  Free = Free
SPECIFICATION FairSpec
INVARIANT RetriesPaidFor
PROPERTIES SessionsEnd ClaimsEnd
CHECK_DEADLOCK FALSE

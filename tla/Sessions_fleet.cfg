CONSTANTS
  Caller = {c1, c2}
  Handle = {h1, h2}
  t1 = t1
  e1 = e1
  Task = {t1, e1}
  s1 = s1
  s2 = s2
  d1 = d1
  p1 = p1
  o1 = o1
  Seat = {s1, s2, d1, p1, o1}
  SeatsOf <- MCSeatsOf
  Parent <- MCParent
  LandResult = {"ok", "conflict", "failed"}
  Asks <- MCNoDesign
  HardStops = TRUE
  NoSeat = NoSeat
  NoTask = NoTask
  NoHandle = NoHandle
  Free = Free
SPECIFICATION Spec
SYMMETRY Symmetry
INVARIANTS ClaimsAccounted  ChosenSeatsDistinct AdmittedWithinCap
CHECK_DEADLOCK FALSE

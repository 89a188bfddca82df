CONSTANTS
  Seat = {s1, s2}
  Task = {t1, t2}
  MaxOwn = 2
  MaxForeign = 1
  MaxCrashes = 1
  MaxSessions = 3
SPECIFICATION Spec
SYMMETRY Symmetry
INVARIANTS  ClosedIsLanded
  
CHECK_DEADLOCK FALSE

CONSTANTS
  Operator = {o1}
  Caller = {c1}
  Handle = {h1}
  Starts = 2
  HardStops = TRUE
  Free = Free
  Nobody = Nobody
SPECIFICATION FairSpec
INVARIANTS OnePoller OneLiveTick
PROPERTIES DrainEnds RequestsReturn StoppedStaysStopped RestartWorks
CHECK_DEADLOCK FALSE

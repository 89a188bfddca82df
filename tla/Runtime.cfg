CONSTANTS
  Handles = {h1}
  h1 = h1
  MaxLines = 2
  Window = 1
SPECIFICATION FairRuntimeSpec
INVARIANTS OneVerdict
PROPERTIES NotifiesOnce RunsEnd
CHECK_DEADLOCK FALSE

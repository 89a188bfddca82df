SPECIFICATION FairSpec
CONSTANTS
  MaxChanges = 1
  MaxFaults = 1
  MaxKeys = 1
  Cap = 1
  Burst = 2
INVARIANTS EventsInOrder
PROPERTIES NeverBack Settles
CHECK_DEADLOCK FALSE

SPECIFICATION Spec
CONSTANTS
  Capacity = 2
  Buffer = 1
  MaxEvents = 3
  Sinces = {0, 2}
  PipeCap = 1
  Reconnect = 1
  MaxRestarts = 1
INVARIANTS NoSilentLoss
PROPERTIES ShutdownEnds FiniteEnds Delivered
CHECK_DEADLOCK FALSE

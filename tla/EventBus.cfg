CONSTANTS
  Capacity = 3
  Buffer = 1
  Subscriber = {s1, s2}
  Cursors = {0, 2, 4}
  MaxEvents = 6
SPECIFICATION Spec
SYMMETRY Symmetry
INVARIANTS Accounted InOrder
PROPERTIES LogSpec
CHECK_DEADLOCK FALSE

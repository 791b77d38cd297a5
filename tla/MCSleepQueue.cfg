CONSTANTS
  Entries = {1, 2, 3, 4, 5, 6, 7}
  HeapMax = 7
SPECIFICATION Spec
INVARIANT TopIsMin
CHECK_DEADLOCK FALSE

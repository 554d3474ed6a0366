SPECIFICATION Spec
CONSTANTS
  Start = 2
  End = 10
  MaxOrder = 2
  LEAF = 4
  RADIX = 2
  LEVELS = 2
  MaxUsers = 2
  Windows = {}
INVARIANT NeverPanics
CHECK_DEADLOCK FALSE

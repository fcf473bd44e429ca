SPECIFICATION Spec
CHECK_DEADLOCK FALSE
CONSTANTS
  ArgTypes <- WithLongLong
  MaxArgs = 2
INVARIANTS
  JcbIntact

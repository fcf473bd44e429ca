SPECIFICATION Spec
CHECK_DEADLOCK FALSE
CONSTANTS
  Numbers <- MCNumbers
  atoi <- MCatoi
  MaxArgs = 4
INVARIANTS
  
  SizeDecomposable
PROPERTIES
  Decides

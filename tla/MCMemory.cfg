SPECIFICATION Spec
CONSTANTS
  Workers = {w0, w1}
  SEGMENT = 2
  MaxBlocks = 4
  NULL = NULL
SYMMETRY Symmetry
INVARIANTS
  EveryBlockOnce
PROPERTIES
  ImplementsFreeLists

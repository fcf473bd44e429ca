SPECIFICATION Spec
CONSTANTS
  Workers = {w0, w1}
  Worker0 = w0
  NULL = NULL
  MaxSpawns = 2
PROPERTIES
  NoOneHasWork

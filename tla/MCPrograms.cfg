SPECIFICATION Spec
CONSTANTS
  nBlocks = 8
  nBlocksCilk = 4
  BLOCK_SIZE = 2
  n = 3
  BASE = 6
  Arg0 = 4
  NULL = NULL
ACTION_CONSTRAINT ControlFirst
CHECK_DEADLOCK FALSE
INVARIANTS
  PrintsTrue
  SameAsIterMatmul
  PrintsFib
  OnlyCallTimeRaces
  NobodyStuck

SPECIFICATION SearchSpec
CONSTANTS
  MaxWorkers = 5
  INT_WIDTH = 4
  RNGMOD = 31
  RNGMUL = 3
INVARIANTS
  RoundTriesAll

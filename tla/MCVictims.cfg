SPECIFICATION SearchSpec
CONSTANTS
  MaxWorkers = 7
  INT_WIDTH = 8
  RNGMOD = 31
  RNGMUL = 3
INVARIANTS
  RoundTriesAll
PROPERTIES
  RoundEnds

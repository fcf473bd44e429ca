SPECIFICATION FairSpec
CONSTANTS
  Workers = {w0, w1, w2}
  Worker0 = w0
  NULL = NULL
  MaxSpawns = 2
PROPERTIES
  ImplementsForkJoin
  DequesUsedAsPromised
  FinishesUnlessStarved

SPECIFICATION FairSpec
CONSTANTS
  Jobs = {j1, j2, j3, j4}
  Owner = owner
  Thieves = {t1, t2}
  NULL = NULL
  MaxSteals = 3
INVARIANTS
  TypeOK
  LockInv
  CountInv
  ReserveInv
  NeverAdjacent
  PopNullOnlyWhenEmpty
  LinksSpellItems
PROPERTIES
  ImplementsDequeSpec
  LockReleased

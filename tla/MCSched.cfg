SPECIFICATION Spec
CONSTANTS
  Workers = {w0, w1, w2}
  Worker0 = w0
  NULL = NULL
  MaxSpawns = 3
SYMMETRY Symmetry
INVARIANTS
  TypeOK
  JobInOnePlace
  StackExclusive
  JoinCounterExact
  ParentOutlivesChild
  NeverPanics
  PopFindsWork
  NothingLeftToRun
PROPERTIES
  SyncJoins

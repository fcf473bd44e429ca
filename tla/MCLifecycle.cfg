SPECIFICATION Spec
CHECK_DEADLOCK FALSE
CONSTANTS
  NUM_WORKER = 3
  NULL = NULL
INVARIANTS
  DequesReady
  
PROPERTIES
  Returns

SPECIFICATION Spec
CHECK_DEADLOCK FALSE
CONSTANTS
  ArgTypes <- Supported
  MaxArgs = 3
INVARIANTS
  ArgsDelivered
  JcbIntact
  ResultDelivered

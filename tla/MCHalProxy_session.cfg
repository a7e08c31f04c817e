SPECIFICATION FairSpec
CONSTANTS
  QUANTUM_COUNT = 1
  MAX_PENDING = 2
  Batches <- SplitBatches
  MAX_EVENTS = 4
  MAX_INITS = 2
  WAKELOCK_TIMEOUTS = TRUE
INVARIANTS
  WakelockBalanced
  DeliveredInOrder
  NoLeakedReference
  NoStaleSession
PROPERTIES
  InitializeReturns
CHECK_DEADLOCK FALSE

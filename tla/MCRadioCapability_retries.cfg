SPECIFICATION FairSpec
CONSTANTS
  SIM_COUNT = 2
  MAX_SESSION = 1
  MAX_RESTARTS = 1
  MAX_STRAY = 1
  TIMEOUTS = TRUE
INVARIANTS
  CompletesTogether
PROPERTIES
  TransactionCompletes
CHECK_DEADLOCK FALSE

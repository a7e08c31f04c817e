SPECIFICATION FairSpec
CONSTANTS
  MAX_RETRY_COUNT = 2
  QUEUE_MAX = 2
  MAX_CHANGES = 6
  MAX_FAULTS = 1
INVARIANTS
  SettledIsCurrent
  ReadyIsLoaded
  WholeFilesOnly
PROPERTIES
  CalibrationDelivered
CHECK_DEADLOCK FALSE

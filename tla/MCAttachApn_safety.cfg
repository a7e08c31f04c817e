SPECIFICATION Spec
CONSTANTS
  SIM_COUNT = 2
  REISSUE_TOKEN_SLOTS = 2
  MIN_INTERVAL = 1
  INFLIGHT_TIMEOUT = 2
  Payloads = {a1}
  NoApn = NoApn
  CLOCK_MAY_FAIL = TRUE
  MEMORY_MAY_FAIL = TRUE
  MAX_HELD = 1
INVARIANTS
  ReservedIffOwed
PROPERTIES
  PoolSpec
  AttemptsSpaced

SPECIFICATION FairSpec
CONSTANTS
  SIM_COUNT = 2
  REISSUE_TOKEN_SLOTS = 2
  MIN_INTERVAL = 1
  INFLIGHT_TIMEOUT = 2
  Payloads = {a1}
  NoApn = NoApn
  CLOCK_MAY_FAIL = FALSE
  MEMORY_MAY_FAIL = FALSE
  MAX_HELD = 2
PROPERTIES
  GiveUpOnlyWhenExpired
  ResetAnswered
  PoolRecovers

SPECIFICATION Spec
CONSTANTS
  SIM_COUNT = 1
  REISSUE_TOKEN_SLOTS = 2
  MIN_INTERVAL = 1
  INFLIGHT_TIMEOUT = 2
  Payloads = {a1, a2}
  NoApn = NoApn
  CLOCK_MAY_FAIL = FALSE
  MEMORY_MAY_FAIL = FALSE
  MAX_HELD = 1
INVARIANTS
  VendorHasLastSet

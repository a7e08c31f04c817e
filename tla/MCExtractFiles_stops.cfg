SPECIFICATION Spec
CONSTANTS
  PROPRIETARY = "proprietary"
  MAKEFILES <- TwoMakefiles
  MAX_RUNS = 3
INVARIANTS
  NothingLost
  ExitIsHonest
CHECK_DEADLOCK FALSE

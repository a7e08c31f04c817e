SPECIFICATION RilSpec
CONSTANTS
  FOREIGN_WRITER = TRUE
  MAX_CALLS = 3
  UINTPTR_MAX = 37
  DYN_SIZE = 1
  RELA_SIZE = 2
  SYM_SIZE = 2
  POINTER_SIZE = 2
  NAME_SIZE = 2
  PAGE_SIZE = 8
  Images <- MCImages
INVARIANTS
  DispatchReachesVendor
  HooksCanForward
  OutcomeIsHonest
  OwnTokenSwallowed
  SlotsAreTheLibrarys
PROPERTIES
  ForeignPointersKept
CHECK_DEADLOCK FALSE

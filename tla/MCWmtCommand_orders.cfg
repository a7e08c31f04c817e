SPECIFICATION CommandSpec
CONSTANTS
  NAMES = {a, b, c}
  WMT_MAX_PATCHES = 2
  WMT_ROM_TYPES = 2
  FIELD_MAX = 3
  VERSIONS = {"v1", "v2"}
  WMT_CMD2_PATCH_MAX = 2
  WMT_CMD2_ROM_MAX = 2
INVARIANTS
  OnlyGoodAccepted
  GoodNeverRefused
  AnswerMatches
CHECK_DEADLOCK FALSE

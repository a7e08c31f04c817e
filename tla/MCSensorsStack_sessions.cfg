SPECIFICATION StackSpec
CONSTANTS
  accel = accel
  wakeAccel = wakeAccel
  wideAccel = wideAccel
  phantom = phantom
  Handles <- AllHandles
  WideHandles <- Wide
  StockModules <- Stock
  Channels = {ch}
  MAX_TIME = 3
  MAX_EPOCH = 3
INVARIANTS
  NothingForgotten
  LayersAgree
  PostedAreListed
PROPERTIES
  NoSampleFromBefore
  ChoiceIsRight
CHECK_DEADLOCK FALSE

SPECIFICATION FairSpec
CONSTANTS
  Modes <- StartFullModes
  BufferSize = 4
  AvailMin = 2
  MaxAdvance = 2
PROPERTIES WritesReturn
CHECK_DEADLOCK FALSE

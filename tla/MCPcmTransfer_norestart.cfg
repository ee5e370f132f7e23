SPECIFICATION FairSpec
CONSTANTS
  Modes <- NoRestartModes
  BufferSize = 4
  AvailMin = 2
  MaxAdvance = 2
PROPERTIES SecondCallRestarts
CHECK_DEADLOCK FALSE

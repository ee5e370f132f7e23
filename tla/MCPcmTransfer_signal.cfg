SPECIFICATION FairSpec
CONSTANTS
  Modes <- SignalModes
  BufferSize = 4
  AvailMin = 2
  MaxAdvance = 2
INVARIANTS SignalIsNoError

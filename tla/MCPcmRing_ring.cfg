SPECIFICATION FairSpec
CONSTANTS
  BufferSize = 3
  Boundary = 6
  StopThreshold = 3
  MaxAdvance = 2
  MaxRequest = 4
  MaxFrames = 8
INVARIANTS TypeOK AvailExact RegionInside RegionAvailable RegionUntorn
PROPERTIES QueueSpec TransferEnds
CHECK_DEADLOCK FALSE

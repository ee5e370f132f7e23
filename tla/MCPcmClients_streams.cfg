SPECIFICATION FairClientSpec
CONSTANTS
  Modes <- ClientModes
  PlayModes <- PlayStreams
  CaptureModes <- CaptureStreams
  BufferSize = 4
  AvailMin = 2
  MaxAdvance = 2
  MaxFile = 5
INVARIANTS ClientTypeOK ReturnCountsFrames XrunsCountedOnce SeenNeverAhead QueriesAgree CountsAreTotals
PROPERTIES CallReturns CallRestarts ClientsEnd
CHECK_DEADLOCK FALSE

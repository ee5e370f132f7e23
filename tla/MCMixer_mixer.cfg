SPECIFICATION Spec
CONSTANTS
  Kinds <- SomeKinds
  MaxControls = 3
  UINT_MAX = 8191
  Clients = {c1, c2}
  Percents = {0, 37, 100, 101}
  MaxWork = 4
  LONG_MAX = 1048575
INVARIANTS HandleOwns ClosedClean IdsDense NamesAgree ControlsListed SetsHold PercentsHold
CHECK_DEADLOCK FALSE

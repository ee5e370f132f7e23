CONSTANTS
  FlagSets <- SomeFlagSets
  Configs <- SomeConfigs
  NullConfig = NullConfig
  DefaultConfig <- Default
  DevicePeriods = {2, 3}
  PeriodCount = 2
  MaxSetConfigs = 2
SPECIFICATION Spec
INVARIANTS TypeOK HandleOwns ReleasedOnce ClosedClean UnmappedWhole ConfigAgrees
CHECK_DEADLOCK FALSE

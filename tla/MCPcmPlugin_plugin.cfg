SPECIFICATION FairSpec
CONSTANTS
  Constraints <- ModelConstraints
  Configs <- ModelConfigs
  FlagSets <- ModelFlagSets
  PluginErrors = {"EPIPE", "EIO"}
  Format <- ModelFormat
  Access = {"RW_INTERLEAVED", "MMAP_INTERLEAVED"}
  UIntMax = 4095
  None = None
INVARIANTS GrantsWhatIsReported PluginAgrees
PROPERTIES PluginCallReturns
CHECK_DEADLOCK FALSE

SPECIFICATION FairSpec
CONSTANTS
  NULL = NULL
  Configs <- LiveConfigs
CHECK_DEADLOCK FALSE
INVARIANTS ResourcesKept FramesPassOnce PacketsTrue StatisticsTrue
PROPERTIES ReaderWakes

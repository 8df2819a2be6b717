CONSTANTS
  NULL = NULL
  Configs <- CallConfigs
  MaxTraces = 2
  MaxReads = 4
SPECIFICATION Programs
CHECK_DEADLOCK FALSE
INVARIANTS ReadsTrue PacketsTrue WrittenReadsBack SameAnswer HeadersFound CalculationsTrue
PROPERTIES ResourcesKept WalksSeeAll

CONSTANT None = None
SPECIFICATION FairSpec
CHECK_DEADLOCK FALSE
INVARIANTS ContainersKeepOrder BucketsKept CombinersDeliver FirstPacketsKept
PROPERTIES CallsReturn

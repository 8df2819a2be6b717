SPECIFICATION FairSpec
CONSTANTS
  main = main
  hasher = hasher
  reporter = reporter
  keepalive = keepalive
  NoThread = NoThread
  N = 2
  Configs <- PauseErrorConfigs
  MaxResults = 2
  MaxTicks = 1
PROPERTIES JoinReturns
CHECK_DEADLOCK FALSE

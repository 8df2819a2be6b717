SPECIFICATION Spec
CONSTANTS
  main = main
  hasher = hasher
  reporter = reporter
  keepalive = keepalive
  NoThread = NoThread
  N = 2
  Configs <- SafetyConfigs
  MaxResults = 2
  MaxTicks = 1
INVARIANTS StatesCounted PausedIsQuiet NothingLost AssertsHold EndIsComplete

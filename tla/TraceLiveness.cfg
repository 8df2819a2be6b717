SPECIFICATION FairSpec
CONSTANTS
  main = main
  hasher = hasher
  reporter = reporter
  keepalive = keepalive
  NoThread = NoThread
  N = 2
  Configs <- LivenessConfigs
  MaxResults = 2
  MaxTicks = 1
PROPERTIES CallsReturn ReporterEnds

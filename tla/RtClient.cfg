SPECIFICATION FairSpec
CONSTANTS
  Configs <- PassConfigs
  RT_BUF_SIZE = 8
  RT_ACK_FREQUENCY = 2
  HDR = 2
  SlotStep = 2
  Packets = {1, 2}
  NULL = NULL
CHECK_DEADLOCK FALSE
INVARIANTS StreamKept MessagesCounted PacketsKept
PROPERTIES AllShown

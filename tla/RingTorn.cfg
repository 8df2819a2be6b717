\* The same ring with three slots, where a torn count takes an item that is not there.
SPECIFICATION FairSpec
CONSTANTS
  Writers = {w1}
  Readers = {r1}
  Capacity = 3
  Values = {a}
  NULL = NULL
  NoThread = NoThread
  Modes = {"blocking", "polling"}
  SafeW = FALSE
  SafeR = FALSE
  MaxBulk = 3
  DoubleLoad = TRUE
  Word = 64
PROPERTIES IsFifo

\* One writer and one reader through the plain calls, bulk calls of up to three items.
SPECIFICATION FairSpec
CONSTANTS
  Writers = {w1}
  Readers = {r1}
  Capacity = 2
  Values = {a}
  NULL = NULL
  NoThread = NoThread
  Modes = {"blocking", "polling"}
  SafeW = FALSE
  SafeR = FALSE
  MaxBulk = 3
  DoubleLoad = TRUE
  Word = 64
INVARIANTS SlotsDisjoint
PROPERTIES WaitEnds

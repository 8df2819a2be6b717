SPECIFICATION Spec
CONSTANTS
  Writers = {w1, w2}
  Readers = {r1, r2}
  Capacity = 2
  Values = {a, b}
  NULL = NULL
  NoThread = NoThread
  Modes = {"blocking", "polling"}
  SafeW = TRUE
  SafeR = TRUE
  MaxBulk = 1
  DoubleLoad = TRUE
  Word = 64
SYMMETRY Symmetry
INVARIANTS NoLostWakeup
PROPERTIES NoClobber IsFifo

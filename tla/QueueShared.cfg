\* Two senders, two receivers that mix get and try_get, a pipe that fills.
SPECIFICATION FairSpec
CONSTANTS
  Senders = {s1, s2}
  Receivers = {r1, r2}
  Numbers = 3
  PipeSize = 2
  NoThread = NoThread
  FAILED = FAILED
INVARIANTS Accounting TryGetReads
PROPERTIES Delivered

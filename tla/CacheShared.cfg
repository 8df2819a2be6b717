CONSTANTS
  t1 = t1
  t2 = t2
  o1 = o1
  o2 = o2
  o3 = o3
  o4 = o4
  Nobody = Nobody
  Threads = {t1, t2}
  Objects = {o1, o2, o3, o4}
  Configs <- Caches
SPECIFICATION FairSpec
CHECK_DEADLOCK FALSE
INVARIANTS ObjectsKept FreeFindsRoom
PROPERTIES AllocReturns

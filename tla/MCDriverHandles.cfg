CONSTANTS
  t1 = t1
  t2 = t2
  t3 = t3
  o1 = o1
  o2 = o2
  o3 = o3
  o4 = o4
  NULL = NULL
  Threads <- ThreeThreads
  Objects <- FourObjects
  MAX_OPEN = 2
  FirstHandle = 1681
SPECIFICATION FairSpec
INVARIANTS TypeOK NoUseAfterDelete HandleIsOwn NothingIsLost
PROPERTIES CallsReturn
CHECK_DEADLOCK FALSE

SPECIFICATION FairSpec
CONSTANTS
  Sub = {i1, i2}
  Token = {t1, t2}
  RingCapacity = 2
  Queue = 1
  MaxReplay = 2
  MaxOffset = 3
INVARIANTS
  Gapless
PROPERTIES
  RemovedIsClosed
  ImplementsFeed
CHECK_DEADLOCK FALSE

SPECIFICATION FairSpec
CONSTANTS
  Source = {s1, s2}
  k1 = k1
  k2 = k2
  k3 = k3
  Key = {k1, k2, k3}
  Size <- MCSize
  Capacity = 1
  FrameCapacity = 1
  QueueCapacity = 1
  BatchMaxEvents = 2
  BatchMaxBytes = 2
  MaxFrameBytes = 3
  Loaded <- LoadedRecords
  Recovered <- OneRecovered
  MaxSequence = 5
INVARIANTS
  DedupWindow
  DistinctSequences
  BroadcastOnce
  ReplayFloorCovers
PROPERTY
  SentIsBroadcast

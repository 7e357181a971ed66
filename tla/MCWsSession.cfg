SPECIFICATION FairWsSpec
CONSTANTS
  Source = {s1, s2}
  Edge = {e1}
  WarmUp = TRUE
  k1 = k1
  Key = {k1, k2}
  Size <- MCSize
  Capacity = 1
  FrameCapacity = 2
  QueueCapacity = 1
  BatchMaxEvents = 2
  BatchMaxBytes = 2
  MaxFrameBytes = 3
  Loaded <- LoadedRecords
  Recovered <- OneRecovered
  MaxSequence = 5
  MaxReads = 4
INVARIANTS
  NoFrameTwice
  NoSilentLoss
PROPERTY
  CatchesUp

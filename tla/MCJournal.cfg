SPECIFICATION JournalSpec
CONSTANTS
  Source = {s1, s2}
  Key = {k1, k2, k3, k4}
  Capacity = 3
  QueueCapacity = 2
  Torn = Torn
  MaxSequence <- Sequences2Restarts
  MaxBoots = 2
SYMMETRY Alike
INVARIANTS
  RingDistinct
  NoReuseUntorn
CHECK_DEADLOCK FALSE

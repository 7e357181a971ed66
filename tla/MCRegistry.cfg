SPECIFICATION FairSpec
CONSTANTS
  Node = {1, 2}
  MaxClients = 2
  Crowd = 2
  ReleaseBatch = 2
  SpreadPct = 0
  MinExcess = 1
  MaxAsk = 3
  MaxOps = 2
INVARIANTS
  HiddenStaysHidden
  DrainOnlyItsProcess
  NeverOverReleased
PROPERTIES
  Settles
CHECK_DEADLOCK FALSE

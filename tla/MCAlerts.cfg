SPECIFICATION FairSpec
CONSTANTS
  Node = {"n"}
  Inputs <- MCInputs
  Hold <- MCHold
  Window <- MCWindow
  Limit <- MCLimit
  ResolveAfter = 1
  RepeatAfter = 1
  RetryAfter = 2
  Keep = 2
  MaxResolved = 7
  Watched <- MCWatched
  Growing <- MCGrowing
  MaxCount = 1
  MaxFaults = 1
INVARIANTS
  NoOrphanRecovery
  ToldIsTracked
  GrowthIsReal
PROPERTY
  NoDataNoRecovery
  ChatSettles
CHECK_DEADLOCK FALSE

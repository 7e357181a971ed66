SPECIFICATION FairSpec
CONSTANTS
  Racer = {r1}
  LogsIn <- TwoInBlock2
  StartHead = 1
  StartCursor = 1
  StartBlock = 1
  BatchBlocks = 1
  MaxBlock = 3
  MaxWalks = 2
  MaxRestarts = 2
INVARIANTS
  NothingSlipsPast
PROPERTIES
  CursorForward
  EventuallySeen
CHECK_DEADLOCK FALSE

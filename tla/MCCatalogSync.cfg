SPECIFICATION Spec
CONSTANTS
  Market = {1, 2, 3}
  Nameless = {2}
  Boundary = 2
  Listings <- TiedAndClosed
  MaxStamp = 3
  MaxTicks = 2
  MaxFaults = 1
INVARIANTS
  HeldBehindCursor
  CatalogBeforeCursor
PROPERTY
  ReconcileRepairs
CHECK_DEADLOCK FALSE

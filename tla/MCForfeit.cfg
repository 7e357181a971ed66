SPECIFICATION FairSpec
CONSTANTS
  Match = {1, 2}
  Cond = {"c"}
  MatchOf <- MCMatchOf
  MarketsOf <- MCMarketsOf
  Backfill = 2
  Ttl = 1
  MaxNow = 3
  MaxHits = 1
  MaxFaults = 1
INVARIANTS
  IndexMatchesState
  SavedWhenIdle
PROPERTIES
  Learned
CHECK_DEADLOCK FALSE

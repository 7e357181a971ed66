SPECIFICATION FairTokenSpec
CONSTANTS
  Edge = {e1}
  Token = {t1, t2}
  Static = Static
  Client = {c1}
  MaxVersion = 3
  MaxRestarts = 2
INVARIANTS
  VersionNamesSet
  
PROPERTY
  EdgesConverge
CHECK_DEADLOCK FALSE

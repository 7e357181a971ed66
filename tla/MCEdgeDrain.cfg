SPECIFICATION FairDrainSpec
CONSTANTS
  Client = {c1, c2}
  MaxClients = 1
  Batch = 1
  Task = {k1, k2, k3}
INVARIANTS
  OneLoop
  UpgradeHasLoop
PROPERTY
  ExitDrainExits
CHECK_DEADLOCK FALSE

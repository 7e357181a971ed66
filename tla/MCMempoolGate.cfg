SPECIFICATION Spec
CONSTANTS
  Tx <- MCTx
  Input <- MCInput
  From <- MCFrom
  Tip <- MCTip
  Seed <- MCSeed
  Sender = {"a", "b"}
  Market = {"m"}
  Round = {1, 2}
  Price = {1, 2}
  MaxCalls = 3
  MaxPendings = 2
  TrustMinN = 1
  TrustMinRate = 250
  TipQuantile = 5
  TipMinSamples = 1
  TipWindow = 1
  StateTtl = 2
  MaxNow = 3
  MaxLines = 2
  MaxMined = 2
  MaxFaults = 1
INVARIANTS
  PushedOnce
  AgreeEarned
PROPERTY
  RoundsForward
CHECK_DEADLOCK FALSE

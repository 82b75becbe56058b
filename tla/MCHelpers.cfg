SPECIFICATION FairSpec
CONSTANTS
  First = {1, 2}
  Second = {3}
  InFlight = 2
  Mode = {"sequential", "supervised"}
  MaxSpend = 2
  MaxCall = 1
  MaxTurn = 1
  MaxKill = 1
  MaxAsk = 1
  MaxWriter = 1
  MaxBusy = 2
INVARIANTS
  TypeOK
  AllSpendBilled
  NobodyWritesBehind
  EveryReplyAudited
  EarlyCutSpendsNothing
  CancelledNotParked
  RowsTruthful
PROPERTIES
  CancelEnds
CHECK_DEADLOCK FALSE

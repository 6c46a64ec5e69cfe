SPECIFICATION Spec
CONSTANTS
  Keys = {"m1"}
  Excluded = {}
  NodeSigs = {"s1", "s2"}
  Tx <- MCTx
  maxTradesPerToken = 2
  MaxUpdates = 2
  Times = {1}
  MaxRestarts = 1
  Nil = nil
  Torn = torn
  Ratios = {1, 4}
  InitialLamports = 5
  buyLamports = 2
  GAS_RESERVE = 1
  maxRetries = 1
  buyRecordCount = 2
  buyThresholdPct = 10
  sellProfitPct = 10
  sellStopLossPct = 5
  MaxTrades = 2
  MaxPending = 2
INVARIANTS OpenOrClosed NothingUnrecorded PurchaseCovered
PROPERTIES RoundsGoOn
CHECK_DEADLOCK FALSE

SPECIFICATION Spec
CONSTANTS
  Mints = {m1}
  WSOL = wsol
  OtherMint = other
  None = none
  Signatures = {s1, s2, s3}
  Reserves = {1, 2}
  Ratios = {1, 2}
  redis_configured = TRUE
  max_trades_per_token = 2
  Genesis = 5
  Micros = 10
  SecondsLimit = 50
  MaxEvents = 3
  MaxClock = 1
  MaxRestarts = 0
  InitialWallet = 5
  buy_amount = 2
  GAS_RESERVE_LAMPORTS = 1
  max_retries = 1
  buy_record_count = 2
  buy_threshold_pct = 10
  sell_profit_pct = 10
  sell_stop_loss_pct = 5
  jito_enabled = FALSE
  MaxLag = 2
INVARIANTS NoSaleAtTheBuyPrice
CHECK_DEADLOCK FALSE

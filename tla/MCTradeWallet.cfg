SPECIFICATION WalletSpec
CONSTANTS
  mint = mint
  explorer = explorer
  bot = bot
  Mints = {mint}
  Callers = {explorer, bot}
  RequestsOf <- Requests
  InitialWallets <- Start
  Slippage = 1
  MaxCalls = 4
  Failed = Failed
INVARIANTS NoWsolLeft
PROPERTIES PurchaseExecutes SaleExecutes
CHECK_DEADLOCK FALSE

SPECIFICATION Spec
CONSTANTS
  U64 = 65536
  Pools <- SmallPools
  Budget = 1300
  Amounts = {1, 2, 3, 40, 41, 399, 405, 999, 1300}
  BasisPoints = {0, 1, 100, 500, 9999, 10000, 10001, 20000, 60000}
  Precision = 128
  MaxTrades = 4
  Dust = 5
  DustSol = 40
  FallbackLarge = 100
  FallbackSmall = 10
INVARIANTS RoundTripLoses QuotesAgree SlippageKept
CHECK_DEADLOCK FALSE

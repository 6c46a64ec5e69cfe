SPECIFICATION Spec
CONSTANTS
  Wallets = {main, other}
  Main = main
  Settings <- SmallSettings
INVARIANTS ClientReady AbortExplained
PROPERTIES StartupEnds
CHECK_DEADLOCK FALSE

SPECIFICATION FeeSpec
CONSTANTS
  SwqosTypes <- MCTypes
  DefaultType = "Default"
  CuPrices = {1}
  Tips = {0, 1}
  Absent = absent
  Writers = {w1, w2}
  MinTip = 1
  MaxCalls = 2
INVARIANTS NeverUnset KindsExclusive
CHECK_DEADLOCK FALSE

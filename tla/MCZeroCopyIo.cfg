SPECIFICATION Spec
CONSTANTS
  Threads = {t1, t2}
  WordBits = 2
  TotalBlocks <- MCBlocks
  BlockSize <- MCSizes
  Size = 8
  CounterLimit = 16
  MaxAllocations = 5
  MaxSent = 18
INVARIANTS BlocksAccounted AllocationFinds RingDelivers
CHECK_DEADLOCK FALSE

SPECIFICATION Spec
CONSTANTS
  Calls = {c1}
  Requests <- AllRequests
  Default = rpc
  NoJob = nojob
  Channels = {jito, rpc}
  Workers = {w1, w2}
  QueueCap = 1
  PollsBeforeDetails = 1
  PollLimit = 2
INVARIANTS AllCollected OneBuyExecutes
PROPERTIES CallReturns ImplementsSwapService
CHECK_DEADLOCK FALSE

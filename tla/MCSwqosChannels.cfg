SPECIFICATION Spec
CONSTANTS
  Senders = {p1, p2}
  Batch <- Batches
  Clients <- AllClients
  MaxConnections = 2
  Addresses = 2
  None = none
INVARIANTS OkIsEarned ConnectionShared DeliveredOnce
PROPERTIES SendReturns PingEnds
CHECK_DEADLOCK FALSE

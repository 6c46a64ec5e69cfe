SPECIFICATION Spec
CONSTANTS
  Threads = {t1, t2}
  Jobs <- MCJobs
  Accounts = {"k1", "k2", "zero"}
  ZeroKey = "zero"
  Hashes = {"h1", "n1"}
  TX_BUILDER_POOL_CAP = 1
  TX_BUILDER_POOL_PREFILL = 1
  SERIALIZER_POOL_SIZE = 1
  SERIALIZER_PREWARM_BUFFERS = 1
  MaxJobs = 3
INVARIANTS SentAsAsked NonceFirst
CHECK_DEADLOCK FALSE

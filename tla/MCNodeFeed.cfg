SPECIFICATION FeedSpec
CONSTANTS
  Keys = {"m1", "m2", "wsol"}
  Excluded = {"wsol"}
  NodeSigs = {"s1", "s2", "s3"}
  Tx <- MCTx
  Callbacks = {c1, c2}
  maxTradesPerToken = 2
  maxProcessedSignatures = 2
  MaxNotices = 4
  Times = {4}
  MaxCrashes = 1
SYMMETRY CallbackSymmetry
INVARIANTS DuplicatesExplained MarkedIsStored FeedBounded
PROPERTIES ImplementsStore
CHECK_DEADLOCK FALSE

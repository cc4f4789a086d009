SPECIFICATION FairSpec
CONSTANTS
  c1 = c1
  c2 = c2
  MaxSigs = 2
  Failed = {}
  Cycles <- TwoCycles
  MaxProcessed = 1
  MaxRetries = 2
  BatchSize = 2
  MaxBatchSize = 2
  SkipFactor = 2
  MaxDeliveries = 1
  MaxFaults = 2
  MaxRestarts = 1
CHECK_DEADLOCK FALSE
INVARIANT TypeOK
INVARIANT CursorCovers
INVARIANT RememberedIsSettled
PROPERTY EventuallyHandled
PROPERTY HandsOverOnce

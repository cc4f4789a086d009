SPECIFICATION FairSpec
CONSTANTS
  c1 = c1
  c2 = c2
  MaxSigs = 2
  Failed = {}
  Cycles <- OneCycle
  MaxProcessed = 2
  MaxRetries = 2
  BatchSize = 2
  MaxBatchSize = 2
  SkipFactor = 2
  MaxDeliveries = 1
  MaxFaults = 1
  MaxRestarts = 0
CHECK_DEADLOCK FALSE
PROPERTY BackfillIsSafetyNet

SPECIFICATION FairSpec
CONSTANTS
  r1 = r1
  r2 = r2
  t1 = t1
  NoReq = NoReq
  NoTx = NoTx
  Req = {r1, r2}
  Tx = {t1}
  TxOf <- SharedTx
  NoProvider = {r2}
  Backoff <- SmallBackoff
  MaxChecks = 2
  Period = 2
  MaxExtractionFailures = 2
  MaxHandlers = 2
  MaxFaults = 2
  MaxRestarts = 1
CHECK_DEADLOCK FALSE
INVARIANT TypeOK
INVARIANT AnswersAreTrue
INVARIANT CacheIsTrue
PROPERTY RemovedIsAnswered
PROPERTY ImplementsPromise
PROPERTY EventuallyAnswered

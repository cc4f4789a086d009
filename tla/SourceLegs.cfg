CONSTANTS
  MaxRetries = 1
  MaxFaults = 1
  MaxRuns = 2
  MaxAbandoned = 1
  Solana = {"s1", "s2"}
  Substrate = {"p1", "p2"}
  Midnight = {"m1"}
  Plain = {"s2", "p2"}
  NoReq = NoReq
  Instructions <- MCInstructions
  SchemasOf <- MCSchemasOf
  ResultsOf <- MCResultsOf
SPECIFICATION FairSpec
INVARIANT LegsTypeOK
INVARIANT SentInOrder
INVARIANT ReportedOnce
INVARIANT NoEventSkipped
INVARIANT AnswersFaithful
PROPERTY LeavesAnswered
PROPERTY LegsKeepPromise
CHECK_DEADLOCK FALSE
PROPERTY LegsComeToRest

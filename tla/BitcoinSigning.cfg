SPECIFICATION FairSpec
CONSTANTS
  r1 = r1
  r2 = r2
  t1 = t1
  i1 = i1
  i2 = i2
  Req = {r1, r2}
  Tx = {t1}
  Input = {i1, i2}
  NoReq = NoReq
  NoTx = NoTx
  NoInput = NoInput
  TxOf <- OneTx
  Networks = {"regtest", "testnet"}
  MaxHandlings = 2
  MaxFaults = 1
CHECK_DEADLOCK FALSE
INVARIANT TypeOK
INVARIANT SuccessIsTrue
INVARIANT ErrorMeansSpent
INVARIANT NotSentAgain
INVARIANT AllInputsSigned
INVARIANT ForgottenIsAnswered
PROPERTY EventuallyJudged

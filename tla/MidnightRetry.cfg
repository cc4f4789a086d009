SPECIFICATION FairSpec
CONSTANTS
  r1 = r1
  r2 = r2
  Req = {r1}
  NoReq = NoReq
  MayWedge = FALSE
  MaxFaults = 1
  MaxRestarts = 0
PROPERTY FailedIsRetried

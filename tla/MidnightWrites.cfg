SPECIFICATION FairSpec
CONSTANTS
  r1 = r1
  r2 = r2
  Req = {r1, r2}
  NoReq = NoReq
  MayWedge = TRUE
  MaxFaults = 3
  MaxRestarts = 1
INVARIANT TypeOK
INVARIANT OneWriter
INVARIANT SignedOnce
PROPERTY CallsReturn
PROPERTY EventuallyMonitored
CHECK_DEADLOCK FALSE

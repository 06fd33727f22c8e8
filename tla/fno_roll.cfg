CONSTANTS
  near = near
  far = far
  None = None
  Accounts = {"index", "stock"}
  Strikes = {near, far}
  Lots = 1
  Overlap = FALSE
  Again = FALSE
  MaxFaults = 3
  MaxRequests = 2
  MaxRows = 6
  LastTime = 7
SPECIFICATION FairSpec
INVARIANT TypeOK
INVARIANT NoDoubling
INVARIANT FailedIsRetried
PROPERTY MarkedHoldsStraddle
PROPERTY DueIsRolled
CHECK_DEADLOCK FALSE

CONSTANTS
  near = near
  far = far
  None = None
  Accounts = {"index", "stock"}
  Strikes = {near, far}
  Lots = 1
  Overlap = FALSE
  Again = TRUE
  MaxFaults = 3
  MaxRequests = 2
  MaxRows = 6
  LastTime = 7
SPECIFICATION Spec
INVARIANT FailedIsRetried
CHECK_DEADLOCK FALSE

CONSTANTS
  near = near
  far = far
  None = None
  Accounts = {"index", "stock"}
  Strikes = {near, far}
  Lots = 1
  Overlap = TRUE
  Again = FALSE
  MaxFaults = 3
  MaxRequests = 2
  MaxRows = 6
  LastTime = 7
SPECIFICATION Spec
INVARIANT NoDoubling
CHECK_DEADLOCK FALSE

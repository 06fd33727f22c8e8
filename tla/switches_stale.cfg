CONSTANTS
  a = a
  b = b
  loop = loop
  Registry <- MCRegistry
  Desk = {loop}
  Of <- MCOf
  Admin = {page}
  TTL = 2
  None = None
  Unknown = Unknown
  Outages = FALSE
  MaxRestarts = 0
SPECIFICATION Spec
INVARIANT NeverStale

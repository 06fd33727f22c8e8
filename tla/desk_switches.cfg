CONSTANTS
  a = a
  b = b
  loop = loop
  Registry <- MCRegistry
  Desk = {loop}
  Of <- MCOf
  Admin = {page}
  TTL = 2
  None = None
  Unknown = Unknown
  Outages = TRUE
  MaxRestarts = 1
SPECIFICATION FairSpec
INVARIANT TypeOK
INVARIANT CopyIsRecent
PROPERTY OffHolds
PROPERTY OnWorks

CONSTANTS
  loop = loop
  manual = manual
  request = request
  Caller = {loop, manual}
  Hourly = loop
  Margin <- MCMargin
  Script = {script}
  User = {user}
  Token = {t1, t2, t3, t4, t5}
  None = None
  Dead = Dead
  MaxTries = 3
  MaxTroubles = 2
SPECIFICATION FairSpec
INVARIANT TypeOK
INVARIANT OneLogin
INVARIANT StoredWorks
PROPERTY OwnLockOnly
PROPERTY Recovers

CONSTANTS
  loop = loop
  manual = manual
  request = request
  Caller = {loop, request}
  Hourly = loop
  Margin <- MCMargin
  Script = {}
  User = {}
  Token = {t1, t2, t3, t4, t5}
  None = None
  Dead = Dead
  MaxTries = 3
  MaxTroubles = 0
SPECIFICATION Spec
INVARIANT HealthyMintsNothing

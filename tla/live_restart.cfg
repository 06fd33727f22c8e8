CONSTANTS
  lab = lab
  post = post
  closeout = closeout
  panic = panic
  s1 = s1
  s2 = s2
  cas = cas
  reg = reg
  None = None
  Strategy = {s1, s2}
  Symbol = {cas}
  Runner = {lab, post}
  Closer = {}
  Panicker = {}
  MaxOrders = 3
  MaxRejects = 2
  MaxStray = 1
  Slice = 3
  Ceiling = 3
  EntryCutoff = 1
  CloseoutFrom = 1
  SquareOffDue <- SoonDue
  BrokerFrom <- SoonFrom
  CloseTime = 3
  LastDay = 1
  Switches = {}
  Faults = {"crash"}
SPECIFICATION Spec
INVARIANT NoStray

CONSTANTS
  lab = lab
  post = post
  closeout = closeout
  panic = panic
  s1 = s1
  s2 = s2
  cas = cas
  reg = reg
  None = None
  Strategy = {s1, s2}
  Symbol = {cas}
  Runner = {lab, post}
  Closer = {closeout}
  Panicker = {}
  MaxOrders = 2
  MaxRejects = 2
  MaxStray = 1
  Slice = 1
  Ceiling = 2
  EntryCutoff = 1
  CloseoutFrom = 1
  SquareOffDue <- SoonDue
  BrokerFrom <- SoonFrom
  CloseTime = 3
  LastDay = 1
  Switches = {}
  Faults = {}
SPECIFICATION Spec
INVARIANT BooksAgree

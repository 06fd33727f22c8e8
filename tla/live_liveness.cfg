CONSTANTS
  lab = lab
  post = post
  closeout = closeout
  panic = panic
  s1 = s1
  s2 = s2
  cas = cas
  reg = reg
  None = None
  Strategy = {s1}
  Symbol = {cas}
  Runner = {lab}
  Closer = {closeout}
  Panicker = {}
  MaxOrders = 1
  MaxRejects = 2
  MaxStray = 1
  Slice = 1
  Ceiling = 2
  EntryCutoff = 1
  CloseoutFrom = 1
  SquareOffDue <- SoonDue
  BrokerFrom <- SoonFrom
  CloseTime = 3
  LastDay = 2
  Switches = {"flags"}
  Faults = {"reject", "refuse_entry", "refuse_exit", "lost_ack", "late_reject", "book", "breaker", "slow"}
SPECIFICATION FairSpec
PROPERTY EveryRowCloses

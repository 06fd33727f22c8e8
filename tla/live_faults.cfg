CONSTANTS
  lab = lab
  post = post
  closeout = closeout
  panic = panic
  s1 = s1
  s2 = s2
  cas = cas
  reg = reg
  None = None
  Strategy = {s1}
  Symbol = {cas, reg}
  Runner = {lab}
  Closer = {}
  Panicker = {panic}
  MaxOrders = 2
  MaxRejects = 2
  MaxStray = 1
  Slice = 1
  Ceiling = 2
  EntryCutoff = 1
  CloseoutFrom = 1
  SquareOffDue <- SoonDue
  BrokerFrom <- SoonFrom
  CloseTime = 2
  LastDay = 1
  Switches = {}
  Faults = {"reject", "refuse_entry", "lost_ack", "late_reject", "no_price", "rms", "crash"}
SPECIFICATION Spec
INVARIANT OneEntryPerBar
INVARIANT CapitalRespected

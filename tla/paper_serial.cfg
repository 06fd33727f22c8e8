CONSTANTS
  loop = loop
  u1 = u1
  u2 = u2
  Loop = {loop}
  User = {u1}
  Ticket <- SerialTickets
  Price = {0, 1, 2}
  Rate <- MCRate
  Capital = 3
  MaxOrders = 2
  MaxPositions = 2
  MaxShares = 2
  LastDay = 2
  Calls = {"place", "exit", "settle", "modify", "cancel", "tick"}
  Overlap = FALSE
  MaxRestarts = 0
SPECIFICATION Spec
INVARIANT TypeOK
INVARIANT TradesExplainBooks
INVARIANT WithinCapital
PROPERTY CutoffFlattens
PROPERTY Promise

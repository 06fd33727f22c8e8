CONSTANTS
  loop = loop
  u1 = u1
  u2 = u2
  Loop = {loop}
  User = {u1}
  Ticket <- OverlapTickets
  Price = {1, 2}
  Rate <- MCRate
  Capital = 8
  MaxOrders = 3
  MaxPositions = 3
  MaxShares = 2
  LastDay = 1
  Calls = {"place", "exit", "settle"}
  Overlap = TRUE
  MaxRestarts = 1
SPECIFICATION Spec
INVARIANT NeverShort

CONSTANTS
  loop = loop
  u1 = u1
  u2 = u2
  Loop = {loop}
  User = {u1}
  Ticket <- SerialTickets
  Price = {1, 2}
  Rate <- MCRate
  Capital = 8
  MaxOrders = 2
  MaxPositions = 2
  MaxShares = 2
  LastDay = 1
  Calls = {"place", "tick", "settle"}
  Overlap = FALSE
  MaxRestarts = 0
SPECIFICATION Spec
PROPERTY NoReversal

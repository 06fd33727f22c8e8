CONSTANTS
  A = A
  B = B
  Parent = {1, 2, 3}
  Stock <- MCStock
  Price <- MCPrice
  Gain <- MCLoss
  Capital = 4
  MaxOpen = 2
  Lag = 1
  LastTime = 2
  MaxTroubles = 2
  RaceReset = FALSE
SPECIFICATION Spec
INVARIANT StaysReset
CHECK_DEADLOCK FALSE

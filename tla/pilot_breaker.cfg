CONSTANTS
  nifty = nifty
  banknifty = banknifty
  s1 = s1
  Underlyings <- MCUnderlyings
  Strategies <- MCStrategies
  MaxConcurrentPerDir = 1
  DailyLossPct = 3
  DrawdownPct = 2
  Pause = 1
  MinTradesPerWindow = 1
  Capital = 100
  Result <- MCResult
  MaxTrades = 3
  LastTime = 5
SPECIFICATION Spec
INVARIANT BreakerResets

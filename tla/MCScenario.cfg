SPECIFICATION EngineSpec
CONSTANTS
  u1 = u1
  u2 = u2
  Users = {u1, u2}
  Treasury = treasury
  c = c
  d = d
  Collaterals = {c}
  Debts = {d}
  Config <- MCConfig
  Strategy <- MCStrategy
  Prices <- MCPrices
  Amounts <- MCAmounts
  PPS <- MCPPS
  Calls = {}
  Stories <- MCStories
  MaxStories = 4
  ReserveTolerance = 4
  UserTolerance = 4
  RAY = 10000
  WAD = 1000
  WAD_RAY_RATIO = 10
  PERCENTAGE_FACTOR = 100
  SECONDS_PER_YEAR = 2
  MAX_UINT = 100000000
  MaxTime = 3
  MaxIndex = 30000
INVARIANTS ReservePredicted UserPredicted NegativesRefused
CHECK_DEADLOCK FALSE

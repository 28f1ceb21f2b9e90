SPECIFICATION MCSpec
CONSTANTS
  Users = {u1, u2}
  Treasury = treasury
  c = c
  d = d
  MaxSteps = 9
  Courses = {"any"}
  Collaterals = {c}
  Debts = {d}
  Config <- ScaledConfig
  Strategy <- MCStrategy
  Prices <- FixedPrices
  Amounts <- InterestAmounts
  PPS <- QuietVault
  Calls = {}
  RAY = 10000
  WAD = 1000
  WAD_RAY_RATIO = 10
  PERCENTAGE_FACTOR = 100
  SECONDS_PER_YEAR = 2
  MAX_UINT = 100000000
  MaxTime = 2
  MaxIndex = 30000
  SolvencySlack = 20
  BackingSlack = 2
INVARIANTS TypeOK NoHiddenDebt SupplyIsSumOfBalances ReserveSolvent
PROPERTIES IndexesNeverFall BystandersUnaffected LiquidationIsFair
CHECK_DEADLOCK FALSE
SYMMETRY UserSymmetry

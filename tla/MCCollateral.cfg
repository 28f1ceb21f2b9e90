SPECIFICATION MCSpec
CONSTANTS
  Users = {u1, u2}
  Treasury = treasury
  c = c
  d = d
  MaxSteps = 8
  Courses = {"market", "governed"}
  Collaterals = {c}
  Debts = {d}
  Config <- PlainConfig
  Strategy <- MCStrategy
  Prices <- MCPrices
  Amounts <- CollateralAmounts
  PPS <- EarningVault
  Calls = {"setUserUseReserveAsCollateral", "setPause", "setReserveFreeze"}
  RAY = 10000
  WAD = 1000
  WAD_RAY_RATIO = 10
  PERCENTAGE_FACTOR = 100
  SECONDS_PER_YEAR = 2
  MAX_UINT = 100000000
  MaxTime = 1
  MaxIndex = 15000
  SolvencySlack = 20
  BackingSlack = 2
INVARIANTS CollateralBacked
PROPERTIES HealthPreserved EmptiedCollateralIsUnmarked BrakesHold
CHECK_DEADLOCK FALSE
SYMMETRY UserSymmetry

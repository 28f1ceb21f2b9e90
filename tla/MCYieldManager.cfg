SPECIFICATION MCSpec
CONSTANTS
  RewardAssets = {"CRV", "BAL"}
  Reserves <- MCReserves
  SwapTypes <- MCSwapTypes
  Yields = {9}
  Supplies = {0, 1, 6}
  TOKEN_UNIT = 2
  Slippages = {0, 20}
  RAY = 100
  WAD = 10
  WAD_RAY_RATIO = 10
  PERCENTAGE_FACTOR = 100
  SECONDS_PER_YEAR = 2
  MaxSteps = 4
INVARIANTS TypeOK SwapTypeFollowsAsset
PROPERTIES NothingLeftBehind FairSplit
CHECK_DEADLOCK FALSE

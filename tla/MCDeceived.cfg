SPECIFICATION MCSpec
CONSTANTS
  Assets = {weth}
  Decimals = {6}
  Ltvs = {0}
  Thresholds = {0}
  Bonuses = {0}
  Factors = {0, 10000}
  MAX_NUMBER_RESERVES = 2
  RAY = 100
  WAD = 10
  WAD_RAY_RATIO = 10
  PERCENTAGE_FACTOR = 10000
  SECONDS_PER_YEAR = 2
INVARIANT DepositsAreActive

SPECIFICATION MCSpec
CONSTANTS
  Assets = {weth, dai}
  Decimals = {6, 19}
  Ltvs = {0, 8000}
  Thresholds = {0, 8500, 9600}
  Bonuses = {0, 10500}
  Factors = {10000, 65535, 65536}
  MAX_NUMBER_RESERVES = 2
  RAY = 100
  WAD = 10
  WAD_RAY_RATIO = 10
  PERCENTAGE_FACTOR = 10000
  SECONDS_PER_YEAR = 2
INVARIANTS TypeOK LentOrCollateral OnlyUnpaidLockedOut IdsLeadBack
PROPERTIES ImplementsTerms
SYMMETRY AssetSymmetry

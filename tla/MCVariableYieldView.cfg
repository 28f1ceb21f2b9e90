SPECIFICATION MCSpec
CONSTANTS
  Users = {u1, u2}
  InitStakes <- MCInitStakes
  Stakes = {1, 2}
  Earnings = {5}
  Claims = {2, 1000}
  Ratios = {0, 40, 80}
  Fees = {30}
  RAY = 100
  WAD = 10
  WAD_RAY_RATIO = 10
  PERCENTAGE_FACTOR = 100
  SECONDS_PER_YEAR = 2
  MaxSteps = 6
INVARIANT AllAvailableCanBeTaken
CHECK_DEADLOCK FALSE
SYMMETRY UserSymmetry

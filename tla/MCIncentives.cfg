SPECIFICATION MCSpec
CONSTANTS
  Users = {u1, u2}
  StableDistributors = {ldo}
  Controller = controller
  NoAddress = NoAddress
  Stakes = {1}
  Emissions = {1, 2}
  Ends = {1, 9}
  Claims = {1000}
  Fundings = {2}
  PRECISION = 7
  MAX_INDEX = 35
  MaxTime = 3
  MaxTimeListed = 1
  MaxSupply = 2
  MaxBalance = 2
  MaxListed = 2
INVARIANT EmissionBound
PROPERTIES RewardsKept
CHECK_DEADLOCK FALSE
SYMMETRY UserSymmetry

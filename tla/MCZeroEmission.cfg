SPECIFICATION MCSpec
CONSTANTS
  Users = {u1, u2}
  StableDistributors = {}
  Controller = controller
  NoAddress = NoAddress
  Stakes = {1}
  Emissions = {0, 2}
  Ends = {1, 9}
  Claims = {1000}
  Fundings = {}
  PRECISION = 6
  MAX_INDEX = 30
  MaxTime = 3
  MaxTimeListed = 1
  MaxSupply = 3
  MaxBalance = 0
  MaxListed = 1
INVARIANT EmissionBound

CHECK_DEADLOCK FALSE
SYMMETRY UserSymmetry

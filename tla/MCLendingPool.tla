---------------------------- MODULE MCLendingPool ----------------------------
(* Instances of LendingPool: one collateral c, one debt asset d. *)
EXTENDS LendingPoolProperties, TLC

CONSTANTS c, d, MaxSteps, Courses

VARIABLES
  steps,    \* transactions and environment steps so far
  course    \* what happens around the users' calls

\* The administrator, the market or either acts; the other stays as it is.
ASSUME CoursesAssumption == Courses \subseteq {"any", "market", "governed"}

\* Every behaviour of at most MaxSteps steps.
MCInit ==
  /\ Init /\ steps = 0 /\ course \in Courses
  /\ course = "governed" => \A r \in Reserves : \A p \in Prices[r] : price[r] <= p
MCNext ==
  /\ steps < MaxSteps
  /\ Next
  /\ course = "market" => UNCHANGED <<now, paused, frozen, borrowAllowance>>
  /\ course = "governed" => UNCHANGED <<price, pricePerShare>>
  /\ steps' = steps + 1
  /\ UNCHANGED course
MCSpec == MCInit /\ [][MCNext]_<<vars, steps, course>>

\* Threshold 75%, bonus 7.5%; rates above 50% utilization only.
MCConfig(scale) ==
  c :> [ltv |-> 70, liquidationThreshold |-> 75, liquidationBonus |-> 108,
        reserveFactor |-> 0, unit |-> 1, scale |-> scale] @@
  d :> [ltv |-> 0, liquidationThreshold |-> 0, liquidationBonus |-> 100,
        reserveFactor |-> 10, unit |-> 1, scale |-> 1]

PlainConfig == MCConfig(1)
ScaledConfig == MCConfig(10)

MCStrategy ==
  c :> [optimal |-> 4500, base |-> 0, slope1 |-> 0, slope2 |-> 0, capacity |-> 9000] @@
  d :> [optimal |-> 5000, base |-> 0, slope1 |-> 0, slope2 |-> 9000, capacity |-> 15000]

FixedPrices == c :> {2} @@ d :> {1}
EarningVault == c :> {12500}
QuietVault == c :> {}
MCPrices == c :> {2, 3} @@ d :> {1}

\* Suppliers and borrowers with interest: two ways to repay, withdraw and liquidate.
InterestAmounts ==
  [deposit |-> {9000}, withdraw |-> {3000}, yield |-> {700}, collateral |-> {6000},
   withdrawCollateral |-> {}, borrow |-> {4000}, repay |-> {2500}, delegate |-> {},
   transfer |-> {1500}, cover |-> {1000}]

\* Collateral whose vault earns, so that shares and amounts differ, and delegated credit.
CollateralAmounts ==
  [deposit |-> {9000}, withdraw |-> {}, yield |-> {}, collateral |-> {3001},
   withdrawCollateral |-> {1001}, borrow |-> {4000}, repay |-> {}, delegate |-> {5000},
   transfer |-> {0, 1000}, cover |-> {1, 1000}]

UserSymmetry == Permutations(Users)
=============================================================================

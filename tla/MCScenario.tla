----------------------------- MODULE MCScenario -----------------------------
(* An instance of the scenario suites: u1 lends, u2 borrows against c. *)
EXTENDS ScenarioProperties, TLC

CONSTANTS u1, u2, c, d

MCConfig ==
  c :> [ltv |-> 70, liquidationThreshold |-> 75, liquidationBonus |-> 108,
        reserveFactor |-> 0, unit |-> 1, scale |-> 1] @@
  d :> [ltv |-> 0, liquidationThreshold |-> 0, liquidationBonus |-> 100,
        reserveFactor |-> 10, unit |-> 1, scale |-> 1]

\* The shape of rateStrategy of DAI: a kink, and slopes on both sides of it.
MCStrategy ==
  c :> [optimal |-> 4500, base |-> 0, slope1 |-> 0, slope2 |-> 0, capacity |-> 0] @@
  d :> [optimal |-> 6000, base |-> 0, slope1 |-> 800, slope2 |-> 6000, capacity |-> 0]

MCPrices == c :> {2} @@ d :> {1}
MCPPS == c :> {12500}
MCAmounts == [x \in AmountOf |-> {}]

Act(name, user, onBehalfOf, r, amount) ==
  [name |-> name, user |-> user, onBehalfOf |-> onBehalfOf, reserve |-> r, amount |-> amount,
   rateMode |-> "stable", timeTravel |-> TRUE, useAsCollateral |-> FALSE,
   expected |-> "success"]

Reverting(a) == [a EXCEPT !.expected = "revert"]

\* The kinds of story the scenario files tell.
MCStories ==
  { << Act("mint", u1, u1, d, 9000), Act("approve", u1, u1, d, 0),
       Act("deposit", u1, u1, d, 9000) >>,
    << Act("mint", u2, u2, c, 6000), Act("approveVault", u2, u2, c, 0),
       Act("depositCollateral", u2, u2, c, 5999), Act("borrow", u2, u2, d, 4001),
       Reverting(Act("withdrawCollateral", u2, u2, c, MAX_UINT)) >>,
    << Act("approve", u2, u2, d, 0), Act("repay", u2, u2, d, 2500) >>,
    << Act("mint", u2, u2, d, 9000), Act("repay", u2, u2, d, MAX_UINT),
       Act("withdrawCollateral", u2, u2, c, MAX_UINT) >>,
    << Act("repay", u1, u2, d, 1000) >>,
    << Act("withdraw", u1, u1, d, 3000), Act("withdraw", u1, u1, d, MAX_UINT) >>,
    << Act("setUseAsCollateral", u1, u1, d, 0) >>,
    << Act("mint", u2, u2, d, 1000), Act("deposit", u2, u2, d, 1000) >>,
    << Act("delegateBorrowAllowance", u2, u1, d, 700), Act("borrow", u1, u2, d, 500) >>,
    << Reverting(Act("deposit", u1, u1, d, 0)), Reverting(Act("deposit", u2, u2, c, 100)),
       Reverting(Act("withdraw", u1, u1, d, 0)), Reverting(Act("repay", u2, u2, d, 0)),
       Reverting([Act("borrow", u2, u2, d, 100) EXCEPT !.rateMode = "none"]),
       Reverting([Act("borrow", u2, u2, d, 100) EXCEPT !.rateMode = "invalid"]) >>,
    << Act("swapBorrowRateMode", u2, u2, d, 0) >> }
=============================================================================

----------------------------- MODULE MarketParams -----------------------------
(***************************************************************************)
(* The parameters a market's configuration gives an interest rate strategy *)
(* and a reserve (IInterestRateStrategyParams and IReserveParams of        *)
(* src/helpers/types.ts).  The fields that are zero in every market, the   *)
(* base rate, the first slope and the stable rates, are left out.          *)
(***************************************************************************)
EXTENDS Naturals

RateStrategy(name, optimal, slope2, capacity) ==
    [name |-> name, optimalUtilizationRate |-> optimal,
     variableRateSlope2 |-> slope2, capacity |-> capacity]

\* A reserve that is borrowed and is no collateral.
Lent(strategy, decimals, factor, emission) ==
    [aTokenImpl |-> "AToken", strategy |-> strategy, reserveDecimals |-> decimals,
     reserveFactor |-> factor, emissionPerSecond |-> emission,
     baseLTVAsCollateral |-> 0, liquidationThreshold |-> 0, liquidationBonus |-> 0,
     borrowingEnabled |-> TRUE, collateralEnabled |-> FALSE]

\* A reserve that is collateral and is not borrowed.
Collateral(strategy, decimals, ltv, threshold, bonus) ==
    [aTokenImpl |-> "ATokenForCollateral", strategy |-> strategy,
     reserveDecimals |-> decimals, reserveFactor |-> 0, emissionPerSecond |-> 0,
     baseLTVAsCollateral |-> ltv, liquidationThreshold |-> threshold,
     liquidationBonus |-> bonus, borrowingEnabled |-> FALSE,
     collateralEnabled |-> TRUE]

=============================================================================

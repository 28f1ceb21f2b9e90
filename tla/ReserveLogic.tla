---------------------------- MODULE ReserveLogic ----------------------------
(***************************************************************************)
(* The interest side of a reserve: the library ReserveLogic and the rate   *)
(* strategy DefaultReserveInterestRateStrategy, as functions of one        *)
(* ReserveData record.  Stable debt cannot exist in this version (the      *)
(* maximum stable loan size is never initialised and stays 0), so every    *)
(* stable debt term is 0 and is left out.                                  *)
(***************************************************************************)
EXTENDS WadRayMath

ReserveData == [liquidityIndex: Nat, variableBorrowIndex: Nat,
                currentLiquidityRate: Nat, currentVariableBorrowRate: Nat,
                lastUpdateTimestamp: Nat]

\* init: both indexes start at one ray; the rates and the time stamp are not set.
initReserveData ==
  [liquidityIndex |-> RAY, variableBorrowIndex |-> RAY,
   currentLiquidityRate |-> 0, currentVariableBorrowRate |-> 0,
   lastUpdateTimestamp |-> 0]

LinearInterest(r, now) ==
  calculateLinearInterest(r.currentLiquidityRate, now - r.lastUpdateTimestamp)

CompoundedInterest(r, now) ==
  calculateCompoundedInterest(r.currentVariableBorrowRate, now - r.lastUpdateTimestamp)

\* The views: what one unit of scaled balance or of scaled debt is worth now.
getNormalizedIncome(r, now) ==
  IF r.lastUpdateTimestamp = now THEN r.liquidityIndex
  ELSE rayMul(LinearInterest(r, now), r.liquidityIndex)

getNormalizedDebt(r, now) ==
  IF r.lastUpdateTimestamp = now THEN r.variableBorrowIndex
  ELSE rayMul(CompoundedInterest(r, now), r.variableBorrowIndex)

\* Mutants: interest that does not compound on the index, and a time stamp
\* that moves without any accrual.
updateIndexesFromOne(r, scaledVariableDebt, now) ==
  IF r.currentLiquidityRate = 0 THEN [r EXCEPT !.lastUpdateTimestamp = now]
  ELSE [r EXCEPT !.liquidityIndex = LinearInterest(r, now),
                 !.variableBorrowIndex = CompoundedInterest(r, now),
                 !.lastUpdateTimestamp = now]
updateTimestampOnly(r, scaledVariableDebt, now) == [r EXCEPT !.lastUpdateTimestamp = now]

\* The time stamp moves even when the indexes do not: no liquidity rate, no
\* update of either index; no debt, no update of the borrow index.
updateIndexes(r, scaledVariableDebt, now) ==
  IF r.currentLiquidityRate = 0
  THEN [r EXCEPT !.lastUpdateTimestamp = now]
  ELSE [r EXCEPT !.liquidityIndex = rayMul(LinearInterest(r, now), r.liquidityIndex),
                 !.variableBorrowIndex =
                    IF scaledVariableDebt = 0 THEN r.variableBorrowIndex
                    ELSE rayMul(CompoundedInterest(r, now), r.variableBorrowIndex),
                 !.lastUpdateTimestamp = now]

\* Scaled aTokens minted to the treasury when r becomes updated: the reserve
\* factor's part of the interest the debt has accrued.
mintToTreasury(r, updated, scaledVariableDebt, reserveFactor) ==
  LET totalDebtAccrued == rayMul(scaledVariableDebt, updated.variableBorrowIndex)
                            - rayMul(scaledVariableDebt, r.variableBorrowIndex)
  IN  rayDiv(percentMul(totalDebtAccrued, reserveFactor), updated.liquidityIndex)

\* A strategy s is a record [optimal, base, slope1, slope2, capacity].
isInterestRateNotAvailable(s) == s.slope1 = 0 /\ s.slope2 = 0 /\ s.base = 0

utilizationRate(availableLiquidity, totalDebt) ==
  IF totalDebt = 0 THEN 0 ELSE rayDiv(totalDebt, availableLiquidity + totalDebt)

variableBorrowRate(s, utilization) ==
  IF utilization > s.optimal
  THEN s.base + s.slope1
         + rayMul(s.slope2, rayDiv(utilization - s.optimal, RAY - s.optimal))
  ELSE s.base + rayDiv(rayMul(utilization, s.slope1), s.optimal)

getOverallBorrowRate(totalVariableDebt, rate) ==
  IF totalVariableDebt = 0 THEN 0
  ELSE rayDiv(rayMul(wadToRay(totalVariableDebt), rate), wadToRay(totalVariableDebt))

\* Mutant: suppliers also earn the treasury's part.
updateInterestRatesUnshared(r, s, availableLiquidity, scaledVariableDebt, reserveFactor) ==
  LET totalVariableDebt == rayMul(scaledVariableDebt, r.variableBorrowIndex)
      utilization       == utilizationRate(availableLiquidity, totalVariableDebt)
      rate              == variableBorrowRate(s, utilization)
  IN  [r EXCEPT !.currentVariableBorrowRate = rate,
                !.currentLiquidityRate = rayMul(rate, utilization)]

\* updateInterestRates with calculateInterestRates: the rates that follow from
\* the liquidity the operation leaves and the debt at the stored index.
updateInterestRates(r, s, availableLiquidity, scaledVariableDebt, reserveFactor) ==
  LET totalVariableDebt == rayMul(scaledVariableDebt, r.variableBorrowIndex)
      utilization       == utilizationRate(availableLiquidity, totalVariableDebt)
      rate              == variableBorrowRate(s, utilization)
  IN  [r EXCEPT !.currentVariableBorrowRate = rate,
                !.currentLiquidityRate =
                   percentMul(rayMul(getOverallBorrowRate(totalVariableDebt, rate), utilization),
                              PERCENTAGE_FACTOR - reserveFactor)]

\* cumulateToLiquidityIndex: spreads a yield over everybody who holds aTokens.
cumulateToLiquidityIndex(r, totalLiquidity, amount) ==
  [r EXCEPT !.liquidityIndex =
     rayMul(rayDiv(wadToRay(amount), wadToRay(totalLiquidity)) + RAY, r.liquidityIndex)]
=============================================================================

-------------------------- MODULE TestCalculations --------------------------
(***************************************************************************)
(* The test suites' own account of the protocol                            *)
(* (test-sturdy/helpers/utils/calculations.ts): from the data read before  *)
(* a transaction, what the reserve and the user must look like after it.   *)
(* It is a second implementation of the interest logic, written against    *)
(* the views and not against the storage of the pool.                      *)
(*                                                                         *)
(* The engine sends 'stable' actions with the variable rate mode and the   *)
(* pool holds no stable debt: the branches for RateMode.Stable, which are  *)
(* never entered, and the stable terms, read and predicted as 0, are left  *)
(* out, but for principalStableDebt, of which a deposit predicts more.  So *)
(* are the predictions for swapping and rebalancing, which no action uses. *)
(***************************************************************************)
EXTENDS TestMath

CONSTANTS
  ONE_YEAR, MAX_UINT_AMOUNT,
  reservesParams   \* ReservesConfig of the market: per symbol the rate strategy,
                   \* reserveFactor and collateralEnabled

calcLinearInterest(rate, currentTimestamp, lastUpdateTimestamp) ==
  div(rate * (currentTimestamp - lastUpdateTimestamp), ONE_YEAR) + RAY

calcCompoundedInterest(rate, currentTimestamp, lastUpdateTimestamp) ==
  LET timeDifference == currentTimestamp - lastUpdateTimestamp
      expMinusOne    == timeDifference - 1
      expMinusTwo    == IF timeDifference > 2 THEN timeDifference - 2 ELSE 0
      ratePerSecond  == div(rate, ONE_YEAR)
      basePowerTwo   == rayMul(ratePerSecond, ratePerSecond)
      basePowerThree == rayMul(basePowerTwo, ratePerSecond)
  IN  IF timeDifference = 0 THEN RAY
      ELSE RAY + ratePerSecond * timeDifference
             + div(timeDifference * expMinusOne * basePowerTwo, 2)
             + div(timeDifference * expMinusOne * expMinusTwo * basePowerThree, 6)

calcExpectedOverallBorrowRate(totalVariableDebt, variableBorrowRate) ==
  IF totalVariableDebt = 0 THEN 0
  ELSE rayDiv(rayMul(wadToRay(totalVariableDebt), variableBorrowRate),
              wadToRay(totalVariableDebt))

calcExpectedUtilizationRate(totalVariableDebt, totalLiquidity) ==
  IF totalVariableDebt = 0 THEN 0 ELSE rayDiv(totalVariableDebt, totalLiquidity)

\* Mutant: the kink of the curve is forgotten.
calcExpectedInterestRatesStraight(symbol, utilizationRate, totalVariableDebt) ==
  LET s    == reservesParams[symbol]
      rate == s.baseVariableBorrowRate
                + rayMul(rayDiv(utilizationRate, s.optimalUtilizationRate), s.variableRateSlope1)
  IN  [liquidityRate |->
         percentMul(rayMul(calcExpectedOverallBorrowRate(totalVariableDebt, rate),
                           utilizationRate), PERCENTAGE_FACTOR - s.reserveFactor),
       variableBorrowRate |-> rate]

calcExpectedInterestRates(symbol, utilizationRate, totalVariableDebt) ==
  LET s       == reservesParams[symbol]
      optimal == s.optimalUtilizationRate
      rate    == s.baseVariableBorrowRate +
                 (IF utilizationRate > optimal
                  THEN s.variableRateSlope1
                         + rayMul(s.variableRateSlope2,
                                  rayDiv(utilizationRate - optimal, RAY - optimal))
                  ELSE rayMul(rayDiv(utilizationRate, optimal), s.variableRateSlope1))
  IN  [liquidityRate |->
         percentMul(rayMul(calcExpectedOverallBorrowRate(totalVariableDebt, rate),
                           utilizationRate), PERCENTAGE_FACTOR - s.reserveFactor),
       variableBorrowRate |-> rate]

calcExpectedReserveNormalizedIncome(reserveData, currentTimestamp) ==
  IF reserveData.liquidityRate = 0 THEN reserveData.liquidityIndex
  ELSE rayMul(calcLinearInterest(reserveData.liquidityRate, currentTimestamp,
                                 reserveData.lastUpdateTimestamp),
              reserveData.liquidityIndex)

calcExpectedReserveNormalizedDebt(borrowRate, borrowIndex, lastUpdate, currentTimestamp) ==
  IF borrowRate = 0 THEN borrowIndex
  ELSE rayMul(calcCompoundedInterest(borrowRate, currentTimestamp, lastUpdate), borrowIndex)

\* The indexes a transaction at timestamp stores, decided from the debt and
\* the utilization where the contract looks at its liquidity rate.
calcExpectedLiquidityIndex(reserveData, timestamp) ==
  IF reserveData.utilizationRate = 0 THEN reserveData.liquidityIndex
  ELSE rayMul(calcLinearInterest(reserveData.liquidityRate, timestamp,
                                 reserveData.lastUpdateTimestamp),
              reserveData.liquidityIndex)

calcExpectedVariableBorrowIndex(reserveData, timestamp) ==
  IF reserveData.totalVariableDebt = 0 THEN reserveData.variableBorrowIndex
  ELSE rayMul(calcCompoundedInterest(reserveData.variableBorrowRate, timestamp,
                                     reserveData.lastUpdateTimestamp),
              reserveData.variableBorrowIndex)

calcExpectedTotalVariableDebt(reserveData, expectedVariableDebtIndex) ==
  rayMul(reserveData.scaledVariableDebt, expectedVariableDebtIndex)

calcExpectedScaledATokenBalance(userData, index, amountAdded, amountTaken) ==
  userData.scaledATokenBalance + rayDiv(amountAdded, index) - rayDiv(amountTaken, index)

calcExpectedATokenBalance(reserveData, userData, currentTimestamp) ==
  rayMul(userData.scaledATokenBalance,
         calcExpectedReserveNormalizedIncome(reserveData, currentTimestamp))

calcExpectedVariableDebtTokenBalance(reserveData, userData, currentTimestamp) ==
  rayMul(userData.scaledVariableDebt,
         calcExpectedReserveNormalizedDebt(reserveData.variableBorrowRate,
                                           reserveData.variableBorrowIndex,
                                           reserveData.lastUpdateTimestamp, currentTimestamp))
-----------------------------------------------------------------------------
(* The reserve after each action.  Every prediction ends by pricing the    *)
(* debt and the liquidity it arrived at.                                   *)

Priced(data, debt, liquidity) ==
  LET utilization == calcExpectedUtilizationRate(debt, liquidity)
      rates       == calcExpectedInterestRates(data.symbol, utilization, debt)
  IN  [data EXCEPT !.totalVariableDebt = debt, !.totalLiquidity = liquidity,
                   !.utilizationRate = utilization,
                   !.liquidityRate = rates.liquidityRate,
                   !.variableBorrowRate = rates.variableBorrowRate]

Accrued(data, txTimestamp) ==
  [data EXCEPT !.liquidityIndex = calcExpectedLiquidityIndex(data, txTimestamp),
               !.variableBorrowIndex = calcExpectedVariableBorrowIndex(data, txTimestamp)]

\* The total liquidity is the one read before, without the interest the debt
\* has earned since.
calcExpectedReserveDataAfterDeposit(amountDeposited, before, txTimestamp) ==
  LET data == Accrued(before, txTimestamp)
  IN  Priced([data EXCEPT !.availableLiquidity = @ + amountDeposited],
             calcExpectedTotalVariableDebt(before, data.variableBorrowIndex),
             before.totalLiquidity + amountDeposited)

calcExpectedReserveDataAfterWithdraw(amountWithdrawn, before, userBefore, txTimestamp) ==
  LET data      == Accrued(before, txTimestamp)
      amount    == IF amountWithdrawn = MAX_UINT_AMOUNT
                   THEN calcExpectedATokenBalance(before, userBefore, txTimestamp)
                   ELSE amountWithdrawn
      debt      == rayMul(before.scaledVariableDebt, data.variableBorrowIndex)
      available == before.availableLiquidity - amount
  IN  Priced([data EXCEPT !.availableLiquidity = available], debt, available + debt)

\* The rates are those of the transaction; debt, liquidity and utilization
\* those of the moment of the comparison, after any time travel.
calcExpectedReserveDataAfterBorrow(amountBorrowed, before, txTimestamp, currentTimestamp) ==
  LET data      == Accrued(before, txTimestamp)
      available == before.availableLiquidity - amountBorrowed
      scaled    == before.scaledVariableDebt
                     + rayDiv(amountBorrowed, data.variableBorrowIndex)
      debtAtTx  == rayMul(scaled, data.variableBorrowIndex)
      atTx      == Priced([data EXCEPT !.availableLiquidity = available,
                                       !.scaledVariableDebt = scaled,
                                       !.lastUpdateTimestamp = txTimestamp],
                          debtAtTx, available + debtAtTx)
      debt      == rayMul(scaled,
                          calcExpectedReserveNormalizedDebt(atTx.variableBorrowRate,
                            atTx.variableBorrowIndex, txTimestamp, currentTimestamp))
  IN  [atTx EXCEPT !.totalVariableDebt = debt,
                   !.totalLiquidity = available + debt,
                   !.utilizationRate = calcExpectedUtilizationRate(debt, available + debt)]

calcExpectedReserveDataAfterRepay(amountRepaid, before, userBefore, txTimestamp) ==
  LET data      == Accrued(before, txTimestamp)
      amount    == IF amountRepaid = MAX_UINT_AMOUNT
                   THEN calcExpectedVariableDebtTokenBalance(before, userBefore, txTimestamp)
                   ELSE amountRepaid
      available == before.availableLiquidity + amount
      scaled    == before.scaledVariableDebt - rayDiv(amount, data.variableBorrowIndex)
      debt      == rayMul(scaled, data.variableBorrowIndex)
  IN  Priced([data EXCEPT !.availableLiquidity = available, !.scaledVariableDebt = scaled,
                          !.lastUpdateTimestamp = txTimestamp],
             debt, available + debt)
-----------------------------------------------------------------------------
(* The user after each action *)

\* The last assignment gives the principal of the stable debt the variable debt.
calcExpectedUserDataAfterDeposit(amountDeposited, before, after, userBefore, txTimestamp) ==
  LET debt == calcExpectedVariableDebtTokenBalance(before, userBefore, txTimestamp)
  IN  [userBefore EXCEPT
         !.currentVariableDebt = debt,
         !.principalStableDebt = debt,
         !.liquidityRate = after.liquidityRate,
         !.scaledATokenBalance =
            calcExpectedScaledATokenBalance(userBefore, after.liquidityIndex, amountDeposited, 0),
         !.currentATokenBalance =
            calcExpectedATokenBalance(before, userBefore, txTimestamp) + amountDeposited,
         !.usageAsCollateralEnabled =
            @ \/ (reservesParams[before.symbol].collateralEnabled
                  /\ userBefore.currentATokenBalance = 0),
         !.walletBalance = @ - amountDeposited]

\* Mutant: the collateral flag survives a complete withdrawal.
calcExpectedUserDataAfterWithdrawFlagged(amountWithdrawn, before, after, userBefore, txTimestamp) ==
  LET balance == calcExpectedATokenBalance(before, userBefore, txTimestamp)
      amount  == IF amountWithdrawn = MAX_UINT_AMOUNT THEN balance ELSE amountWithdrawn
  IN  [userBefore EXCEPT
         !.currentVariableDebt =
            calcExpectedVariableDebtTokenBalance(before, userBefore, txTimestamp),
         !.liquidityRate = after.liquidityRate,
         !.scaledATokenBalance =
            calcExpectedScaledATokenBalance(userBefore, after.liquidityIndex, 0, amount),
         !.currentATokenBalance = balance - amount,
         !.walletBalance = @ + amount]

calcExpectedUserDataAfterWithdraw(amountWithdrawn, before, after, userBefore, txTimestamp) ==
  LET balance == calcExpectedATokenBalance(before, userBefore, txTimestamp)
      amount  == IF amountWithdrawn = MAX_UINT_AMOUNT THEN balance ELSE amountWithdrawn
  IN  [userBefore EXCEPT
         !.currentVariableDebt =
            calcExpectedVariableDebtTokenBalance(before, userBefore, txTimestamp),
         !.liquidityRate = after.liquidityRate,
         !.scaledATokenBalance =
            calcExpectedScaledATokenBalance(userBefore, after.liquidityIndex, 0, amount),
         !.currentATokenBalance = balance - amount,
         !.usageAsCollateralEnabled =
            userBefore.currentATokenBalance = 0 \/ (@ /\ balance # amount),
         !.walletBalance = @ + amount]

calcExpectedUserDataAfterBorrow(amountBorrowed, after, userBefore, currentTimestamp) ==
  LET scaled == userBefore.scaledVariableDebt
                  + rayDiv(amountBorrowed, after.variableBorrowIndex)
      user   == [userBefore EXCEPT !.scaledVariableDebt = scaled]
  IN  [user EXCEPT
         !.currentVariableDebt = calcExpectedVariableDebtTokenBalance(after, user, currentTimestamp),
         !.liquidityRate = after.liquidityRate,
         !.currentATokenBalance = calcExpectedATokenBalance(after, userBefore, currentTimestamp),
         !.walletBalance = @ + amountBorrowed]

calcExpectedUserDataAfterRepay(totalRepaid, before, after, userBefore, byUser, txTimestamp, now) ==
  LET amount == IF totalRepaid = MAX_UINT_AMOUNT
                THEN calcExpectedVariableDebtTokenBalance(before, userBefore, now)
                ELSE totalRepaid
      scaled == userBefore.scaledVariableDebt - rayDiv(amount, after.variableBorrowIndex)
  IN  [userBefore EXCEPT
         !.scaledVariableDebt = scaled,
         !.currentVariableDebt = rayMul(scaled, after.variableBorrowIndex),
         !.liquidityRate = after.liquidityRate,
         !.currentATokenBalance = calcExpectedATokenBalance(before, userBefore, txTimestamp),
         !.walletBalance = IF byUser THEN @ - amount ELSE @]

calcExpectedUserDataAfterSetUseAsCollateral(useAsCollateral, userBefore) ==
  [userBefore EXCEPT !.usageAsCollateralEnabled = useAsCollateral]
=============================================================================

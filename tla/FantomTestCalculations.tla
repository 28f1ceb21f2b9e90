----------------------- MODULE FantomTestCalculations -----------------------
(***************************************************************************)
(* test-ftm/helpers/utils/calculations.ts: a copy of the file of the       *)
(* Sturdy market (its functions are the same line by line and are taken    *)
(* from TestCalculations) with predictions of its own for collateral,      *)
(* whose aTokens are counted in the vault's price per share.               *)
(***************************************************************************)
EXTENDS Integers

CONSTANTS RAY, WAD_RAY_RATIO, PERCENTAGE_FACTOR, ONE_YEAR, MAX_UINT_AMOUNT, reservesParams

Copy == INSTANCE TestCalculations

rayDiv(a, b) == Copy!rayDiv(a, b)
calcLinearInterest(rate, now, last) == Copy!calcLinearInterest(rate, now, last)
calcCompoundedInterest(rate, now, last) == Copy!calcCompoundedInterest(rate, now, last)
calcExpectedOverallBorrowRate(debt, rate) == Copy!calcExpectedOverallBorrowRate(debt, rate)
calcExpectedUtilizationRate(debt, liquidity) == Copy!calcExpectedUtilizationRate(debt, liquidity)
calcExpectedInterestRates(symbol, utilization, debt) ==
  Copy!calcExpectedInterestRates(symbol, utilization, debt)
calcExpectedReserveNormalizedIncome(data, now) ==
  Copy!calcExpectedReserveNormalizedIncome(data, now)
calcExpectedReserveNormalizedDebt(rate, index, last, now) ==
  Copy!calcExpectedReserveNormalizedDebt(rate, index, last, now)
calcExpectedLiquidityIndex(data, timestamp) == Copy!calcExpectedLiquidityIndex(data, timestamp)
calcExpectedVariableBorrowIndex(data, timestamp) ==
  Copy!calcExpectedVariableBorrowIndex(data, timestamp)
calcExpectedTotalVariableDebt(data, index) == Copy!calcExpectedTotalVariableDebt(data, index)
calcExpectedScaledATokenBalance(userData, index, added, taken) ==
  Copy!calcExpectedScaledATokenBalance(userData, index, added, taken)
calcExpectedATokenBalance(data, userData, now) ==
  Copy!calcExpectedATokenBalance(data, userData, now)
calcExpectedVariableDebtTokenBalance(data, userData, now) ==
  Copy!calcExpectedVariableDebtTokenBalance(data, userData, now)

calcExpectedReserveDataAfterDeposit(amount, before, txTimestamp) ==
  Copy!calcExpectedReserveDataAfterDeposit(amount, before, txTimestamp)
calcExpectedReserveDataAfterWithdraw(amount, before, userBefore, txTimestamp) ==
  Copy!calcExpectedReserveDataAfterWithdraw(amount, before, userBefore, txTimestamp)
calcExpectedReserveDataAfterBorrow(amount, before, txTimestamp, now) ==
  Copy!calcExpectedReserveDataAfterBorrow(amount, before, txTimestamp, now)
calcExpectedReserveDataAfterRepay(amount, before, userBefore, txTimestamp) ==
  Copy!calcExpectedReserveDataAfterRepay(amount, before, userBefore, txTimestamp)
calcExpectedUserDataAfterDeposit(amount, before, after, userBefore, txTimestamp) ==
  Copy!calcExpectedUserDataAfterDeposit(amount, before, after, userBefore, txTimestamp)
calcExpectedUserDataAfterWithdraw(amount, before, after, userBefore, txTimestamp) ==
  Copy!calcExpectedUserDataAfterWithdraw(amount, before, after, userBefore, txTimestamp)
calcExpectedUserDataAfterBorrow(amount, after, userBefore, now) ==
  Copy!calcExpectedUserDataAfterBorrow(amount, after, userBefore, now)
calcExpectedUserDataAfterRepay(amount, before, after, userBefore, byUser, txTimestamp, now) ==
  Copy!calcExpectedUserDataAfterRepay(amount, before, after, userBefore, byUser, txTimestamp, now)
calcExpectedUserDataAfterSetUseAsCollateral(use, userBefore) ==
  Copy!calcExpectedUserDataAfterSetUseAsCollateral(use, userBefore)
-----------------------------------------------------------------------------
(* Collateral: a deposit buys, and a withdrawal sells, amount divided by   *)
(* the price per share the provider reports after the transaction.         *)

DebtAtTx(before, txTimestamp) ==
  calcExpectedTotalVariableDebt(before, calcExpectedVariableBorrowIndex(before, txTimestamp))

AfterShares(before, after, txTimestamp, shares, liquidity) ==
  Copy!Priced([before EXCEPT
                 !.liquidityIndex = calcExpectedLiquidityIndex(after, txTimestamp),
                 !.variableBorrowIndex = calcExpectedVariableBorrowIndex(before, txTimestamp),
                 !.availableLiquidity = @ + shares],
              DebtAtTx(before, txTimestamp), liquidity)

calcExpectedReserveDataAfterDepositCollateral(amount, before, after, txTimestamp) ==
  LET bought == rayDiv(amount, after.liquidityIndex)
  IN  AfterShares(before, after, txTimestamp, bought, before.totalLiquidity + bought)

calcExpectedReserveDataAfterWithdrawCollateral(amount, before, after, userBefore, txTimestamp) ==
  LET withdrawn == IF amount = MAX_UINT_AMOUNT THEN userBefore.scaledATokenBalance ELSE amount
      sold      == rayDiv(withdrawn, after.liquidityIndex)
  IN  AfterShares(before, after, txTimestamp, 0 - sold,
                  before.availableLiquidity - sold + DebtAtTx(before, txTimestamp))

calcExpectedUserDataAfterDepositCollateral(amount, before, after, userBefore, txTimestamp) ==
  LET balance == calcExpectedScaledATokenBalance(userBefore, RAY, amount, 0)
  IN  [calcExpectedUserDataAfterDeposit(amount, before, after, userBefore, txTimestamp) EXCEPT
         !.scaledATokenBalance = balance, !.currentATokenBalance = balance]

calcExpectedUserDataAfterWithdrawCollateral(amount, before, after, userBefore, txTimestamp) ==
  LET withdrawn == IF amount = MAX_UINT_AMOUNT THEN userBefore.scaledATokenBalance ELSE amount
      balance   == calcExpectedScaledATokenBalance(userBefore, RAY, 0, withdrawn)
  IN  [userBefore EXCEPT
         !.currentVariableDebt =
            calcExpectedVariableDebtTokenBalance(before, userBefore, txTimestamp),
         !.liquidityRate = after.liquidityRate,
         !.scaledATokenBalance = balance, !.currentATokenBalance = balance,
         !.usageAsCollateralEnabled =
            userBefore.currentATokenBalance = 0 \/ (@ /\ balance # 0),
         !.walletBalance = @ + withdrawn]
=============================================================================

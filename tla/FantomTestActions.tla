-------------------------- MODULE FantomTestActions --------------------------
(***************************************************************************)
(* The actions of the Fantom suite (test-ftm/helpers/actions.ts): those of *)
(* TestActions with the Fantom calculations, and collateral in WFTM        *)
(* through YearnVault, whose shares (yvWFTM) are worth the price per share *)
(* and grow.  The wallet of a collateral holds WFTM.                       *)
(***************************************************************************)
EXTENDS TestHarness

Copy == INSTANCE TestActions
C == INSTANCE FantomTestCalculations WITH ONE_YEAR <- SECONDS_PER_YEAR,
                                          MAX_UINT_AMOUNT <- MAX_UINT

mintTx == Copy!mintTx
approveTx == Copy!approveTx
approveVaultTx == Copy!approveVaultTx
delegateBorrowAllowanceTx == Copy!delegateBorrowAllowanceTx
depositTx == Copy!depositTx
withdrawTx == Copy!withdrawTx
borrowTx == Copy!borrowTx
repayTx == Copy!repayTx
setUseAsCollateralTx == Copy!setUseAsCollateralTx

depositExpected ==
  LET after == C!calcExpectedReserveDataAfterDeposit(action.amount, before.reserveData,
                                                     txTimestamp)
  IN  [reserveData |-> after,
       userData |-> C!calcExpectedUserDataAfterDeposit(action.amount, before.reserveData, after,
                                                       before.userData, txTimestamp)]

withdrawExpected ==
  LET after == C!calcExpectedReserveDataAfterWithdraw(action.amount, before.reserveData,
                                                      before.userData, txTimestamp)
  IN  [reserveData |-> after,
       userData |-> C!calcExpectedUserDataAfterWithdraw(action.amount, before.reserveData, after,
                                                        before.userData, txTimestamp)]

borrowExpected ==
  LET after == C!calcExpectedReserveDataAfterBorrow(action.amount, before.reserveData,
                                                    txTimestamp, now)
  IN  [reserveData |-> after,
       userData |-> C!calcExpectedUserDataAfterBorrow(action.amount, after, before.userData, now)]

repayExpected ==
  LET after == C!calcExpectedReserveDataAfterRepay(action.amount, before.reserveData,
                                                   before.userData, txTimestamp)
  IN  [reserveData |-> after,
       userData |-> C!calcExpectedUserDataAfterRepay(action.amount, before.reserveData, after,
                      before.userData, action.user = action.onBehalfOf, txTimestamp, now)]

setUseAsCollateralExpected ==
  [reserveData |-> dataNow.reserveData,
   userData |-> C!calcExpectedUserDataAfterSetUseAsCollateral(action.useAsCollateral,
                                                              before.userData)]
-----------------------------------------------------------------------------
(* Collateral *)

\* Yearn: shares for a deposit, rounded down, and what shares are redeemed for.
yearnDeposit(r, amount) == (amount * RAY) \div pricePerShare[r]
yearnWithdraw(r, shares) == (shares * pricePerShare[r]) \div RAY

depositCollateralTx ==
  /\ action.reserve \in Collaterals
  /\ depositCollateral(action.user, action.reserve, yearnDeposit(action.reserve, action.amount))
  /\ Spends(action.user, action.reserve, "vault", action.amount)
  /\ UNCHANGED approvals

depositCollateralExpected ==
  LET after == C!calcExpectedReserveDataAfterDepositCollateral(action.amount,
                 before.reserveData, dataNow.reserveData, txTimestamp)
  IN  [reserveData |-> after,
       userData |-> C!calcExpectedUserDataAfterDepositCollateral(action.amount,
                      before.reserveData, after, before.userData, txTimestamp)]

withdrawCollateralTx ==
  /\ action.reserve \in Collaterals
  /\ withdrawCollateral(action.user, action.reserve, action.amount)
  /\ Receives(action.user, action.reserve,
              yearnWithdraw(action.reserve, cash[action.reserve] - cash'[action.reserve]))
  /\ UNCHANGED approvals

withdrawCollateralExpected ==
  LET after == C!calcExpectedReserveDataAfterWithdrawCollateral(action.amount,
                 before.reserveData, dataNow.reserveData, before.userData, txTimestamp)
  IN  [reserveData |-> after,
       userData |-> C!calcExpectedUserDataAfterWithdrawCollateral(action.amount,
                      before.reserveData, after, before.userData, txTimestamp)]

\* The looser comparisons: some quantities only may not fall short by much.
liquidityKeys == {"totalLiquidity", "availableLiquidity"}
balanceKeys == {"scaledATokenBalance", "currentATokenBalance"}

depositCollateralReserveMatches(actual, expected) ==
  /\ almostEqualOrEqual(expected, actual, DOMAIN actual \ liquidityKeys)
  /\ NotAbove(expected, actual, liquidityKeys, ReserveTolerance)

depositCollateralUserMatches(actual, expected) ==
  /\ almostEqualOrEqual(expected, actual, DOMAIN actual \ balanceKeys)
  /\ NotAbove(expected, actual, balanceKeys, UserTolerance)

withdrawCollateralUserMatches(actual, expected) ==
  /\ almostEqualOrEqual(expected, actual, DOMAIN actual \ {"walletBalance"})
  /\ actual.walletBalance - expected.walletBalance <= UserTolerance
=============================================================================

----------------------------- MODULE TestActions -----------------------------
(***************************************************************************)
(* The actions a story can name (test-sturdy/helpers/actions.ts).  Of each *)
(* function, ...Tx is the transaction it sends, enabled when the pool      *)
(* accepts it, and ...Expected what it compares the data read afterwards   *)
(* with.  The collateral is stETH through LidoVault: a share is worth one. *)
(***************************************************************************)
EXTENDS TestHarness

C == INSTANCE TestCalculations WITH ONE_YEAR <- SECONDS_PER_YEAR, MAX_UINT_AMOUNT <- MAX_UINT

\* From an account that holds plenty of the token.
mintTx ==
  /\ Receives(action.user, action.reserve, action.amount)
  /\ UNCHANGED <<vars, approvals>>

approveTx ==
  /\ approvals' = approvals \cup {<<action.user, action.reserve, "pool">>}
  /\ UNCHANGED <<vars, wallet>>

approveVaultTx ==
  /\ approvals' = approvals \cup {<<action.user, action.reserve, "vault">>}
  /\ UNCHANGED <<vars, wallet>>

\* onBehalfOf stands for the delegatee.
delegateBorrowAllowanceTx ==
  /\ approveDelegation(action.user, action.onBehalfOf, action.reserve, action.amount)
  /\ UNCHANGED <<wallet, approvals>>
-----------------------------------------------------------------------------
depositTx ==
  /\ action.reserve \in Debts
  /\ deposit(action.onBehalfOf, action.reserve, action.amount)
  /\ Spends(action.user, action.reserve, "pool", action.amount)
  /\ UNCHANGED approvals

depositExpected ==
  LET after == C!calcExpectedReserveDataAfterDeposit(action.amount, before.reserveData,
                                                     txTimestamp)
  IN  [reserveData |-> after,
       userData |-> C!calcExpectedUserDataAfterDeposit(action.amount, before.reserveData, after,
                                                       before.userData, txTimestamp)]

\* The vault deposits for the sender, whomever the action names.
depositCollateralTx ==
  /\ action.reserve \in Collaterals
  /\ depositCollateral(action.user, action.reserve, action.amount)
  /\ Spends(action.user, action.reserve, "vault", action.amount)
  /\ UNCHANGED approvals

depositCollateralExpected == depositExpected

withdrawTx ==
  /\ action.reserve \in Debts
  /\ withdraw(action.user, action.reserve, action.amount)
  /\ Receives(action.user, action.reserve, cash[action.reserve] - cash'[action.reserve])
  /\ UNCHANGED approvals

withdrawExpected ==
  LET after == C!calcExpectedReserveDataAfterWithdraw(action.amount, before.reserveData,
                                                      before.userData, txTimestamp)
  IN  [reserveData |-> after,
       userData |-> C!calcExpectedUserDataAfterWithdraw(action.amount, before.reserveData, after,
                                                        before.userData, txTimestamp)]

withdrawCollateralTx ==
  /\ action.reserve \in Collaterals
  /\ withdrawCollateral(action.user, action.reserve, action.amount)
  /\ Receives(action.user, action.reserve, cash[action.reserve] - cash'[action.reserve])
  /\ UNCHANGED approvals

withdrawCollateralExpected == withdrawExpected

\* The pool takes no rate mode but the variable one.
borrowTx ==
  /\ action.reserve \in Debts
  /\ action.rateMode = "variable"
  /\ borrow(action.user, action.onBehalfOf, action.reserve, action.amount)
  /\ Receives(action.user, action.reserve, action.amount)
  /\ UNCHANGED approvals

borrowExpected ==
  LET after == C!calcExpectedReserveDataAfterBorrow(action.amount, before.reserveData,
                                                    txTimestamp, now)
  IN  [reserveData |-> after,
       userData |-> C!calcExpectedUserDataAfterBorrow(action.amount, after, before.userData, now)]

repayTx ==
  /\ action.reserve \in Debts
  /\ action.rateMode = "variable"
  /\ repay(action.user, action.onBehalfOf, action.reserve, action.amount)
  /\ Spends(action.user, action.reserve, "pool", cash'[action.reserve] - cash[action.reserve])
  /\ UNCHANGED approvals

repayExpected ==
  LET after == C!calcExpectedReserveDataAfterRepay(action.amount, before.reserveData,
                                                   before.userData, txTimestamp)
  IN  [reserveData |-> after,
       userData |-> C!calcExpectedUserDataAfterRepay(action.amount, before.reserveData, after,
                      before.userData, action.user = action.onBehalfOf, txTimestamp, now)]

setUseAsCollateralTx ==
  /\ setUserUseReserveAsCollateral(action.user, action.reserve, action.useAsCollateral)
  /\ UNCHANGED <<wallet, approvals>>

\* Only the user's data is compared.
setUseAsCollateralExpected ==
  [reserveData |-> dataNow.reserveData,
   userData |-> C!calcExpectedUserDataAfterSetUseAsCollateral(action.useAsCollateral,
                                                              before.userData)]
=============================================================================

------------------------- MODULE ScenarioProperties -------------------------
(* When a scenario suite may be trusted. *)
EXTENDS ScenarioEngine

\* What the predictions do not foresee: a deposit takes the total liquidity,
\* and setUseAsCollateral everything, as read before the transaction, without
\* the interest earned since; a repayment is taken to be no more than the debt.
Foreseen ==
  /\ action.name \in {"deposit", "setUseAsCollateral"} =>
       dataNow.reserveData.totalVariableDebt = before.reserveData.totalVariableDebt
  /\ action.name = "repay" =>
       \/ action.amount = MAX_UINT
       \/ action.amount <= before.userData.currentVariableDebt

\* Nor what a depositor owes: a deposit predicts the variable debt as the
\* principal of the stable debt too (calculations.ts:96-101), which the pool
\* keeps at 0.  Everything else must still be right for a borrower who deposits.
BorrowersDeposit ==
  /\ action.name = "deposit" /\ before.userData.scaledVariableDebt > 0
  /\ almostEqualOrEqual(prediction.userData, dataNow.userData,
                        DOMAIN dataNow.userData \ {"principalStableDebt"})

\* ReservePredicted: the suites' own account of the interest logic agrees with
\* the pool on liquidity, debt, utilization, rates and indexes of the reserve,
\* after any stories and with any time between the reads and the transaction.
ReservePredicted ==
  phase = "predicted" /\ Foreseen => ReserveMatches

\* UserPredicted: the same for the user's scaled and current balances, debts,
\* collateral flag and wallet; a borrower's deposit but for the stable principal.
UserPredicted ==
  phase = "predicted" /\ Foreseen => UserMatches \/ BorrowersDeposit

\* NegativesRefused: a call a story expects the pool to refuse is refused, if
\* the story gets that far, whatever was played before.
NegativesRefused ==
  phase = "failed" => action.expected # "revert"
=============================================================================

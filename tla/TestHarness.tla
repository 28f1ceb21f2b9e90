---------------------------- MODULE TestHarness ----------------------------
(***************************************************************************)
(* A scenario suite at work on the pool: its environment, what it reads    *)
(* and what it is in the middle of.  An action of a story reads the data   *)
(* of a reserve and a user, sends one transaction, reads the data again    *)
(* and compares it with the prediction.  The node mines a block for every  *)
(* transaction and answers reads at the time of the last block, so time    *)
(* passes between the first read and the transaction, and a borrow may     *)
(* travel in time before the second read; nothing else runs in between.    *)
(***************************************************************************)
EXTENDS LendingPool

CONSTANTS
  Stories,            \* sequences of actions, as the scenario files list them
  MaxStories,         \* bound on the stories played
  ReserveTolerance,   \* 10000: how far a collateral's liquidity may be off (test-ftm)
  UserTolerance       \* 1000: how far a user's collateral balances may be off (test-ftm)

Suites == {"sturdy", "ftm"}

VARIABLES
  suite,        \* which of the two suites runs
  stories,      \* stories begun
  story,        \* actions of the current one not begun yet
  phase,        \* where the current action is: idle, read, mined, predicted or failed
  action,       \* args and expected result of the current action
  before,       \* reserveDataBefore and userDataBefore
  prediction,   \* the data calculated for after it
  txTimestamp,  \* of the block that mined its transaction
  wallet,       \* token balances of the users
  approvals     \* <<user, reserve, spender>>: pool or vault may spend the user's token

harnessVars == <<suite, stories, story, phase, action, before, prediction, txTimestamp,
                 wallet, approvals>>

Nothing == [name |-> "none"]

\* The market configuration the reserves were deployed from.
reservesParams ==
  [r \in Reserves |->
     [optimalUtilizationRate |-> Strategy[r].optimal,
      baseVariableBorrowRate |-> Strategy[r].base,
      variableRateSlope1     |-> Strategy[r].slope1,
      variableRateSlope2     |-> Strategy[r].slope2,
      reserveFactor          |-> Config[r].reserveFactor,
      collateralEnabled      |-> r \in Collaterals]]
-----------------------------------------------------------------------------
(* Reading: SturdyProtocolDataProvider and the tokens *)

\* A collateral has no interest; its index is the price per share of its vault.
providerReserveData(r) ==
  IF r \in Collaterals
  THEN [liquidityIndex |-> pricePerShare[r], variableBorrowIndex |-> RAY,
        currentLiquidityRate |-> 0, currentVariableBorrowRate |-> 0, lastUpdateTimestamp |-> 0]
  ELSE reserve[r]

getReserveData(r) ==
  LET data           == providerReserveData(r)
      scaled         == IF r \in Debts THEN debtSupply[r] ELSE 0
      totalDebt      == IF r \in Debts THEN rayMul(scaled, normalizedDebt(r)) ELSE 0
      totalLiquidity == cash[r] + totalDebt
  IN  [symbol              |-> r,
       totalLiquidity      |-> totalLiquidity,
       utilizationRate     |-> IF totalLiquidity = 0 THEN 0 ELSE rayDiv(totalDebt, totalLiquidity),
       availableLiquidity  |-> cash[r],
       totalVariableDebt   |-> totalDebt,
       liquidityRate       |-> data.currentLiquidityRate,
       variableBorrowRate  |-> data.currentVariableBorrowRate,
       liquidityIndex      |-> data.liquidityIndex,
       variableBorrowIndex |-> data.variableBorrowIndex,
       lastUpdateTimestamp |-> data.lastUpdateTimestamp,
       scaledVariableDebt  |-> scaled]

getUserData(r, u, sender) ==
  [scaledATokenBalance      |-> aBalance[r][u],
   currentATokenBalance     |-> balanceOf(r, u, aBalance),
   currentVariableDebt      |-> IF r \in Debts THEN debtBalanceOf(r, u) ELSE 0,
   scaledVariableDebt       |-> IF r \in Debts THEN debtBalance[r][u] ELSE 0,
   principalStableDebt      |-> 0,
   liquidityRate            |-> providerReserveData(r).currentLiquidityRate,
   usageAsCollateralEnabled |-> r \in usingAsCollateral[u],
   walletBalance            |-> wallet[r][sender]]

getContractsData(r, u, sender) ==
  [reserveData |-> getReserveData(r), userData |-> getUserData(r, u, sender)]

\* Whose wallet an action looks at: the sender's, except that repay reads the
\* borrower's.
walletOf(a) == IF a.name = "repay" THEN a.onBehalfOf ELSE a.user

dataNow == getContractsData(action.reserve, action.onBehalfOf, walletOf(action))
-----------------------------------------------------------------------------
(* Comparing *)

Close(actual, expected) == actual - expected \in -3..3

accessory == {"lastUpdateTimestamp", "symbol"}

\* almostEqualOrEqual: every number within 3, everything else equal.
almostEqualOrEqual(expected, actual, keys) ==
  \A key \in keys \ accessory :
    IF key = "usageAsCollateralEnabled" THEN actual[key] = expected[key]
    ELSE Close(actual[key], expected[key])

expectEqual(actual, expected) == almostEqualOrEqual(expected, actual, DOMAIN actual)

NotAbove(expected, actual, keys, tolerance) ==
  \A key \in keys : expected[key] - actual[key] <= tolerance
-----------------------------------------------------------------------------
(* Moving tokens between a wallet and the pool *)

\* spender takes amount of r's token from u, who must have approved it.
Spends(u, r, spender, amount) ==
  /\ <<u, r, spender>> \in approvals
  /\ wallet[r][u] >= amount
  /\ wallet' = [wallet EXCEPT ![r][u] = @ - amount]

Receives(u, r, amount) == wallet' = [wallet EXCEPT ![r][u] = @ + amount]
=============================================================================

------------------------ MODULE LendingPoolProperties ------------------------
(* What LendingPool promises its users, over any sequence of calls. *)
EXTENDS LendingPool

CONSTANTS SolvencySlack, BackingSlack   \* rounding, in units of the asset

ASSUME SlackAssumption == SolvencySlack \in Nat /\ BackingSlack \in Nat

\* Whoever owes scaled debt carries the borrowing bit of that reserve.  Health
\* factors only count reserves whose bit is set, so a debt without its bit
\* (repay clears it from a view, burns at a stored index) would be invisible.
NoHiddenDebt ==
  \A u \in Users, d \in Debts : debtBalance[d][u] # 0 => d \in borrowing[u]

\* Accrual is well founded: indexes are at least one ray and no reserve was
\* updated in the future.  With the type invariant this makes NoHiddenDebt
\* inductive: the index a debt is burned at never exceeds the one it is read at.
IndexesSound ==
  \A d \in Debts :
    /\ reserve[d].liquidityIndex >= RAY
    /\ reserve[d].variableBorrowIndex >= RAY
    /\ reserve[d].lastUpdateTimestamp <= now

IInv == TypeOK /\ IndexesSound /\ NoHiddenDebt

\* _totalSupply of each token is the sum of its _balances.
SupplyIsSumOfBalances ==
  /\ \A r \in Reserves : aSupply[r] = SumFunctionOnSet(aBalance[r], Accounts)
  /\ \A d \in Debts : debtSupply[d] = SumFunctionOnSet(debtBalance[d], Users)

\* What suppliers may claim is covered by liquidity and by what borrowers owe.
ReserveSolvent ==
  \A d \in Debts :
    totalSupply(d) <= cash[d] + rayMul(debtSupply[d], normalizedDebt(d)) + SolvencySlack

\* The aToken of a collateral holds the internal asset its supply stands for.
CollateralBacked ==
  \A c \in Collaterals :
    aSupply[c] <= rayMul((cash[c] + BackingSlack) * Config[c].scale, pricePerShare[c])

EmptyingStep ==
  \A u \in Users, c \in Collaterals :
    aBalance[c][u] # 0 /\ aBalance'[c][u] = 0 => c \notin usingAsCollateral'[u]

\* Whatever empties an account's collateral (withdrawal, transfer, liquidation
\* in aTokens or in the asset) also clears its collateral bit.
EmptiedCollateralIsUnmarked == [][EmptyingStep]_vars

\* Indexes and time stamps never go back.
IndexStep ==
  \A d \in Debts :
    /\ reserve'[d].liquidityIndex >= reserve[d].liquidityIndex
    /\ reserve'[d].variableBorrowIndex >= reserve[d].variableBorrowIndex
    /\ reserve'[d].lastUpdateTimestamp \in reserve[d].lastUpdateTimestamp..now'

IndexesNeverFall == [][IndexStep]_vars

\* A transaction does not touch what bystanders own or owe: if neither time nor
\* u's scaled balance moves, u's debt stays the same and u's deposit does not shrink.
BystanderStep ==
  now' = now =>
    \A u \in Users, d \in Debts :
      /\ debtBalance'[d][u] = debtBalance[d][u] => debtBalanceOf(d, u)' = debtBalanceOf(d, u)
      /\ aBalance'[d][u] = aBalance[d][u]
           => balanceOf(d, u, aBalance)' >= balanceOf(d, u, aBalance)

BystandersUnaffected == [][BystanderStep]_vars

Worsened(u) ==
  \/ \E d \in Debts : debtBalance'[d][u] > debtBalance[d][u]
  \/ \E c \in usingAsCollateral[u] :
       c \notin usingAsCollateral'[u] \/ aBalance'[c][u] < aBalance[c][u]

DebtReduced(u) == \E d \in Debts : debtBalance'[d][u] < debtBalance[d][u]

\* A borrow, withdrawal, transfer or opt-out leaves its account healthy; only a
\* liquidation, which pays debt, may take collateral from an unhealthy one.
HealthPreserved ==
  [][\A u \in Users :
       Worsened(u) /\ ~DebtReduced(u)
         => calculateUserAccountData(u, aBalance)'.healthFactor >= WAD]_vars

FairStep ==
  \A u \in Users, c \in Collaterals, d \in Debts :
    LET seized == aBalance[c][u] - aBalance'[c][u]
        paid   == cash'[d] - cash[d]
    IN  seized > 0 /\ debtBalance'[d][u] < debtBalance[d][u]
          => /\ calculateUserAccountData(u, aBalance).healthFactor < WAD
             /\ 2 * paid <= debtBalanceOf(d, u) + 1
             /\ InETH(c, seized)
                  <= percentMul(InETH(d, paid + 2) + 1, Config[c].liquidationBonus)

\* A step that takes collateral of u against u's debt: u was unhealthy, at most
\* half of the debt is paid and the seized value is the payment plus the bonus,
\* up to the two units of debt and the unit of value the divisions may drop.
LiquidationIsFair == [][FairStep]_vars

BrakedStep ==
  /\ paused => UNCHANGED <<aBalance, cash, debtBalance, usingAsCollateral, borrowing>>
  /\ \A d \in Debts \cap frozen : debtSupply'[d] <= debtSupply[d]
  /\ \A r \in frozen, u \in Users :
       aBalance'[r][u] > aBalance[r][u] => cash'[r] = cash[r]

\* The emergency brakes: a paused pool moves no token and no bit; a frozen
\* reserve takes no new deposit and no new debt, yet can still be wound down.
BrakesHold == [][BrakedStep]_vars
=============================================================================

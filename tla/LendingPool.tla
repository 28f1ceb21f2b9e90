----------------------------- MODULE LendingPool -----------------------------
(***************************************************************************)
(* The operations of LendingPool with the libraries, tokens and collateral *)
(* manager they call.  A transaction is atomic: an action is one external  *)
(* call, enabled exactly when the call does not revert.                    *)
(*                                                                         *)
(* Checks that only ever refuse a call and read nothing modelled here (the *)
(* freshness test of the oracle in _validateOracle, the 99% slippage test  *)
(* of the vault after a liquidation, the sender's own token balance) are   *)
(* not guards: a call they refuse is a call that is not made.              *)
(***************************************************************************)
EXTENDS LendingPoolStorage

CONSTANTS
  Amounts,   \* per operation, the amounts callers pass besides MAX_UINT
  Prices,    \* answers of the oracle, for every reserve
  PPS,       \* later prices per share of a vault, for every collateral
  Calls,     \* the calls without an amount that are made in the instance
  MaxTime,   \* bound on block.timestamp
  MaxIndex   \* bound on the liquidity index a deposited yield may lead to

AmountOf == {"deposit", "withdraw", "yield", "collateral", "withdrawCollateral", "borrow",
             "repay", "delegate", "transfer", "cover"}

ASSUME PoolAssumption ==
  /\ Amounts \in [AmountOf -> SUBSET Nat]
  /\ Prices \in [Reserves -> SUBSET (Nat \ {0})]
  /\ PPS \in [Collaterals -> SUBSET Nat]
  /\ Calls \subseteq {"setPause", "setReserveFreeze", "setUserUseReserveAsCollateral"}
  /\ MaxTime \in Nat
  /\ MaxIndex \in Nat
  /\ \A c \in Collaterals : RAY \div Config[c].scale # 0

Init ==
  /\ now = 0
  /\ paused = FALSE
  /\ frozen = {}
  /\ reserve = [d \in Debts |-> initReserveData]
  /\ usingAsCollateral = [u \in Users |-> {}]
  /\ borrowing = [u \in Users |-> {}]
  /\ aBalance = [r \in Reserves |-> [a \in Accounts |-> 0]]
  /\ aSupply = [r \in Reserves |-> 0]
  /\ cash = [r \in Reserves |-> 0]
  /\ debtBalance = [d \in Debts |-> [u \in Users |-> 0]]
  /\ debtSupply = [d \in Debts |-> 0]
  /\ borrowAllowance = [d \in Debts |-> [u \in Users |-> [v \in Users |-> 0]]]
  /\ price \in {p \in [Reserves -> UNION {Prices[r] : r \in Reserves}] :
                  \A r \in Reserves : p[r] \in Prices[r]}
  /\ pricePerShare = [c \in Collaterals |-> RAY \div Config[c].scale]
-----------------------------------------------------------------------------
\* Mutant: the modifier is missing.
neverPaused == TRUE

whenNotPaused == ~paused

(* Accrual.  deposit, withdraw, borrow and repay skip it when the strategy *)
(* has no rates (always = FALSE); depositYield and liquidationCall do not. *)

Accrues(d, always) == always \/ ~isInterestRateNotAvailable(Strategy[d])

\* updateState: the reserve and the scaled aTokens minted to the treasury.
accruedReserve(d, always) ==
  IF Accrues(d, always) THEN updateIndexes(reserve[d], debtSupply[d], now) ELSE reserve[d]

treasuryMint(d, always) ==
  IF Accrues(d, always)
  THEN mintToTreasury(reserve[d], accruedReserve(d, always), debtSupply[d],
                      Config[d].reserveFactor)
  ELSE 0

\* updateInterestRates with the liquidity and the scaled debt after the call.
withRates(d, always, r, liquidity, scaledDebt) ==
  IF Accrues(d, always)
  THEN updateInterestRates(r, Strategy[d], liquidity, scaledDebt, Config[d].reserveFactor)
  ELSE r

\* Mutant: forgets the treasury's balance.
aTokensWithoutTreasury(d, always, u, balance) == [aBalance EXCEPT ![d][u] = balance]

\* The mint to the treasury of an operation that leaves u's aTokens of d at
\* balance and the others' alone.
aTokensOf(d, always, u, balance) ==
  [aBalance EXCEPT ![d][Treasury] = @ + treasuryMint(d, always), ![d][u] = balance]

treasuryAccrues(d, always) ==
  /\ aBalance' = [aBalance EXCEPT ![d][Treasury] = @ + treasuryMint(d, always)]
  /\ aSupply' = [aSupply EXCEPT ![d] = @ + treasuryMint(d, always)]

\* Mutant: the bit is never cleared.
setUsingAsCollateralOnly(u, r, use) ==
  [usingAsCollateral EXCEPT ![u] = IF use THEN @ \cup {r} ELSE @]

setUsingAsCollateral(u, r, use) ==
  [usingAsCollateral EXCEPT ![u] = IF use THEN @ \cup {r} ELSE @ \ {r}]

WithinCapacity(r, amount) ==
  Strategy[r].capacity = 0 \/ totalSupply(r) + amount <= Strategy[r].capacity
-----------------------------------------------------------------------------
(* Suppliers of a debt asset *)

deposit(u, d, amount) ==
  LET r        == accruedReserve(d, FALSE)
      scaled   == rayDiv(amount, r.liquidityIndex)
  IN  /\ whenNotPaused
      /\ amount # 0
      /\ d \notin frozen
      /\ WithinCapacity(d, amount)
      /\ scaled # 0
      /\ reserve' = [reserve EXCEPT ![d] =
                       withRates(d, FALSE, r, cash[d] + amount, debtSupply[d])]
      /\ cash' = [cash EXCEPT ![d] = @ + amount]
      /\ aBalance' = aTokensOf(d, FALSE, u, aBalance[d][u] + scaled)
      /\ aSupply' = [aSupply EXCEPT ![d] = @ + treasuryMint(d, FALSE) + scaled]
      /\ usingAsCollateral' = IF aBalance[d][u] = 0 THEN setUsingAsCollateral(u, d, FALSE)
                              ELSE usingAsCollateral
      /\ UNCHANGED <<now, paused, frozen, borrowing, debtBalance, debtSupply,
                     borrowAllowance, price, pricePerShare>>

withdraw(u, d, asked) ==
  LET userBalance == balanceOf(d, u, aBalance)
      amount      == IF asked = MAX_UINT THEN userBalance ELSE asked
      r           == accruedReserve(d, FALSE)
      scaled      == rayDiv(amount, r.liquidityIndex)
  IN  /\ whenNotPaused
      /\ amount # 0
      /\ amount <= userBalance
      /\ balanceDecreaseAllowed(d, u, amount)
      /\ scaled # 0
      /\ scaled <= aBalance[d][u] /\ scaled <= aSupply[d]
      /\ amount <= cash[d]
      /\ reserve' = [reserve EXCEPT ![d] =
                       withRates(d, FALSE, r, cash[d] - amount, debtSupply[d])]
      /\ cash' = [cash EXCEPT ![d] = @ - amount]
      /\ aBalance' = aTokensOf(d, FALSE, u, aBalance[d][u] - scaled)
      /\ aSupply' = [aSupply EXCEPT ![d] = @ + treasuryMint(d, FALSE) - scaled]
      /\ usingAsCollateral' = IF amount = userBalance THEN setUsingAsCollateral(u, d, FALSE)
                              ELSE usingAsCollateral
      /\ UNCHANGED <<now, paused, frozen, borrowing, debtBalance, debtSupply,
                     borrowAllowance, price, pricePerShare>>

\* A registered vault (YieldManager) hands yield to everybody who supplied d;
\* the division by the total supply reverts when nobody has.
depositYield(d, amount) ==
  LET r           == accruedReserve(d, TRUE)
      totalAmount == rayMul(aSupply[d] + treasuryMint(d, TRUE), r.liquidityIndex)
      cumulated   == cumulateToLiquidityIndex(r, totalAmount, amount)
  IN  /\ whenNotPaused
      /\ totalAmount # 0
      /\ amount <= totalAmount /\ cumulated.liquidityIndex <= MaxIndex   \* bound
      /\ reserve' = [reserve EXCEPT ![d] =
                       withRates(d, TRUE, cumulated, cash[d] + amount, debtSupply[d])]
      /\ cash' = [cash EXCEPT ![d] = @ + amount]
      /\ treasuryAccrues(d, TRUE)
      /\ UNCHANGED <<now, paused, frozen, usingAsCollateral, borrowing, debtBalance,
                     debtSupply, borrowAllowance, price, pricePerShare>>
-----------------------------------------------------------------------------
(* Collateral, through its vault *)

\* The vault deposits share units of the internal asset on behalf of u.
depositCollateral(u, c, share) ==
  LET amount == rayMul(share * Config[c].scale, pricePerShare[c])
  IN  /\ whenNotPaused
      /\ share # 0
      /\ c \notin frozen
      /\ WithinCapacity(c, amount)
      /\ amount # 0
      /\ cash' = [cash EXCEPT ![c] = @ + share]
      /\ aBalance' = [aBalance EXCEPT ![c][u] = @ + amount]
      /\ aSupply' = [aSupply EXCEPT ![c] = @ + amount]
      /\ usingAsCollateral' = IF aBalance[c][u] = 0 THEN setUsingAsCollateral(u, c, TRUE)
                              ELSE usingAsCollateral
      /\ UNCHANGED <<now, paused, frozen, reserve, borrowing, debtBalance, debtSupply,
                     borrowAllowance, price, pricePerShare>>

\* Mutant: one share for one unit, whatever the share is worth.
shareAtFace(c, amount) == amount

\* Internal asset that amount aTokens of a collateral stand for.
shareOf(c, amount) == rayDiv(amount, pricePerShare[c]) \div Config[c].scale

\* withdrawFrom, called by the vault of c for u.
withdrawCollateral(u, c, asked) ==
  LET userBalance == aBalance[c][u]
      amount      == IF asked = MAX_UINT THEN userBalance ELSE asked
  IN  /\ whenNotPaused
      /\ amount # 0
      /\ amount <= userBalance /\ amount <= aSupply[c]
      /\ balanceDecreaseAllowed(c, u, amount)
      /\ shareOf(c, amount) # 0
      /\ shareOf(c, amount) <= cash[c]
      /\ cash' = [cash EXCEPT ![c] = @ - shareOf(c, amount)]
      /\ aBalance' = [aBalance EXCEPT ![c][u] = @ - amount]
      /\ aSupply' = [aSupply EXCEPT ![c] = @ - amount]
      /\ usingAsCollateral' = IF amount = userBalance THEN setUsingAsCollateral(u, c, FALSE)
                              ELSE usingAsCollateral
      /\ UNCHANGED <<now, paused, frozen, reserve, borrowing, debtBalance, debtSupply,
                     borrowAllowance, price, pricePerShare>>

\* GeneralVault._getYield: what the aToken holds beyond what it owes leaves
\* the pool as yield (getTotalBalanceOfAssetPair, then getYield).
getYield(c) ==
  /\ whenNotPaused
  /\ cash[c] > shareOf(c, aSupply[c])
  /\ cash' = [cash EXCEPT ![c] = shareOf(c, aSupply[c])]
  /\ UNCHANGED <<now, paused, frozen, reserve, usingAsCollateral, borrowing, aBalance,
                 aSupply, debtBalance, debtSupply, borrowAllowance, price, pricePerShare>>
-----------------------------------------------------------------------------
(* Borrowers *)

\* Collateral, health and loan to value; a zero loan to value divides by zero.
validateBorrow(u, d, amount) ==
  LET data == calculateUserAccountData(u, aBalance)
  IN  /\ amount # 0
      /\ d \notin frozen
      /\ data.totalCollateral # 0
      /\ data.healthFactor > WAD
      /\ data.ltv # 0
      /\ percentDiv(data.totalDebt + InETH(d, amount), data.ltv) <= data.totalCollateral

\* caller receives the loan; the debt is u's, whose delegation it consumes.
borrow(caller, u, d, amount) ==
  LET r      == accruedReserve(d, FALSE)
      scaled == rayDiv(amount, r.variableBorrowIndex)
  IN  /\ whenNotPaused
      /\ validateBorrow(u, d, amount)
      /\ caller # u => amount <= borrowAllowance[d][u][caller]
      /\ scaled # 0
      /\ amount <= cash[d]
      /\ borrowAllowance' = IF caller = u THEN borrowAllowance
                            ELSE [borrowAllowance EXCEPT ![d][u][caller] = @ - amount]
      /\ debtBalance' = [debtBalance EXCEPT ![d][u] = @ + scaled]
      /\ debtSupply' = [debtSupply EXCEPT ![d] = @ + scaled]
      /\ borrowing' = IF debtBalance[d][u] = 0 THEN [borrowing EXCEPT ![u] = @ \cup {d}]
                      ELSE borrowing
      /\ reserve' = [reserve EXCEPT ![d] =
                       withRates(d, FALSE, r, cash[d] - amount, debtSupply[d] + scaled)]
      /\ cash' = [cash EXCEPT ![d] = @ - amount]
      /\ treasuryAccrues(d, FALSE)
      /\ UNCHANGED <<now, paused, frozen, usingAsCollateral, price, pricePerShare>>

\* The debt is read at the normalized index before updateState and burned at
\* the stored index after it.
repay(caller, u, d, amount) ==
  LET variableDebt == debtBalanceOf(d, u)
      payback      == IF amount < variableDebt THEN amount ELSE variableDebt
      r            == accruedReserve(d, FALSE)
      scaled       == rayDiv(payback, r.variableBorrowIndex)
  IN  /\ whenNotPaused
      /\ amount # 0
      /\ variableDebt # 0
      /\ amount = MAX_UINT => caller = u
      /\ scaled # 0
      /\ scaled <= debtBalance[d][u] /\ scaled <= debtSupply[d]
      /\ debtBalance' = [debtBalance EXCEPT ![d][u] = @ - scaled]
      /\ debtSupply' = [debtSupply EXCEPT ![d] = @ - scaled]
      /\ borrowing' = IF payback = variableDebt THEN [borrowing EXCEPT ![u] = @ \ {d}]
                      ELSE borrowing
      /\ reserve' = [reserve EXCEPT ![d] =
                       withRates(d, FALSE, r, cash[d] + payback, debtSupply[d] - scaled)]
      /\ cash' = [cash EXCEPT ![d] = @ + payback]
      /\ treasuryAccrues(d, FALSE)
      /\ UNCHANGED <<now, paused, frozen, usingAsCollateral, borrowAllowance, price,
                     pricePerShare>>

approveDelegation(u, delegatee, d, amount) ==
  /\ borrowAllowance' = [borrowAllowance EXCEPT ![d][u][delegatee] = amount]
  /\ UNCHANGED <<now, paused, frozen, reserve, usingAsCollateral, borrowing, aBalance,
                 aSupply, cash, debtBalance, debtSupply, price, pricePerShare>>

setUserUseReserveAsCollateral(u, r, use) ==
  LET balance == balanceOf(r, u, aBalance)
  IN  /\ whenNotPaused
      /\ balance # 0
      /\ use => r \in Collaterals
      /\ ~use => balanceDecreaseAllowed(r, u, balance)
      /\ usingAsCollateral' = setUsingAsCollateral(u, r, use)
      /\ UNCHANGED <<now, paused, frozen, reserve, borrowing, aBalance, aSupply, cash,
                     debtBalance, debtSupply, borrowAllowance, price, pricePerShare>>

\* A transfer of aTokens of r; the sender's health is tested on the new
\* balances (finalizeTransfer), with the collateral bits of before.
transfer(from, to, r, amount) ==
  LET scaled     == IF r \in Debts THEN rayDiv(amount, normalizedIncome(r)) ELSE amount
      fromBefore == balanceOf(r, from, aBalance)
      toBefore   == balanceOf(r, to, aBalance)
      moved      == [aBalance EXCEPT ![r][from] = @ - scaled, ![r][to] = @ + scaled]
      cleared    == [usingAsCollateral EXCEPT ![from] =
                       IF amount = fromBefore THEN @ \ {r} ELSE @]
  IN  /\ whenNotPaused
      /\ from # to
      /\ scaled <= aBalance[r][from]
      /\ amount <= fromBefore
      /\ calculateUserAccountData(from, moved).healthFactor >= WAD
      /\ aBalance' = moved
      /\ usingAsCollateral' = [cleared EXCEPT ![to] =
           IF toBefore = 0 /\ amount # 0 /\ r \in Collaterals THEN @ \cup {r} ELSE @]
      /\ UNCHANGED <<now, paused, frozen, reserve, borrowing, aSupply, cash, debtBalance,
                     debtSupply, borrowAllowance, price, pricePerShare>>
-----------------------------------------------------------------------------
(* LendingPoolCollateralManager *)

\* Mutants: the whole debt at once; the seizure not capped by what u has.
WHOLE_DEBT_PERCENT == PERCENTAGE_FACTOR
seizeUncapped(c, d, debtToCover, userCollateral) ==
  <<percentMul(price[d] * debtToCover * Config[c].unit, Config[c].liquidationBonus)
      \div (price[c] * Config[d].unit), debtToCover>>

LIQUIDATION_CLOSE_FACTOR_PERCENT == PERCENTAGE_FACTOR \div 2

\* <<collateral to seize, debt it pays for>> when covering debtToCover.
calculateAvailableCollateralToLiquidate(c, d, debtToCover, userCollateral) ==
  LET bonus      == Config[c].liquidationBonus
      maxAmount  == percentMul(price[d] * debtToCover * Config[c].unit, bonus)
                      \div (price[c] * Config[d].unit)
      debtNeeded == percentDiv((price[c] * userCollateral * Config[d].unit)
                                 \div (price[d] * Config[c].unit), bonus)
  IN  IF maxAmount > userCollateral THEN <<userCollateral, debtNeeded>>
      ELSE <<maxAmount, debtToCover>>

liquidationCall(liquidator, u, c, d, debtToCover, receiveAToken) ==
  LET userCollateral == aBalance[c][u]
      userDebt  == debtBalanceOf(d, u)
      maxDebt   == percentMul(userDebt, LIQUIDATION_CLOSE_FACTOR_PERCENT)
      covered   == IF debtToCover > maxDebt THEN maxDebt ELSE debtToCover
      available == calculateAvailableCollateralToLiquidate(c, d, covered, userCollateral)
      seized    == available[1]
      actual    == IF available[2] < covered THEN available[2] ELSE covered
      r         == accruedReserve(d, TRUE)
      scaled    == rayDiv(actual, r.variableBorrowIndex)
      minted    == [aBalance EXCEPT ![d][Treasury] = @ + treasuryMint(d, TRUE)]
      taken     == [minted EXCEPT ![c][u] = @ - seized]
      flagged   == IF receiveAToken /\ aBalance[c][liquidator] = 0
                   THEN setUsingAsCollateral(liquidator, c, TRUE) ELSE usingAsCollateral
  IN  /\ whenNotPaused
      /\ calculateUserAccountData(u, aBalance).healthFactor < WAD
      /\ Config[c].liquidationThreshold # 0
      /\ c \in usingAsCollateral[u]
      /\ userDebt # 0
      /\ scaled # 0
      /\ scaled <= debtBalance[d][u] /\ scaled <= debtSupply[d]
      /\ debtBalance' = [debtBalance EXCEPT ![d][u] = @ - scaled]
      /\ debtSupply' = [debtSupply EXCEPT ![d] = @ - scaled]
      /\ reserve' = [reserve EXCEPT ![d] =
                       withRates(d, TRUE, r, cash[d] + actual, debtSupply[d] - scaled)]
      /\ \/ /\ receiveAToken
            /\ aBalance' = [taken EXCEPT ![c][liquidator] = @ + seized]
            /\ aSupply' = [aSupply EXCEPT ![d] = @ + treasuryMint(d, TRUE)]
            /\ cash' = [cash EXCEPT ![d] = @ + actual]
         \/ /\ ~receiveAToken
            /\ seized <= cash[c] /\ seized <= aSupply[c]
            /\ shareOf(c, seized) # 0
            /\ shareOf(c, seized) <= cash[c]
            /\ aBalance' = taken
            /\ aSupply' = [aSupply EXCEPT ![d] = @ + treasuryMint(d, TRUE), ![c] = @ - seized]
            /\ cash' = [cash EXCEPT ![d] = @ + actual, ![c] = @ - shareOf(c, seized)]
      /\ usingAsCollateral' = [flagged EXCEPT ![u] =
                                 IF seized = userCollateral THEN @ \ {c} ELSE @]
      /\ UNCHANGED <<now, paused, frozen, borrowing, borrowAllowance, price, pricePerShare>>
-----------------------------------------------------------------------------
(* Administration, and what the pool reads from outside *)

setPause(val) ==
  /\ paused # val
  /\ paused' = val
  /\ UNCHANGED <<now, frozen, reserve, usingAsCollateral, borrowing, aBalance, aSupply,
                 cash, debtBalance, debtSupply, borrowAllowance, price, pricePerShare>>

setReserveFreeze(r, val) ==
  /\ (r \in frozen) # val
  /\ frozen' = IF val THEN frozen \cup {r} ELSE frozen \ {r}
  /\ UNCHANGED <<now, paused, reserve, usingAsCollateral, borrowing, aBalance, aSupply,
                 cash, debtBalance, debtSupply, borrowAllowance, price, pricePerShare>>

AdvanceTime ==
  /\ now < MaxTime
  /\ now' = now + 1
  /\ UNCHANGED <<paused, frozen, reserve, usingAsCollateral, borrowing, aBalance, aSupply,
                 cash, debtBalance, debtSupply, borrowAllowance, price, pricePerShare>>

OracleUpdate(r, p) ==
  /\ price[r] # p
  /\ price' = [price EXCEPT ![r] = p]
  /\ UNCHANGED <<now, paused, frozen, reserve, usingAsCollateral, borrowing, aBalance,
                 aSupply, cash, debtBalance, debtSupply, borrowAllowance, pricePerShare>>

\* The strategy behind a vault earns: a share of the internal asset is worth more.
VaultEarns(c, p) ==
  /\ pricePerShare[c] < p
  /\ pricePerShare' = [pricePerShare EXCEPT ![c] = p]
  /\ UNCHANGED <<now, paused, frozen, reserve, usingAsCollateral, borrowing, aBalance,
                 aSupply, cash, debtBalance, debtSupply, borrowAllowance, price>>

Next ==
  \/ \E u \in Users, d \in Debts, amount \in Amounts.deposit : deposit(u, d, amount)
  \/ \E u \in Users, d \in Debts, amount \in Amounts.withdraw \cup {MAX_UINT} :
        withdraw(u, d, amount)
  \/ \E d \in Debts, amount \in Amounts.yield : depositYield(d, amount)
  \/ \E u \in Users, c \in Collaterals, share \in Amounts.collateral :
        depositCollateral(u, c, share)
  \/ \E u \in Users, c \in Collaterals, amount \in Amounts.withdrawCollateral \cup {MAX_UINT} :
        withdrawCollateral(u, c, amount)
  \/ \E c \in Collaterals : getYield(c)
  \/ \E caller, u \in Users, d \in Debts, amount \in Amounts.borrow :
        borrow(caller, u, d, amount)
  \/ \E caller, u \in Users, d \in Debts, amount \in Amounts.repay \cup {MAX_UINT} :
        repay(caller, u, d, amount)
  \/ \E u, v \in Users, d \in Debts, amount \in Amounts.delegate :
        approveDelegation(u, v, d, amount)
  \/ "setUserUseReserveAsCollateral" \in Calls
       /\ \E u \in Users, r \in Reserves, use \in BOOLEAN :
             setUserUseReserveAsCollateral(u, r, use)
  \/ \E from, to \in Users, r \in Reserves, amount \in Amounts.transfer :
        transfer(from, to, r, amount)
  \/ \E liquidator, u \in Users, c \in Collaterals, d \in Debts,
        debtToCover \in Amounts.cover \cup {MAX_UINT}, receiveAToken \in BOOLEAN :
        liquidationCall(liquidator, u, c, d, debtToCover, receiveAToken)
  \/ "setPause" \in Calls /\ \E val \in BOOLEAN : setPause(val)
  \/ "setReserveFreeze" \in Calls
       /\ \E r \in Reserves, val \in BOOLEAN : setReserveFreeze(r, val)
  \/ AdvanceTime
  \/ \E r \in Reserves : \E p \in Prices[r] : OracleUpdate(r, p)
  \/ \E c \in Collaterals : \E p \in PPS[c] : VaultEarns(c, p)

Spec == Init /\ [][Next]_vars
=============================================================================

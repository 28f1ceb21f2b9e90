------------------------- MODULE LendingPoolStorage -------------------------
(***************************************************************************)
(* The state LendingPool operates on: the storage of the pool, of its      *)
(* aTokens and variable debt tokens, and what the oracle and the vaults    *)
(* report; with the views over it (balances, GenericLogic).                *)
(*                                                                         *)
(* A reserve is either a collateral (an internal asset of a vault, held    *)
(* through an ATokenForCollateral, with a zero rate strategy, as in every  *)
(* market configuration) or a debt asset (lent and borrowed, held through  *)
(* an AToken).  LendingPoolConfigurator keeps the two apart.               *)
(***************************************************************************)
EXTENDS ReserveLogic, FiniteSetsExt

CONSTANTS
  Users,        \* depositors, borrowers and liquidators
  Treasury,     \* the treasury's account in the aTokens
  Collaterals,  \* reserves of internal collateral assets
  Debts,        \* reserves that can be borrowed
  Config,       \* [ltv, liquidationThreshold, liquidationBonus, reserveFactor, unit, scale]
  Strategy,     \* rate strategy of every reserve (collaterals: the capacity only)
  MAX_UINT      \* type(uint256).max: "everything" as an amount, no debt as a health factor

Reserves == Collaterals \cup Debts
Accounts == Users \cup {Treasury}

\* unit is 10^decimals of the reserve and scale 10^(18 - decimals): a vault
\* reports its price per share with the decimals of its asset, so one ray
\* divided by scale is a price of 1 and ATokenForCollateral multiplies scale in.
ReserveConfig == [ltv: Nat, liquidationThreshold: Nat, liquidationBonus: Nat \ {0},
                  reserveFactor: 0..PERCENTAGE_FACTOR, unit: Nat \ {0}, scale: Nat \ {0}]

RateStrategy == [optimal: 1..(RAY - 1), base: Nat, slope1: Nat, slope2: Nat, capacity: Nat]

ASSUME StorageAssumption ==
  /\ IsFiniteSet(Users)
  /\ Treasury \notin Users
  /\ Collaterals \cap Debts = {}
  /\ Config \in [Reserves -> ReserveConfig]
  /\ Strategy \in [Reserves -> RateStrategy]
  /\ MAX_UINT \in Nat

\* configureReserveAsCollateral: a bonus that is none is refused.
ASSUME BonusAssumption ==
  \A r \in Reserves :
    Config[r].liquidationThreshold # 0 => Config[r].liquidationBonus > PERCENTAGE_FACTOR

VARIABLES
  now,                \* block.timestamp
  paused,             \* LendingPool._paused
  frozen,             \* reserves whose configuration has the frozen bit
  reserve,            \* _reserves of the debt assets
  usingAsCollateral,  \* _usersConfig, collateral bits
  borrowing,          \* _usersConfig, borrowing bits
  aBalance,           \* aToken _balances: scaled for debt assets, plain for collaterals
  aSupply,            \* aToken _totalSupply
  cash,               \* underlying held by the aToken
  debtBalance,        \* variable debt token _balances (scaled)
  debtSupply,         \* variable debt token _totalSupply (scaled)
  borrowAllowance,    \* DebtTokenBase._borrowAllowances
  price,              \* what the oracle answers
  pricePerShare       \* what the vault of a collateral answers, in ray

vars == <<now, paused, frozen, reserve, usingAsCollateral, borrowing, aBalance, aSupply,
          cash, debtBalance, debtSupply, borrowAllowance, price, pricePerShare>>

TypeOK ==
  /\ now \in Nat
  /\ paused \in BOOLEAN
  /\ frozen \in SUBSET Reserves
  /\ reserve \in [Debts -> ReserveData]
  /\ usingAsCollateral \in [Users -> SUBSET Reserves]
  /\ borrowing \in [Users -> SUBSET Reserves]
  /\ aBalance \in [Reserves -> [Accounts -> Nat]]
  /\ aSupply \in [Reserves -> Nat]
  /\ cash \in [Reserves -> Nat]
  /\ debtBalance \in [Debts -> [Users -> Nat]]
  /\ debtSupply \in [Debts -> Nat]
  /\ borrowAllowance \in [Debts -> [Users -> [Users -> Nat]]]
  /\ price \in [Reserves -> Nat \ {0}]
  /\ pricePerShare \in [Collaterals -> Nat \ {0}]
-----------------------------------------------------------------------------
(* Views of the tokens.  bal is the table of aToken balances: validations  *)
(* that run after the tokens moved read the new one.                       *)

normalizedIncome(d) == getNormalizedIncome(reserve[d], now)
normalizedDebt(d) == getNormalizedDebt(reserve[d], now)

balanceOf(r, u, bal) ==
  IF r \in Debts THEN rayMul(bal[r][u], normalizedIncome(r)) ELSE bal[r][u]

totalSupply(r) ==
  IF r \in Debts THEN rayMul(aSupply[r], normalizedIncome(r)) ELSE aSupply[r]

debtBalanceOf(d, u) == rayMul(debtBalance[d][u], normalizedDebt(d))
-----------------------------------------------------------------------------
(* GenericLogic *)

InETH(r, amount) == (price[r] * amount) \div Config[r].unit

calculateHealthFactorFromBalances(totalCollateral, totalDebt, liquidationThreshold) ==
  IF totalDebt = 0 THEN MAX_UINT
  ELSE wadDiv(percentMul(totalCollateral, liquidationThreshold), totalDebt)

calculateUserAccountData(u, bal) ==
  LET counted == {r \in usingAsCollateral[u] : Config[r].liquidationThreshold # 0}
      value(r) == InETH(r, balanceOf(r, u, bal))
      totalCollateral == MapThenSumSet(value, counted)
      average(weight(_)) ==
        IF totalCollateral = 0 THEN 0
        ELSE MapThenSumSet(LAMBDA r : value(r) * weight(r), counted) \div totalCollateral
      totalDebt == MapThenSumSet(LAMBDA d : InETH(d, debtBalanceOf(d, u)),
                                 borrowing[u] \cap Debts)
      threshold == average(LAMBDA r : Config[r].liquidationThreshold)
  IN  [totalCollateral |-> totalCollateral,
       totalDebt       |-> totalDebt,
       ltv             |-> average(LAMBDA r : Config[r].ltv),
       threshold       |-> threshold,
       healthFactor    |-> calculateHealthFactorFromBalances(totalCollateral, totalDebt, threshold)]

\* Mutant: tests the health of now, not the one after the decrease.
balanceDecreaseAllowedBefore(asset, u, amount) ==
  calculateUserAccountData(u, aBalance).healthFactor >= WAD

\* May u give up amount of asset?  The two subtractions of the code revert
\* when they would underflow, which refuses the operation as well.
balanceDecreaseAllowed(asset, u, amount) ==
  LET data      == calculateUserAccountData(u, aBalance)
      threshold == Config[asset].liquidationThreshold
      decrease  == InETH(asset, amount)
      after     == data.totalCollateral - decrease
      weighted  == data.totalCollateral * data.threshold - decrease * threshold
  IN  \/ borrowing[u] = {}
      \/ asset \notin usingAsCollateral[u]
      \/ threshold = 0
      \/ data.totalDebt = 0
      \/ /\ after > 0
         /\ weighted >= 0
         /\ calculateHealthFactorFromBalances(after, data.totalDebt, weighted \div after) >= WAD
=============================================================================

-------------------------- MODULE LendingPoolProofs --------------------------
(***************************************************************************)
(* What the calls of the pool keep, for every set of users and reserves,   *)
(* every configuration and every scale.                                    *)
(*                                                                         *)
(* First the state by itself: types, the visibility of every debt and the  *)
(* monotonicity of the indexes.  Then what the operations do to the        *)
(* tokens: balances add up to supplies, the brakes hold, an emptied        *)
(* collateral is unmarked, bystanders lose nothing, collateral stays       *)
(* backed by what is held for it, and liquidations are fair.               *)
(***************************************************************************)
EXTENDS LendingPoolProperties, WadRayMathProofs

\* The views of a well formed reserve, and the state _updateIndexes leaves: it
\* never lowers an index and never passes the debt index the views announce.
LEMMA UpdateIndexesLemma ==
  ASSUME NEW r \in ReserveData, NEW sd \in Nat, NEW t \in Nat, r.lastUpdateTimestamp <= t
  PROVE  /\ getNormalizedIncome(r, t) \in Nat
         /\ getNormalizedDebt(r, t) \in Nat
         /\ r.variableBorrowIndex <= getNormalizedDebt(r, t)
         /\ updateIndexes(r, sd, t) \in ReserveData
         /\ r.liquidityIndex <= updateIndexes(r, sd, t).liquidityIndex
         /\ r.variableBorrowIndex <= updateIndexes(r, sd, t).variableBorrowIndex
         /\ updateIndexes(r, sd, t).variableBorrowIndex <= getNormalizedDebt(r, t)
         /\ updateIndexes(r, sd, t).lastUpdateTimestamp = t
  <1> DEFINE lin  == LinearInterest(r, t)
             comp == CompoundedInterest(r, t)
             li   == rayMul(lin, r.liquidityIndex)
             vbi  == rayMul(comp, r.variableBorrowIndex)
  <1>0. /\ r.liquidityIndex \in Nat /\ r.variableBorrowIndex \in Nat
        /\ r.currentLiquidityRate \in Nat /\ r.currentVariableBorrowRate \in Nat
        /\ r.lastUpdateTimestamp \in Nat /\ t - r.lastUpdateTimestamp \in Nat
    BY DEF ReserveData
  <1>1. lin \in Nat /\ RAY <= lin
    BY <1>0, LinearInterestGrows DEF LinearInterest
  <1>2. comp \in Nat /\ RAY <= comp /\ (t = r.lastUpdateTimestamp => comp = RAY)
    <2> DEFINE dt == t - r.lastUpdateTimestamp
    <2>1. dt \in Nat /\ (t = r.lastUpdateTimestamp => dt = 0) BY <1>0
    <2>2. comp = calculateCompoundedInterest(r.currentVariableBorrowRate, dt)
      BY DEF CompoundedInterest
    <2> HIDE DEF dt, comp
    <2> QED BY <1>0, <2>1, <2>2, CompoundedInterestGrows
  <1> HIDE DEF lin, comp
  <1>3. li \in Nat /\ r.liquidityIndex <= li
    BY <1>0, <1>1, MathNat, RayMulGrows
  <1>4. vbi \in Nat /\ r.variableBorrowIndex <= vbi
    BY <1>0, <1>2, MathNat, RayMulGrows
  <1>5. t = r.lastUpdateTimestamp => vbi = r.variableBorrowIndex
    BY <1>0, <1>2, RayMulOne
  <1>6. /\ getNormalizedIncome(r, t) = IF r.lastUpdateTimestamp = t THEN r.liquidityIndex ELSE li
        /\ getNormalizedDebt(r, t) =
             IF r.lastUpdateTimestamp = t THEN r.variableBorrowIndex ELSE vbi
    BY DEF getNormalizedIncome, getNormalizedDebt, lin, comp
  <1>7. updateIndexes(r, sd, t) =
          IF r.currentLiquidityRate = 0 THEN [r EXCEPT !.lastUpdateTimestamp = t]
          ELSE [r EXCEPT !.liquidityIndex = li,
                         !.variableBorrowIndex = IF sd = 0 THEN r.variableBorrowIndex ELSE vbi,
                         !.lastUpdateTimestamp = t]
    BY DEF updateIndexes, lin, comp
  <1> HIDE DEF li, vbi
  <1>8. /\ getNormalizedIncome(r, t) \in Nat
        /\ getNormalizedDebt(r, t) \in Nat
        /\ r.variableBorrowIndex <= getNormalizedDebt(r, t)
        /\ vbi <= getNormalizedDebt(r, t)
    BY <1>0, <1>3, <1>4, <1>5, <1>6
  <1> DEFINE u == updateIndexes(r, sd, t)
  <1>9. /\ u \in ReserveData
        /\ u.lastUpdateTimestamp = t
        /\ u.liquidityIndex \in {r.liquidityIndex, li}
        /\ u.variableBorrowIndex \in {r.variableBorrowIndex, vbi}
    BY <1>0, <1>3, <1>4, <1>7 DEF ReserveData
  <1> HIDE DEF u
  <1>10. /\ r.liquidityIndex <= u.liquidityIndex
         /\ r.variableBorrowIndex <= u.variableBorrowIndex
         /\ u.variableBorrowIndex <= getNormalizedDebt(r, t)
    BY <1>0, <1>3, <1>4, <1>8, <1>9
  <1> QED BY <1>8, <1>9, <1>10 DEF u

\* The treasury's mint is a natural: the debt did not shrink by the accrual.
LEMMA MintNat ==
  ASSUME NEW r \in ReserveData, NEW new \in ReserveData, NEW sd \in Nat,
         NEW rf \in 0..PERCENTAGE_FACTOR,
         r.variableBorrowIndex <= new.variableBorrowIndex, RAY <= new.liquidityIndex
  PROVE  mintToTreasury(r, new, sd, rf) \in Nat
  <1> DEFINE after  == rayMul(sd, new.variableBorrowIndex)
             before == rayMul(sd, r.variableBorrowIndex)
  <1>1. /\ r.variableBorrowIndex \in Nat /\ new.variableBorrowIndex \in Nat
        /\ new.liquidityIndex \in Nat \ {0} /\ rf \in Nat
    BY MathAssumption DEF ReserveData
  <1>2. after \in Nat /\ before \in Nat /\ before <= after BY <1>1, MathNat, RayMulMono
  <1>3. after - before \in Nat
    <2> HIDE DEF after, before
    <2> QED BY <1>2
  <1>4. percentMul(after - before, rf) \in Nat BY <1>1, <1>3, MathNat
  <1> QED BY <1>1, <1>4, MathNat DEF mintToTreasury

\* updateInterestRates sets natural rates and leaves indexes and time stamp alone.
LEMMA RatesLemma ==
  ASSUME NEW r \in ReserveData, NEW s \in RateStrategy, NEW liquidity \in Nat, NEW sd \in Nat,
         NEW rf \in 0..PERCENTAGE_FACTOR
  PROVE  LET new == updateInterestRates(r, s, liquidity, sd, rf)
         IN  /\ new \in ReserveData
             /\ new.liquidityIndex = r.liquidityIndex
             /\ new.variableBorrowIndex = r.variableBorrowIndex
             /\ new.lastUpdateTimestamp = r.lastUpdateTimestamp
  <1> DEFINE debt == rayMul(sd, r.variableBorrowIndex)
             util == utilizationRate(liquidity, debt)
             rate == variableBorrowRate(s, util)
             all  == getOverallBorrowRate(debt, rate)
             supply == percentMul(rayMul(all, util), PERCENTAGE_FACTOR - rf)
  <1>1. debt \in Nat BY MathNat DEF ReserveData
  <1>2. util \in Nat
    <2> HIDE DEF debt
    <2>1. CASE debt = 0 BY <2>1 DEF utilizationRate
    <2>2. CASE debt # 0
      <3>1. liquidity + debt \in Nat \ {0} BY <1>1, <2>2
      <3> QED BY <1>1, <2>2, <3>1, MathNat DEF utilizationRate
    <2> QED BY <2>1, <2>2
  <1>3. rate \in Nat
    <2> HIDE DEF util
    <2>1. /\ s.optimal \in Nat \ {0} /\ RAY - s.optimal \in Nat \ {0}
          /\ s.base \in Nat /\ s.slope1 \in Nat /\ s.slope2 \in Nat
      BY MathAssumption DEF RateStrategy
    <2>2. CASE util > s.optimal
      <3>1. util - s.optimal \in Nat BY <1>2, <2>1, <2>2
      <3>2. rayDiv(util - s.optimal, RAY - s.optimal) \in Nat BY <3>1, <2>1, MathNat
      <3>3. rayMul(s.slope2, rayDiv(util - s.optimal, RAY - s.optimal)) \in Nat
        BY <3>2, <2>1, MathNat
      <3> QED BY <2>1, <2>2, <3>3 DEF variableBorrowRate
    <2>3. CASE ~(util > s.optimal)
      <3>1. rayMul(util, s.slope1) \in Nat BY <1>2, <2>1, MathNat
      <3>2. rayDiv(rayMul(util, s.slope1), s.optimal) \in Nat BY <3>1, <2>1, MathNat
      <3> QED BY <2>1, <2>3, <3>2 DEF variableBorrowRate
    <2> QED BY <2>2, <2>3
  <1>4. all \in Nat
    <2> HIDE DEF debt, rate
    <2>1. CASE debt = 0 BY <2>1 DEF getOverallBorrowRate
    <2>2. CASE debt # 0
      <3>1. wadToRay(debt) \in Nat \ {0} BY <1>1, <2>2, MathNat
      <3>2. rayMul(wadToRay(debt), rate) \in Nat BY <3>1, <1>3, MathNat
      <3> QED BY <2>2, <3>1, <3>2, MathNat DEF getOverallBorrowRate
    <2> QED BY <2>1, <2>2
  <1>5. supply \in Nat
    <2> HIDE DEF all, util
    <2>1. PERCENTAGE_FACTOR - rf \in Nat BY MathAssumption
    <2>2. rayMul(all, util) \in Nat BY <1>2, <1>4, MathNat
    <2> QED BY <2>1, <2>2, MathNat
  <1>6. updateInterestRates(r, s, liquidity, sd, rf)
          = [r EXCEPT !.currentVariableBorrowRate = rate, !.currentLiquidityRate = supply]
    BY DEF updateInterestRates
  <1> HIDE DEF rate, supply
  <1> QED BY <1>3, <1>5, <1>6 DEF ReserveData

\* A deposited yield only raises the liquidity index.
LEMMA CumulateLemma ==
  ASSUME NEW r \in ReserveData, NEW total \in Nat \ {0}, NEW amount \in Nat
  PROVE  LET new == cumulateToLiquidityIndex(r, total, amount)
         IN  /\ new \in ReserveData
             /\ r.liquidityIndex <= new.liquidityIndex
             /\ new.variableBorrowIndex = r.variableBorrowIndex
             /\ new.lastUpdateTimestamp = r.lastUpdateTimestamp
  <1> DEFINE share == rayDiv(wadToRay(amount), wadToRay(total))
             index == rayMul(share + RAY, r.liquidityIndex)
  <1>1. wadToRay(amount) \in Nat /\ wadToRay(total) \in Nat \ {0} BY MathNat
  <1>2. share \in Nat BY <1>1, MathNat
  <1>3. share + RAY \in Nat /\ RAY <= share + RAY
    <2> HIDE DEF share
    <2> QED BY <1>2, MathAssumption
  <1>4. r.liquidityIndex \in Nat BY DEF ReserveData
  <1>5. index \in Nat /\ r.liquidityIndex <= index
    <2> HIDE DEF share
    <2> QED BY <1>3, <1>4, MathNat, RayMulGrows
  <1>6. cumulateToLiquidityIndex(r, total, amount) = [r EXCEPT !.liquidityIndex = index]
    BY DEF cumulateToLiquidityIndex
  <1> HIDE DEF index
  <1> QED BY <1>5, <1>6 DEF ReserveData

\* What one transaction may do to the stored state of a reserve.
Advanced(old, new) ==
  /\ new \in ReserveData
  /\ old.liquidityIndex <= new.liquidityIndex
  /\ old.variableBorrowIndex <= new.variableBorrowIndex
  /\ old.lastUpdateTimestamp <= new.lastUpdateTimestamp
  /\ new.lastUpdateTimestamp <= now

\* updateState in a state of the invariant.
LEMMA AccrualLemma ==
  ASSUME IInv, NEW d \in Debts, NEW always \in BOOLEAN
  PROVE  /\ Advanced(reserve[d], accruedReserve(d, always))
         /\ RAY <= accruedReserve(d, always).liquidityIndex
         /\ RAY <= accruedReserve(d, always).variableBorrowIndex
         /\ accruedReserve(d, always).variableBorrowIndex <= normalizedDebt(d)
         /\ normalizedDebt(d) \in Nat /\ normalizedIncome(d) \in Nat
         /\ treasuryMint(d, always) \in Nat
  <1> DEFINE r == reserve[d]
             n == accruedReserve(d, always)
             u == updateIndexes(r, debtSupply[d], now)
  <1>1. /\ r \in ReserveData /\ debtSupply[d] \in Nat /\ now \in Nat
        /\ r.lastUpdateTimestamp <= now
        /\ RAY <= r.liquidityIndex /\ RAY <= r.variableBorrowIndex
    BY DEF IInv, TypeOK, IndexesSound
  <1>2. /\ r.liquidityIndex \in Nat /\ r.variableBorrowIndex \in Nat
        /\ r.lastUpdateTimestamp \in Nat
    BY <1>1 DEF ReserveData
  <1>3. /\ normalizedIncome(d) \in Nat
        /\ normalizedDebt(d) \in Nat
        /\ r.variableBorrowIndex <= normalizedDebt(d)
        /\ u \in ReserveData
        /\ r.liquidityIndex <= u.liquidityIndex
        /\ r.variableBorrowIndex <= u.variableBorrowIndex
        /\ u.variableBorrowIndex <= normalizedDebt(d)
        /\ u.lastUpdateTimestamp = now
    BY <1>1, UpdateIndexesLemma DEF normalizedIncome, normalizedDebt
  <1>4. n = u \/ n = r BY DEF accruedReserve
  <1> HIDE DEF u, n
  <1>5. u.liquidityIndex \in Nat /\ u.variableBorrowIndex \in Nat BY <1>3 DEF ReserveData
  <1>6. Advanced(r, n) BY <1>1, <1>2, <1>3, <1>4 DEF Advanced
  <1>7. n.variableBorrowIndex <= normalizedDebt(d) BY <1>3, <1>4
  <1>8. RAY <= n.liquidityIndex /\ RAY <= n.variableBorrowIndex
    BY <1>1, <1>2, <1>3, <1>4, <1>5, MathAssumption
  <1>9. treasuryMint(d, always) \in Nat
    <2>1. Config[d].reserveFactor \in 0..PERCENTAGE_FACTOR
      BY StorageAssumption DEF Reserves, ReserveConfig
    <2>2. mintToTreasury(r, n, debtSupply[d], Config[d].reserveFactor) \in Nat
      BY <1>1, <1>6, <1>8, <2>1, MintNat DEF Advanced
    <2> QED BY <2>2 DEF treasuryMint, n
  <1> QED BY <1>3, <1>6, <1>7, <1>8, <1>9 DEF n

\* The rates an operation ends with do not disturb what it did to the indexes.
LEMMA WithRatesLemma ==
  ASSUME NEW old \in ReserveData, NEW r, Advanced(old, r), NEW d \in Debts,
         NEW always \in BOOLEAN, NEW liquidity \in Nat, NEW sd \in Nat
  PROVE  Advanced(old, withRates(d, always, r, liquidity, sd))
  <1>1. /\ Strategy[d] \in RateStrategy
        /\ Config[d].reserveFactor \in 0..PERCENTAGE_FACTOR
    BY StorageAssumption DEF Reserves, ReserveConfig
  <1>2. r \in ReserveData BY DEF Advanced
  <1> DEFINE n == updateInterestRates(r, Strategy[d], liquidity, sd, Config[d].reserveFactor)
  <1>3. /\ n \in ReserveData
        /\ n.liquidityIndex = r.liquidityIndex
        /\ n.variableBorrowIndex = r.variableBorrowIndex
        /\ n.lastUpdateTimestamp = r.lastUpdateTimestamp
    BY <1>1, <1>2, RatesLemma
  <1> HIDE DEF n
  <1>4. Advanced(old, n) BY <1>3 DEF Advanced
  <1> QED BY <1>4 DEF withRates, n

\* The part of the invariant and of the step property that speaks of reserves,
\* when one reserve advances and when none does.
ReserveStep == reserve' \in [Debts -> ReserveData] /\ IndexesSound' /\ IndexStep

\* One reserve advances and time stands still.
LEMMA OneReserveAdvances ==
  ASSUME IInv, NEW d \in Debts, NEW n, Advanced(reserve[d], n),
         reserve' = [reserve EXCEPT ![d] = n], now' = now
  PROVE  ReserveStep
  <1>1. /\ reserve \in [Debts -> ReserveData] /\ now \in Nat
        /\ \A e \in Debts : RAY <= reserve[e].liquidityIndex
                            /\ RAY <= reserve[e].variableBorrowIndex
                            /\ reserve[e].lastUpdateTimestamp <= now
    BY DEF IInv, TypeOK, IndexesSound
  <1>2. reserve' \in [Debts -> ReserveData] BY <1>1 DEF Advanced
  <1>3. ASSUME NEW e \in Debts
        PROVE  /\ reserve[e].liquidityIndex \in Nat
               /\ reserve[e].variableBorrowIndex \in Nat
               /\ reserve[e].lastUpdateTimestamp \in Nat
               /\ reserve'[e].liquidityIndex \in Nat
               /\ reserve'[e].variableBorrowIndex \in Nat
               /\ reserve'[e].lastUpdateTimestamp \in Nat
    BY <1>1, <1>2 DEF ReserveData
  <1>4. ASSUME NEW e \in Debts
        PROVE  /\ reserve[e].liquidityIndex <= reserve'[e].liquidityIndex
               /\ reserve[e].variableBorrowIndex <= reserve'[e].variableBorrowIndex
               /\ reserve[e].lastUpdateTimestamp <= reserve'[e].lastUpdateTimestamp
               /\ reserve'[e].lastUpdateTimestamp <= now
    <2>1. CASE e = d BY <1>1, <2>1 DEF Advanced
    <2>2. CASE e # d BY <1>1, <1>3, <2>2
    <2> QED BY <2>1, <2>2
  <1>5. IndexesSound' BY <1>1, <1>3, <1>4, MathAssumption DEF IndexesSound
  <1>6. IndexStep BY <1>1, <1>3, <1>4 DEF IndexStep
  <1> QED BY <1>2, <1>5, <1>6 DEF ReserveStep

\* No reserve changes and time may advance.
LEMMA NoReserveChanges ==
  ASSUME IInv, reserve' = reserve, now' \in Nat, now <= now'
  PROVE  ReserveStep
  <1>1. /\ reserve \in [Debts -> ReserveData] /\ now \in Nat
        /\ \A e \in Debts : RAY <= reserve[e].liquidityIndex
                            /\ RAY <= reserve[e].variableBorrowIndex
                            /\ reserve[e].lastUpdateTimestamp <= now
    BY DEF IInv, TypeOK, IndexesSound
  <1>2. \A e \in Debts : /\ reserve[e].liquidityIndex \in Nat
                         /\ reserve[e].variableBorrowIndex \in Nat
                         /\ reserve[e].lastUpdateTimestamp \in Nat
    BY <1>1 DEF ReserveData
  <1> QED BY <1>1, <1>2 DEF ReserveStep, IndexesSound, IndexStep

\* The tables an accounting step writes keep their types.
LEMMA TableUpdate ==
  ASSUME NEW X, NEW Y, NEW tab \in [X -> [Y -> Nat]], NEW a \in X, NEW b \in Y, NEW v \in Nat
  PROVE  [tab EXCEPT ![a][b] = v] \in [X -> [Y -> Nat]]
  OBVIOUS

\* The balances after an operation of u on d.
LEMMA ATokensType ==
  ASSUME IInv, NEW d \in Debts, NEW always \in BOOLEAN, NEW u \in Users, NEW b \in Nat
  PROVE  aTokensOf(d, always, u, b) \in [Reserves -> [Accounts -> Nat]]
  <1>1. treasuryMint(d, always) \in Nat BY AccrualLemma
  <1>2. /\ aBalance \in [Reserves -> [Accounts -> Nat]] /\ d \in Reserves
        /\ Treasury \in Accounts /\ u \in Accounts
    BY DEF IInv, TypeOK, Reserves, Accounts
  <1> DEFINE mint == treasuryMint(d, always)
  <1>3. aTokensOf(d, always, u, b) = [aBalance EXCEPT ![d][Treasury] = @ + mint, ![d][u] = b]
    BY DEF aTokensOf
  <1> HIDE DEF mint
  <1> QED BY <1>1, <1>2, <1>3 DEF mint

\* The balances and supplies after the treasury was minted its part.
LEMMA TreasuryAccruesType ==
  ASSUME IInv, NEW d \in Debts, NEW always \in BOOLEAN, treasuryAccrues(d, always)
  PROVE  aBalance' \in [Reserves -> [Accounts -> Nat]] /\ aSupply' \in [Reserves -> Nat]
  <1>1. treasuryMint(d, always) \in Nat BY AccrualLemma
  <1>2. /\ aBalance \in [Reserves -> [Accounts -> Nat]] /\ d \in Reserves
        /\ aSupply \in [Reserves -> Nat] /\ Treasury \in Accounts
    BY DEF IInv, TypeOK, Reserves, Accounts
  <1> QED BY <1>1, <1>2 DEF treasuryAccrues

\* Setting or clearing a collateral bit.
LEMMA CollateralBitsType ==
  ASSUME IInv, NEW u \in Users, NEW r \in Reserves, NEW use \in BOOLEAN
  PROVE  setUsingAsCollateral(u, r, use) \in [Users -> SUBSET Reserves]
  BY DEF IInv, TypeOK, setUsingAsCollateral

\* A step that touches neither debts nor borrowing bits hides no debt.
LEMMA DebtsUntouched ==
  ASSUME IInv, UNCHANGED <<debtBalance, borrowing>>
  PROVE  NoHiddenDebt'
  BY DEF IInv, NoHiddenDebt

\* The views that appear in the guards.
LEMMA ViewsNat ==
  ASSUME IInv, NEW d \in Debts, NEW u \in Users
  PROVE  balanceOf(d, u, aBalance) \in Nat /\ debtBalanceOf(d, u) \in Nat
  <1>1. normalizedDebt(d) \in Nat /\ normalizedIncome(d) \in Nat BY AccrualLemma
  <1>2. aBalance[d][u] \in Nat /\ debtBalance[d][u] \in Nat
    BY DEF IInv, TypeOK, Reserves, Accounts
  <1> QED BY <1>1, <1>2, MathNat DEF balanceOf, debtBalanceOf

\* The income index a transfer divides by is not below one ray.
LEMMA IncomeAtLeastOne ==
  ASSUME IInv, NEW d \in Debts
  PROVE  normalizedIncome(d) \in Nat /\ RAY <= normalizedIncome(d)
  <1> DEFINE r   == reserve[d]
             lin == LinearInterest(r, now)
  <1>1. /\ r \in ReserveData /\ now \in Nat /\ RAY <= r.liquidityIndex
        /\ r.lastUpdateTimestamp <= now
    BY DEF IInv, TypeOK, IndexesSound
  <1>2. /\ r.liquidityIndex \in Nat /\ r.currentLiquidityRate \in Nat
        /\ now - r.lastUpdateTimestamp \in Nat
    BY <1>1 DEF ReserveData
  <1>3. lin \in Nat /\ RAY <= lin BY <1>2, LinearInterestGrows DEF LinearInterest
  <1>4. normalizedIncome(d) \in {r.liquidityIndex, rayMul(lin, r.liquidityIndex)}
    BY DEF normalizedIncome, getNormalizedIncome
  <1> HIDE DEF r, lin
  <1>5. /\ rayMul(lin, r.liquidityIndex) \in Nat
        /\ r.liquidityIndex <= rayMul(lin, r.liquidityIndex)
    BY <1>2, <1>3, MathNat, RayMulGrows
  <1> QED BY <1>1, <1>2, <1>4, <1>5, MathAssumption

\* A scaled amount at one of the accrued indexes is a natural.
LEMMA ScaledNat ==
  ASSUME IInv, NEW d \in Debts, NEW always \in BOOLEAN, NEW amount \in Nat
  PROVE  /\ rayDiv(amount, accruedReserve(d, always).liquidityIndex) \in Nat
         /\ rayDiv(amount, accruedReserve(d, always).variableBorrowIndex) \in Nat
  <1> DEFINE n == accruedReserve(d, always)
  <1>1. n \in ReserveData /\ RAY <= n.liquidityIndex /\ RAY <= n.variableBorrowIndex
    BY AccrualLemma DEF Advanced
  <1>2. n.liquidityIndex \in Nat \ {0} /\ n.variableBorrowIndex \in Nat \ {0}
    BY <1>1, MathAssumption DEF ReserveData
  <1> QED BY <1>2, MathNat
-----------------------------------------------------------------------------
(* One lemma per operation. *)

Preserved == IInv' /\ IndexStep

\* deposit of a debt asset.
LEMMA DepositLemma ==
  ASSUME IInv, NEW u \in Users, NEW d \in Debts, NEW amount \in Nat, deposit(u, d, amount)
  PROVE  Preserved
  <1> DEFINE r      == accruedReserve(d, FALSE)
             scaled == rayDiv(amount, r.liquidityIndex)
             mint   == treasuryMint(d, FALSE)
  <1>1. TypeOK /\ d \in Reserves BY DEF IInv, Reserves
  <1>2. scaled \in Nat BY ScaledNat
  <1>3. Advanced(reserve[d], r) /\ mint \in Nat BY AccrualLemma
  <1>4. ReserveStep
    <2>1. /\ reserve[d] \in ReserveData /\ cash[d] + amount \in Nat /\ debtSupply[d] \in Nat
      BY <1>1 DEF TypeOK
    <2>2. Advanced(reserve[d], withRates(d, FALSE, r, cash[d] + amount, debtSupply[d]))
      BY <1>3, <2>1, WithRatesLemma
    <2> QED BY <2>2, OneReserveAdvances DEF deposit
  <1>5. aBalance' \in [Reserves -> [Accounts -> Nat]]
    <2>1. aBalance[d][u] + scaled \in Nat
      <3> HIDE DEF scaled
      <3> QED BY <1>1, <1>2 DEF TypeOK, Accounts
    <2> QED BY <2>1, ATokensType DEF deposit
  <1>6. usingAsCollateral' \in [Users -> SUBSET Reserves]
    BY <1>1, CollateralBitsType DEF deposit, TypeOK
  <1>7. cash' \in [Reserves -> Nat] /\ aSupply' \in [Reserves -> Nat]
    <2>1. /\ cash' = [cash EXCEPT ![d] = cash[d] + amount]
          /\ aSupply' = [aSupply EXCEPT ![d] = aSupply[d] + mint + scaled]
      BY <1>1 DEF deposit, TypeOK
    <2> HIDE DEF scaled, mint
    <2>2. /\ cash[d] + amount \in Nat
          /\ aSupply[d] + mint + scaled \in Nat
      BY <1>1, <1>2, <1>3 DEF TypeOK
    <2> QED BY <1>1, <2>1, <2>2 DEF TypeOK
  <1>8. UNCHANGED <<now, paused, frozen, borrowing, debtBalance, debtSupply, borrowAllowance,
                    price, pricePerShare>>
    BY DEF deposit
  <1>9. TypeOK' BY <1>1, <1>4, <1>5, <1>6, <1>7, <1>8 DEF TypeOK, ReserveStep
  <1> QED BY <1>4, <1>8, <1>9, DebtsUntouched DEF Preserved, IInv, ReserveStep

\* withdraw of a debt asset: nothing goes below zero.
LEMMA WithdrawLemma ==
  ASSUME IInv, NEW u \in Users, NEW d \in Debts, NEW asked \in Nat, withdraw(u, d, asked)
  PROVE  Preserved
  <1> DEFINE amount == IF asked = MAX_UINT THEN balanceOf(d, u, aBalance) ELSE asked
             r      == accruedReserve(d, FALSE)
             scaled == rayDiv(amount, r.liquidityIndex)
             mint   == treasuryMint(d, FALSE)
  <1>1. TypeOK /\ d \in Reserves BY DEF IInv, Reserves
  <1>2. amount \in Nat BY ViewsNat
  <1>3. scaled \in Nat
    <2> HIDE DEF amount
    <2> QED BY <1>2, ScaledNat
  <1>4. Advanced(reserve[d], r) /\ mint \in Nat BY AccrualLemma
  <1>5. /\ scaled <= aBalance[d][u] /\ scaled <= aSupply[d] /\ amount <= cash[d]
        /\ reserve' = [reserve EXCEPT ![d] = withRates(d, FALSE, r, cash[d] - amount, debtSupply[d])]
        /\ cash' = [cash EXCEPT ![d] = @ - amount]
        /\ aBalance' = aTokensOf(d, FALSE, u, aBalance[d][u] - scaled)
        /\ aSupply' = [aSupply EXCEPT ![d] = @ + mint - scaled]
        /\ usingAsCollateral' \in {usingAsCollateral, setUsingAsCollateral(u, d, FALSE)}
        /\ UNCHANGED <<now, paused, frozen, borrowing, debtBalance, debtSupply,
                       borrowAllowance, price, pricePerShare>>
    BY DEF withdraw
  <1> HIDE DEF amount, scaled, mint
  <1>6. ReserveStep
    <2>1. reserve[d] \in ReserveData /\ cash[d] - amount \in Nat /\ debtSupply[d] \in Nat
      BY <1>1, <1>2, <1>5 DEF TypeOK
    <2>2. Advanced(reserve[d], withRates(d, FALSE, r, cash[d] - amount, debtSupply[d]))
      BY <1>4, <2>1, WithRatesLemma
    <2> QED BY <1>5, <2>2, OneReserveAdvances
  <1>7. aBalance' \in [Reserves -> [Accounts -> Nat]]
    <2>1. aBalance[d][u] - scaled \in Nat BY <1>1, <1>3, <1>5 DEF TypeOK, Accounts
    <2> QED BY <1>5, <2>1, ATokensType
  <1>8. usingAsCollateral' \in [Users -> SUBSET Reserves]
    <2>1. setUsingAsCollateral(u, d, FALSE) \in [Users -> SUBSET Reserves]
      BY <1>1, CollateralBitsType
    <2> QED BY <1>1, <1>5, <2>1 DEF TypeOK
  <1>9. cash' \in [Reserves -> Nat] BY <1>1, <1>2, <1>5 DEF TypeOK
  <1>10. aSupply' \in [Reserves -> Nat] BY <1>1, <1>3, <1>4, <1>5 DEF TypeOK
  <1>11. TypeOK' BY <1>1, <1>5, <1>6, <1>7, <1>8, <1>9, <1>10 DEF TypeOK, ReserveStep
  <1> QED BY <1>5, <1>6, <1>11, DebtsUntouched DEF Preserved, IInv, ReserveStep

\* depositYield raises the liquidity index.
LEMMA DepositYieldLemma ==
  ASSUME IInv, NEW d \in Debts, NEW amount \in Nat, depositYield(d, amount)
  PROVE  Preserved
  <1> DEFINE r     == accruedReserve(d, TRUE)
             mint  == treasuryMint(d, TRUE)
             total == rayMul(aSupply[d] + mint, r.liquidityIndex)
             n     == cumulateToLiquidityIndex(r, total, amount)
  <1>1. TypeOK /\ d \in Reserves BY DEF IInv, Reserves
  <1>2. Advanced(reserve[d], r) /\ mint \in Nat BY AccrualLemma
  <1>3. r \in ReserveData BY <1>2 DEF Advanced
  <1>4. total \in Nat
    <2>1. r.liquidityIndex \in Nat BY <1>3 DEF ReserveData
    <2> HIDE DEF mint
    <2>2. aSupply[d] + mint \in Nat BY <1>1, <1>2 DEF TypeOK
    <2> QED BY <2>1, <2>2, MathNat
  <1>5. /\ total # 0
        /\ reserve' = [reserve EXCEPT ![d] = withRates(d, TRUE, n, cash[d] + amount, debtSupply[d])]
        /\ cash' = [cash EXCEPT ![d] = @ + amount]
        /\ treasuryAccrues(d, TRUE)
        /\ UNCHANGED <<now, paused, frozen, usingAsCollateral, borrowing, debtBalance,
                       debtSupply, borrowAllowance, price, pricePerShare>>
    BY DEF depositYield
  <1> HIDE DEF r, mint, total, n
  <1>6. Advanced(reserve[d], n)
    <2>1. /\ n \in ReserveData
          /\ r.liquidityIndex <= n.liquidityIndex
          /\ n.variableBorrowIndex = r.variableBorrowIndex
          /\ n.lastUpdateTimestamp = r.lastUpdateTimestamp
      BY <1>3, <1>4, <1>5, CumulateLemma DEF n
    <2>2. /\ reserve[d].liquidityIndex \in Nat /\ r.liquidityIndex \in Nat
          /\ n.liquidityIndex \in Nat
      BY <1>1, <1>3, <2>1 DEF TypeOK, ReserveData
    <2> QED BY <1>2, <2>1, <2>2 DEF Advanced
  <1>7. ReserveStep
    <2>1. reserve[d] \in ReserveData /\ cash[d] + amount \in Nat /\ debtSupply[d] \in Nat
      BY <1>1 DEF TypeOK
    <2>2. Advanced(reserve[d], withRates(d, TRUE, n, cash[d] + amount, debtSupply[d]))
      BY <1>6, <2>1, WithRatesLemma
    <2> QED BY <1>5, <2>2, OneReserveAdvances
  <1>8. aBalance' \in [Reserves -> [Accounts -> Nat]] /\ aSupply' \in [Reserves -> Nat]
    BY <1>5, TreasuryAccruesType
  <1>9. cash' \in [Reserves -> Nat] BY <1>1, <1>5 DEF TypeOK
  <1>10. TypeOK' BY <1>1, <1>5, <1>7, <1>8, <1>9 DEF TypeOK, ReserveStep
  <1> QED BY <1>5, <1>7, <1>10, DebtsUntouched DEF Preserved, IInv, ReserveStep

\* The amounts of a collateral's aToken and shares.
LEMMA ShareNat ==
  ASSUME IInv, NEW c \in Collaterals, NEW amount \in Nat
  PROVE  /\ shareOf(c, amount) \in Nat
         /\ rayMul(amount * Config[c].scale, pricePerShare[c]) \in Nat
  <1>1. pricePerShare[c] \in Nat \ {0} BY DEF IInv, TypeOK
  <1>2. Config[c].scale \in Nat \ {0} BY StorageAssumption DEF Reserves, ReserveConfig
  <1>3. rayDiv(amount, pricePerShare[c]) \in Nat BY <1>1, MathNat
  <1>4. shareOf(c, amount) \in Nat
    <2> DEFINE x == rayDiv(amount, pricePerShare[c])
               s == Config[c].scale
    <2>1. x \in Nat /\ s \in Nat \ {0} BY <1>2, <1>3
    <2> HIDE DEF x, s
    <2>2. x \div s \in Nat BY <2>1, DivBounds
    <2> QED BY <2>2 DEF shareOf, x, s
  <1>5. amount * Config[c].scale \in Nat BY <1>2, ProductNat
  <1> QED BY <1>1, <1>4, <1>5, MathNat

\* A deposit through a vault.
LEMMA DepositCollateralLemma ==
  ASSUME IInv, NEW u \in Users, NEW c \in Collaterals, NEW share \in Nat,
         depositCollateral(u, c, share)
  PROVE  Preserved
  <1> DEFINE amount == rayMul(share * Config[c].scale, pricePerShare[c])
  <1>1. TypeOK /\ c \in Reserves /\ u \in Accounts BY DEF IInv, Reserves, Accounts
  <1>2. amount \in Nat BY ShareNat
  <1>3. /\ cash' = [cash EXCEPT ![c] = @ + share]
        /\ aBalance' = [aBalance EXCEPT ![c][u] = @ + amount]
        /\ aSupply' = [aSupply EXCEPT ![c] = @ + amount]
        /\ usingAsCollateral' \in {usingAsCollateral, setUsingAsCollateral(u, c, TRUE)}
        /\ UNCHANGED <<now, paused, frozen, reserve, borrowing, debtBalance, debtSupply,
                       borrowAllowance, price, pricePerShare>>
    BY DEF depositCollateral
  <1> HIDE DEF amount
  <1>4. ReserveStep BY <1>1, <1>3, NoReserveChanges DEF TypeOK
  <1>5. aBalance' \in [Reserves -> [Accounts -> Nat]] BY <1>1, <1>2, <1>3 DEF TypeOK
  <1>6. cash' \in [Reserves -> Nat] /\ aSupply' \in [Reserves -> Nat]
    BY <1>1, <1>2, <1>3 DEF TypeOK
  <1>7. usingAsCollateral' \in [Users -> SUBSET Reserves]
    <2>1. setUsingAsCollateral(u, c, TRUE) \in [Users -> SUBSET Reserves]
      BY <1>1, CollateralBitsType
    <2> QED BY <1>1, <1>3, <2>1 DEF TypeOK
  <1>8. TypeOK' BY <1>1, <1>3, <1>4, <1>5, <1>6, <1>7 DEF TypeOK, ReserveStep
  <1> QED BY <1>3, <1>4, <1>8, DebtsUntouched DEF Preserved, IInv, ReserveStep

\* A withdrawal through a vault.
LEMMA WithdrawCollateralLemma ==
  ASSUME IInv, NEW u \in Users, NEW c \in Collaterals, NEW asked \in Nat,
         withdrawCollateral(u, c, asked)
  PROVE  Preserved
  <1> DEFINE amount == IF asked = MAX_UINT THEN aBalance[c][u] ELSE asked
             share  == shareOf(c, amount)
  <1>1. TypeOK /\ c \in Reserves /\ u \in Accounts BY DEF IInv, Reserves, Accounts
  <1>2. amount \in Nat BY <1>1 DEF TypeOK
  <1>3. share \in Nat
    <2> HIDE DEF amount
    <2> QED BY <1>2, ShareNat
  <1>4. /\ amount <= aBalance[c][u] /\ amount <= aSupply[c] /\ share <= cash[c]
        /\ cash' = [cash EXCEPT ![c] = @ - share]
        /\ aBalance' = [aBalance EXCEPT ![c][u] = @ - amount]
        /\ aSupply' = [aSupply EXCEPT ![c] = @ - amount]
        /\ usingAsCollateral' \in {usingAsCollateral, setUsingAsCollateral(u, c, FALSE)}
        /\ UNCHANGED <<now, paused, frozen, reserve, borrowing, debtBalance, debtSupply,
                       borrowAllowance, price, pricePerShare>>
    BY DEF withdrawCollateral
  <1> HIDE DEF amount, share
  <1>5. ReserveStep BY <1>1, <1>4, NoReserveChanges DEF TypeOK
  <1>6. aBalance' \in [Reserves -> [Accounts -> Nat]] BY <1>1, <1>2, <1>4 DEF TypeOK
  <1>7. cash' \in [Reserves -> Nat] /\ aSupply' \in [Reserves -> Nat]
    BY <1>1, <1>2, <1>3, <1>4 DEF TypeOK
  <1>8. usingAsCollateral' \in [Users -> SUBSET Reserves]
    <2>1. setUsingAsCollateral(u, c, FALSE) \in [Users -> SUBSET Reserves]
      BY <1>1, CollateralBitsType
    <2> QED BY <1>1, <1>4, <2>1 DEF TypeOK
  <1>9. TypeOK' BY <1>1, <1>4, <1>5, <1>6, <1>7, <1>8 DEF TypeOK, ReserveStep
  <1> QED BY <1>4, <1>5, <1>9, DebtsUntouched DEF Preserved, IInv, ReserveStep

\* The harvest of a vault.
LEMMA GetYieldLemma ==
  ASSUME IInv, NEW c \in Collaterals, getYield(c)
  PROVE  Preserved
  <1> DEFINE share == shareOf(c, aSupply[c])
  <1>1. TypeOK /\ c \in Reserves BY DEF IInv, Reserves
  <1>2. share \in Nat
    <2>1. aSupply[c] \in Nat BY <1>1 DEF TypeOK
    <2> QED BY <2>1, ShareNat
  <1>3. /\ cash' = [cash EXCEPT ![c] = share]
        /\ UNCHANGED <<now, paused, frozen, reserve, usingAsCollateral, borrowing, aBalance,
                       aSupply, debtBalance, debtSupply, borrowAllowance, price, pricePerShare>>
    BY DEF getYield
  <1> HIDE DEF share
  <1>4. ReserveStep BY <1>1, <1>3, NoReserveChanges DEF TypeOK
  <1>5. cash' \in [Reserves -> Nat] BY <1>1, <1>2, <1>3 DEF TypeOK
  <1>6. TypeOK' BY <1>1, <1>3, <1>4, <1>5 DEF TypeOK, ReserveStep
  <1> QED BY <1>3, <1>4, <1>6, DebtsUntouched DEF Preserved, IInv, ReserveStep

\* A loan raises the borrower's scaled debt and, if it is the first one, the bit.
LEMMA BorrowLemma ==
  ASSUME IInv, NEW caller \in Users, NEW u \in Users, NEW d \in Debts, NEW amount \in Nat,
         borrow(caller, u, d, amount)
  PROVE  Preserved
  <1> DEFINE r      == accruedReserve(d, FALSE)
             scaled == rayDiv(amount, r.variableBorrowIndex)
  <1>1. TypeOK /\ d \in Reserves BY DEF IInv, Reserves
  <1>2. scaled \in Nat BY ScaledNat
  <1>3. Advanced(reserve[d], r) BY AccrualLemma
  <1>4. /\ amount <= cash[d] /\ scaled # 0
        /\ caller # u => amount <= borrowAllowance[d][u][caller]
        /\ borrowAllowance' = IF caller = u THEN borrowAllowance
                              ELSE [borrowAllowance EXCEPT ![d][u][caller] = @ - amount]
        /\ debtBalance' = [debtBalance EXCEPT ![d][u] = @ + scaled]
        /\ debtSupply' = [debtSupply EXCEPT ![d] = @ + scaled]
        /\ borrowing' = IF debtBalance[d][u] = 0 THEN [borrowing EXCEPT ![u] = @ \cup {d}]
                        ELSE borrowing
        /\ reserve' = [reserve EXCEPT ![d] =
                         withRates(d, FALSE, r, cash[d] - amount, debtSupply[d] + scaled)]
        /\ cash' = [cash EXCEPT ![d] = @ - amount]
        /\ treasuryAccrues(d, FALSE)
        /\ UNCHANGED <<now, paused, frozen, usingAsCollateral, price, pricePerShare>>
    BY DEF borrow
  <1> HIDE DEF r, scaled
  <1>5. ReserveStep
    <2>1. /\ reserve[d] \in ReserveData
          /\ cash[d] - amount \in Nat /\ debtSupply[d] + scaled \in Nat
      BY <1>1, <1>2, <1>4 DEF TypeOK
    <2>2. Advanced(reserve[d], withRates(d, FALSE, r, cash[d] - amount, debtSupply[d] + scaled))
      BY <1>3, <2>1, WithRatesLemma
    <2> QED BY <1>4, <2>2, OneReserveAdvances
  <1>6. aBalance' \in [Reserves -> [Accounts -> Nat]] /\ aSupply' \in [Reserves -> Nat]
    BY <1>4, TreasuryAccruesType
  <1>7. cash' \in [Reserves -> Nat] BY <1>1, <1>4 DEF TypeOK
  <1>8. debtBalance' \in [Debts -> [Users -> Nat]] /\ debtSupply' \in [Debts -> Nat]
    BY <1>1, <1>2, <1>4 DEF TypeOK
  <1>9. borrowing' \in [Users -> SUBSET Reserves] BY <1>1, <1>4 DEF TypeOK
  <1>10. borrowAllowance' \in [Debts -> [Users -> [Users -> Nat]]]
    <2>1. CASE caller = u BY <1>1, <1>4, <2>1 DEF TypeOK
    <2>2. CASE caller # u
      <3>1. borrowAllowance[d][u][caller] - amount \in Nat BY <1>1, <1>4, <2>2 DEF TypeOK
      <3> QED BY <1>1, <1>4, <2>2, <3>1 DEF TypeOK
    <2> QED BY <2>1, <2>2
  <1>11. TypeOK' BY <1>1, <1>4, <1>5, <1>6, <1>7, <1>8, <1>9, <1>10 DEF TypeOK, ReserveStep
  <1>12. NoHiddenDebt'
    <2>1. SUFFICES ASSUME NEW v \in Users, NEW e \in Debts, debtBalance'[e][v] # 0
                   PROVE  e \in borrowing'[v]
      BY DEF NoHiddenDebt
    <2>2. CASE debtBalance[e][v] # 0
      <3>1. e \in borrowing[v] BY <2>2 DEF IInv, NoHiddenDebt
      <3> QED BY <1>1, <1>4, <3>1 DEF TypeOK
    <2>3. CASE debtBalance[e][v] = 0
      <3>1. e = d /\ v = u BY <1>1, <1>4, <2>1, <2>3 DEF TypeOK
      <3> QED BY <1>1, <1>4, <2>3, <3>1 DEF TypeOK
    <2> QED BY <2>2, <2>3
  <1> QED BY <1>5, <1>11, <1>12 DEF Preserved, IInv, ReserveStep

\* A repayment.  The bit is cleared when the payment equals the debt read from
\* the view; RoundTrip shows that the scaled amount then burned at the stored
\* index is the whole scaled debt.
LEMMA RepayLemma ==
  ASSUME IInv, NEW caller \in Users, NEW u \in Users, NEW d \in Debts, NEW amount \in Nat,
         repay(caller, u, d, amount)
  PROVE  Preserved
  <1> DEFINE debt    == debtBalanceOf(d, u)
             payback == IF amount < debt THEN amount ELSE debt
             r       == accruedReserve(d, FALSE)
             scaled  == rayDiv(payback, r.variableBorrowIndex)
  <1>1. TypeOK /\ d \in Reserves BY DEF IInv, Reserves
  <1>2. debt \in Nat /\ payback \in Nat BY ViewsNat
  <1>3. scaled \in Nat
    <2> HIDE DEF payback
    <2> QED BY <1>2, ScaledNat
  <1>4. /\ Advanced(reserve[d], r) /\ RAY <= r.variableBorrowIndex
        /\ r.variableBorrowIndex <= normalizedDebt(d) /\ normalizedDebt(d) \in Nat
    BY AccrualLemma
  <1>5. /\ scaled <= debtBalance[d][u] /\ scaled <= debtSupply[d]
        /\ debtBalance' = [debtBalance EXCEPT ![d][u] = @ - scaled]
        /\ debtSupply' = [debtSupply EXCEPT ![d] = @ - scaled]
        /\ borrowing' = IF payback = debt THEN [borrowing EXCEPT ![u] = @ \ {d}] ELSE borrowing
        /\ reserve' = [reserve EXCEPT ![d] =
                         withRates(d, FALSE, r, cash[d] + payback, debtSupply[d] - scaled)]
        /\ cash' = [cash EXCEPT ![d] = @ + payback]
        /\ treasuryAccrues(d, FALSE)
        /\ UNCHANGED <<now, paused, frozen, usingAsCollateral, borrowAllowance, price,
                       pricePerShare>>
    BY DEF repay
  <1>6. payback = debt => debtBalance[d][u] <= scaled
    <2>1. SUFFICES ASSUME payback = debt PROVE debtBalance[d][u] <= scaled OBVIOUS
    <2>2. debtBalance[d][u] \in Nat BY <1>1 DEF TypeOK
    <2>3. r.variableBorrowIndex \in Nat BY <1>4 DEF Advanced, ReserveData
    <2> HIDE DEF r, payback
    <2>4. debtBalance[d][u]
            <= rayDiv(rayMul(debtBalance[d][u], normalizedDebt(d)), r.variableBorrowIndex)
      BY <1>4, <2>2, <2>3, RoundTrip
    <2> QED BY <2>1, <2>4 DEF debtBalanceOf
  <1> HIDE DEF debt, payback, r, scaled
  <1>7. ReserveStep
    <2>1. /\ reserve[d] \in ReserveData
          /\ cash[d] + payback \in Nat /\ debtSupply[d] - scaled \in Nat
      BY <1>1, <1>2, <1>3, <1>5 DEF TypeOK
    <2>2. Advanced(reserve[d], withRates(d, FALSE, r, cash[d] + payback, debtSupply[d] - scaled))
      BY <1>4, <2>1, WithRatesLemma
    <2> QED BY <1>5, <2>2, OneReserveAdvances
  <1>8. aBalance' \in [Reserves -> [Accounts -> Nat]] /\ aSupply' \in [Reserves -> Nat]
    BY <1>5, TreasuryAccruesType
  <1>9. cash' \in [Reserves -> Nat] BY <1>1, <1>2, <1>5 DEF TypeOK
  <1>10. debtBalance' \in [Debts -> [Users -> Nat]] /\ debtSupply' \in [Debts -> Nat]
    BY <1>1, <1>3, <1>5 DEF TypeOK
  <1>11. borrowing' \in [Users -> SUBSET Reserves] BY <1>1, <1>5 DEF TypeOK
  <1>12. TypeOK' BY <1>1, <1>5, <1>7, <1>8, <1>9, <1>10, <1>11 DEF TypeOK, ReserveStep
  <1>13. NoHiddenDebt'
    <2>1. SUFFICES ASSUME NEW v \in Users, NEW e \in Debts, debtBalance'[e][v] # 0
                   PROVE  e \in borrowing'[v]
      BY DEF NoHiddenDebt
    <2>2. debtBalance[e][v] # 0
      BY <1>1, <1>3, <1>5, <2>1 DEF TypeOK
    <2>3. e \in borrowing[v] BY <2>2 DEF IInv, NoHiddenDebt
    <2>4. CASE payback = debt /\ e = d /\ v = u
      <3>1. debtBalance'[d][u] = debtBalance[d][u] - scaled BY <1>1, <1>5 DEF TypeOK
      <3>2. debtBalance[d][u] \in Nat BY <1>1 DEF TypeOK
      <3>3. debtBalance[d][u] = scaled BY <1>3, <1>5, <1>6, <2>4, <3>2
      <3> QED BY <1>3, <2>1, <2>4, <3>1, <3>3
    <2>5. CASE ~(payback = debt /\ e = d /\ v = u)
      <3>1. borrowing \in [Users -> SUBSET Reserves] BY <1>1 DEF TypeOK
      <3>2. CASE payback # debt BY <1>5, <2>3, <3>2
      <3>3. CASE payback = debt
        <4>1. borrowing' = [borrowing EXCEPT ![u] = @ \ {d}] BY <1>5, <3>3
        <4>2. CASE v # u BY <2>3, <3>1, <4>1, <4>2
        <4>3. CASE v = u /\ e # d BY <2>3, <3>1, <4>1, <4>3
        <4> QED BY <2>5, <3>3, <4>2, <4>3
      <3> QED BY <3>2, <3>3
    <2> QED BY <2>4, <2>5
  <1> QED BY <1>7, <1>12, <1>13 DEF Preserved, IInv, ReserveStep

\* approveDelegation only writes an allowance.
LEMMA ApproveDelegationLemma ==
  ASSUME IInv, NEW u \in Users, NEW v \in Users, NEW d \in Debts, NEW amount \in Nat,
         approveDelegation(u, v, d, amount)
  PROVE  Preserved
  <1>1. TypeOK BY DEF IInv
  <1>2. /\ borrowAllowance' = [borrowAllowance EXCEPT ![d][u][v] = amount]
        /\ UNCHANGED <<now, paused, frozen, reserve, usingAsCollateral, borrowing, aBalance,
                       aSupply, cash, debtBalance, debtSupply, price, pricePerShare>>
    BY DEF approveDelegation
  <1>3. borrowAllowance' \in [Debts -> [Users -> [Users -> Nat]]] BY <1>1, <1>2 DEF TypeOK
  <1>4. ReserveStep BY <1>1, <1>2, NoReserveChanges DEF TypeOK
  <1>5. TypeOK' BY <1>1, <1>2, <1>3, <1>4 DEF TypeOK, ReserveStep
  <1> QED BY <1>2, <1>4, <1>5, DebtsUntouched DEF Preserved, IInv, ReserveStep

\* setUserUseReserveAsCollateral only writes a collateral bit.
LEMMA SetUserUseLemma ==
  ASSUME IInv, NEW u \in Users, NEW r \in Reserves, NEW use \in BOOLEAN,
         setUserUseReserveAsCollateral(u, r, use)
  PROVE  Preserved
  <1>1. TypeOK BY DEF IInv
  <1>2. /\ usingAsCollateral' = setUsingAsCollateral(u, r, use)
        /\ UNCHANGED <<now, paused, frozen, reserve, borrowing, aBalance, aSupply, cash,
                       debtBalance, debtSupply, borrowAllowance, price, pricePerShare>>
    BY DEF setUserUseReserveAsCollateral
  <1>3. usingAsCollateral' \in [Users -> SUBSET Reserves] BY <1>2, CollateralBitsType
  <1>4. ReserveStep BY <1>1, <1>2, NoReserveChanges DEF TypeOK
  <1>5. TypeOK' BY <1>1, <1>2, <1>3, <1>4 DEF TypeOK, ReserveStep
  <1> QED BY <1>2, <1>4, <1>5, DebtsUntouched DEF Preserved, IInv, ReserveStep

\* A transfer of aTokens moves what the sender has.
LEMMA TransferLemma ==
  ASSUME IInv, NEW from \in Users, NEW to \in Users, NEW r \in Reserves, NEW amount \in Nat,
         transfer(from, to, r, amount)
  PROVE  Preserved
  <1> DEFINE scaled == IF r \in Debts THEN rayDiv(amount, normalizedIncome(r)) ELSE amount
  <1>1. TypeOK /\ from \in Accounts /\ to \in Accounts BY DEF IInv, Accounts
  <1>2. scaled \in Nat
    <2>1. CASE r \in Debts
      <3>1. normalizedIncome(r) \in Nat \ {0} BY <2>1, IncomeAtLeastOne, MathAssumption
      <3> QED BY <2>1, <3>1, MathNat
    <2>2. CASE r \notin Debts BY <2>2
    <2> QED BY <2>1, <2>2
  <1>3. /\ from # to /\ scaled <= aBalance[r][from]
        /\ aBalance' = [aBalance EXCEPT ![r][from] = @ - scaled, ![r][to] = @ + scaled]
        /\ UNCHANGED <<now, paused, frozen, reserve, borrowing, aSupply, cash, debtBalance,
                       debtSupply, borrowAllowance, price, pricePerShare>>
    BY DEF transfer
  <1>4. usingAsCollateral' \in [Users -> SUBSET Reserves]
    <2> DEFINE cleared == [usingAsCollateral EXCEPT ![from] =
                             IF amount = balanceOf(r, from, aBalance) THEN @ \ {r} ELSE @]
    <2>1. cleared \in [Users -> SUBSET Reserves] BY <1>1 DEF TypeOK
    <2>2. usingAsCollateral' = [cleared EXCEPT ![to] =
            IF balanceOf(r, to, aBalance) = 0 /\ amount # 0 /\ r \in Collaterals
            THEN @ \cup {r} ELSE @]
      BY DEF transfer
    <2> HIDE DEF cleared
    <2> QED BY <2>1, <2>2
  <1> HIDE DEF scaled
  <1>5. aBalance' \in [Reserves -> [Accounts -> Nat]]
    <2>1. aBalance[r][from] - scaled \in Nat /\ aBalance[r][to] + scaled \in Nat
      BY <1>1, <1>2, <1>3 DEF TypeOK
    <2>2. aBalance' = [aBalance EXCEPT ![r][from] = aBalance[r][from] - scaled,
                                       ![r][to] = aBalance[r][to] + scaled]
      BY <1>1, <1>3 DEF TypeOK
    <2> QED BY <1>1, <2>1, <2>2 DEF TypeOK
  <1>6. ReserveStep BY <1>1, <1>3, NoReserveChanges DEF TypeOK
  <1>7. TypeOK' BY <1>1, <1>3, <1>4, <1>5, <1>6 DEF TypeOK, ReserveStep
  <1> QED BY <1>3, <1>6, <1>7, DebtsUntouched DEF Preserved, IInv, ReserveStep

\* What a liquidation seizes is a natural the borrower has.
LEMMA SeizureLemma ==
  ASSUME IInv, NEW c \in Collaterals, NEW d \in Debts, NEW cover \in Nat, NEW has \in Nat
  PROVE  LET available == calculateAvailableCollateralToLiquidate(c, d, cover, has)
         IN  available[1] \in Nat /\ available[2] \in Nat /\ available[1] <= has
  <1> DEFINE bonus == Config[c].liquidationBonus
             most == percentMul(price[d] * cover * Config[c].unit, bonus)
                       \div (price[c] * Config[d].unit)
             need == percentDiv((price[c] * has * Config[d].unit)
                                  \div (price[d] * Config[c].unit), bonus)
  <1>1. /\ price[c] \in Nat \ {0} /\ price[d] \in Nat \ {0}
        /\ Config[c].unit \in Nat \ {0} /\ Config[d].unit \in Nat \ {0} /\ bonus \in Nat \ {0}
    BY StorageAssumption DEF IInv, TypeOK, Reserves, ReserveConfig
  <1>2. /\ price[c] * Config[d].unit \in Nat \ {0}
        /\ price[d] * Config[c].unit \in Nat \ {0}
    BY <1>1
  <1>3. most \in Nat
    <2>1. price[d] * cover \in Nat BY <1>1, ProductNat
    <2>2. price[d] * cover * Config[c].unit \in Nat BY <1>1, <2>1, ProductNat
    <2>3. percentMul(price[d] * cover * Config[c].unit, bonus) \in Nat BY <1>1, <2>2, MathNat
    <2> QED BY <1>2, <2>3, DivBounds
  <1>4. need \in Nat
    <2>1. price[c] * has \in Nat BY <1>1, ProductNat
    <2>2. price[c] * has * Config[d].unit \in Nat BY <1>1, <2>1, ProductNat
    <2>3. (price[c] * has * Config[d].unit) \div (price[d] * Config[c].unit) \in Nat
      BY <1>2, <2>2, DivBounds
    <2> QED BY <1>1, <2>3, MathNat
  <1>5. calculateAvailableCollateralToLiquidate(c, d, cover, has)
          = IF most > has THEN <<has, need>> ELSE <<most, cover>>
    BY DEF calculateAvailableCollateralToLiquidate
  <1> HIDE DEF most, need
  <1> QED BY <1>3, <1>4, <1>5

\* A liquidation burns part of the debt and leaves the borrowing bits alone.
LEMMA LiquidationLemma ==
  ASSUME IInv, NEW liquidator \in Users, NEW u \in Users, NEW c \in Collaterals,
         NEW d \in Debts, NEW debtToCover \in Nat, NEW receiveAToken \in BOOLEAN,
         liquidationCall(liquidator, u, c, d, debtToCover, receiveAToken)
  PROVE  Preserved
  <1> DEFINE has       == aBalance[c][u]
             maxDebt   == percentMul(debtBalanceOf(d, u), LIQUIDATION_CLOSE_FACTOR_PERCENT)
             covered   == IF debtToCover > maxDebt THEN maxDebt ELSE debtToCover
             available == calculateAvailableCollateralToLiquidate(c, d, covered, has)
             seized    == available[1]
             actual    == IF available[2] < covered THEN available[2] ELSE covered
             r         == accruedReserve(d, TRUE)
             scaled    == rayDiv(actual, r.variableBorrowIndex)
             mint      == treasuryMint(d, TRUE)
             share     == shareOf(c, seized)
             minted    == [aBalance EXCEPT ![d][Treasury] = @ + mint]
             taken     == [minted EXCEPT ![c][u] = @ - seized]
             flagged   == IF receiveAToken /\ aBalance[c][liquidator] = 0
                          THEN setUsingAsCollateral(liquidator, c, TRUE)
                          ELSE usingAsCollateral
  <1>1. /\ TypeOK /\ d \in Reserves /\ c \in Reserves /\ c # d
        /\ u \in Accounts /\ liquidator \in Accounts /\ Treasury \in Accounts
    BY StorageAssumption DEF IInv, Reserves, Accounts
  <1>2. has \in Nat BY <1>1 DEF TypeOK
  <1>3. covered \in Nat
    <2>1. debtBalanceOf(d, u) \in Nat BY ViewsNat
    <2>2. LIQUIDATION_CLOSE_FACTOR_PERCENT \in Nat
      BY MathAssumption DEF LIQUIDATION_CLOSE_FACTOR_PERCENT
    <2>3. maxDebt \in Nat BY <2>1, <2>2, MathNat
    <2> HIDE DEF maxDebt
    <2> QED BY <2>3
  <1>4. seized \in Nat /\ seized <= has /\ actual \in Nat
    <2> HIDE DEF has, covered
    <2>1. available[1] \in Nat /\ available[2] \in Nat /\ available[1] <= has
      BY <1>2, <1>3, SeizureLemma
    <2> HIDE DEF available
    <2> QED BY <1>3, <2>1
  <1>5. scaled \in Nat
    <2> HIDE DEF actual
    <2> QED BY <1>4, ScaledNat
  <1>6. Advanced(reserve[d], r) /\ mint \in Nat BY AccrualLemma
  <1>7. share \in Nat
    <2> HIDE DEF seized
    <2> QED BY <1>4, ShareNat
  <1>8. /\ scaled <= debtBalance[d][u] /\ scaled <= debtSupply[d]
        /\ debtBalance' = [debtBalance EXCEPT ![d][u] = @ - scaled]
        /\ debtSupply' = [debtSupply EXCEPT ![d] = @ - scaled]
        /\ reserve' = [reserve EXCEPT ![d] =
                         withRates(d, TRUE, r, cash[d] + actual, debtSupply[d] - scaled)]
        /\ \/ /\ aBalance' = [taken EXCEPT ![c][liquidator] = @ + seized]
              /\ aSupply' = [aSupply EXCEPT ![d] = @ + mint]
              /\ cash' = [cash EXCEPT ![d] = @ + actual]
           \/ /\ seized <= aSupply[c]
              /\ share <= cash[c]
              /\ aBalance' = taken
              /\ aSupply' = [aSupply EXCEPT ![d] = @ + mint, ![c] = @ - seized]
              /\ cash' = [cash EXCEPT ![d] = @ + actual, ![c] = @ - share]
        /\ usingAsCollateral' = [flagged EXCEPT ![u] = IF seized = has THEN @ \ {c} ELSE @]
        /\ UNCHANGED <<now, paused, frozen, borrowing, borrowAllowance, price, pricePerShare>>
    BY DEF liquidationCall
  <1>9. flagged \in [Users -> SUBSET Reserves]
    <2>1. setUsingAsCollateral(liquidator, c, TRUE) \in [Users -> SUBSET Reserves]
      BY <1>1, CollateralBitsType
    <2> QED BY <1>1, <2>1 DEF TypeOK
  <1> HIDE DEF covered, available, seized, actual, r, scaled, mint, share, flagged
  <1>10. ReserveStep
    <2>1. /\ reserve[d] \in ReserveData
          /\ cash[d] + actual \in Nat /\ debtSupply[d] - scaled \in Nat
      BY <1>1, <1>4, <1>5, <1>8 DEF TypeOK
    <2>2. Advanced(reserve[d], withRates(d, TRUE, r, cash[d] + actual, debtSupply[d] - scaled))
      BY <1>6, <2>1, WithRatesLemma
    <2> QED BY <1>8, <2>2, OneReserveAdvances
  <1>11. aBalance' \in [Reserves -> [Accounts -> Nat]]
    <2>1. minted \in [Reserves -> [Accounts -> Nat]] /\ minted[c][u] = has
      BY <1>1, <1>6 DEF TypeOK
    <2> HIDE DEF minted
    <2>2. taken \in [Reserves -> [Accounts -> Nat]] BY <1>1, <1>2, <1>4, <2>1
    <2> HIDE DEF taken
    <2>3. [taken EXCEPT ![c][liquidator] = @ + seized] \in [Reserves -> [Accounts -> Nat]]
      BY <1>1, <1>4, <2>2
    <2> QED BY <1>8, <2>2, <2>3
  <1>12. aSupply' \in [Reserves -> Nat]
    <2>1. /\ aSupply \in [Reserves -> Nat] /\ aSupply[d] + mint \in Nat
          /\ seized <= aSupply[c] => aSupply[c] - seized \in Nat
      BY <1>1, <1>4, <1>6 DEF TypeOK
    <2>2. \/ aSupply' = [aSupply EXCEPT ![d] = aSupply[d] + mint]
          \/ /\ seized <= aSupply[c]
             /\ aSupply' = [aSupply EXCEPT ![d] = aSupply[d] + mint, ![c] = aSupply[c] - seized]
      BY <1>1, <1>8, <2>1
    <2> QED BY <1>1, <2>1, <2>2
  <1>13. cash' \in [Reserves -> Nat]
    <2>1. /\ cash \in [Reserves -> Nat] /\ cash[d] + actual \in Nat
          /\ share <= cash[c] => cash[c] - share \in Nat
      BY <1>1, <1>4, <1>7 DEF TypeOK
    <2>2. \/ cash' = [cash EXCEPT ![d] = cash[d] + actual]
          \/ /\ share <= cash[c]
             /\ cash' = [cash EXCEPT ![d] = cash[d] + actual, ![c] = cash[c] - share]
      BY <1>1, <1>8, <2>1
    <2> QED BY <1>1, <2>1, <2>2
  <1>14. debtBalance' \in [Debts -> [Users -> Nat]] /\ debtSupply' \in [Debts -> Nat]
    BY <1>1, <1>5, <1>8 DEF TypeOK
  <1>15. usingAsCollateral' \in [Users -> SUBSET Reserves]
    <2> HIDE DEF has
    <2> QED BY <1>8, <1>9
  <1>16. TypeOK'
    BY <1>1, <1>8, <1>10, <1>11, <1>12, <1>13, <1>14, <1>15 DEF TypeOK, ReserveStep
  <1>17. NoHiddenDebt'
    <2>1. SUFFICES ASSUME NEW v \in Users, NEW e \in Debts, debtBalance'[e][v] # 0
                   PROVE  e \in borrowing'[v]
      BY DEF NoHiddenDebt
    <2>2. debtBalance[e][v] # 0 BY <1>1, <1>5, <1>8, <2>1 DEF TypeOK
    <2> QED BY <1>8, <2>2 DEF IInv, NoHiddenDebt
  <1> QED BY <1>10, <1>16, <1>17 DEF Preserved, IInv, ReserveStep

\* Administration and the environment.
LEMMA OtherStepsLemma ==
  ASSUME IInv,
         \/ \E val \in BOOLEAN : setPause(val)
         \/ \E r \in Reserves, val \in BOOLEAN : setReserveFreeze(r, val)
         \/ AdvanceTime
         \/ \E r \in Reserves : \E p \in Prices[r] : OracleUpdate(r, p)
         \/ \E c \in Collaterals : \E p \in PPS[c] : VaultEarns(c, p)
         \/ UNCHANGED vars
  PROVE  Preserved
  <1>1. TypeOK BY DEF IInv
  <1>2. UNCHANGED <<reserve, usingAsCollateral, borrowing, aBalance, aSupply, cash, debtBalance,
                    debtSupply, borrowAllowance>>
    BY DEF setPause, setReserveFreeze, AdvanceTime, OracleUpdate, VaultEarns, vars
  <1>3. now' \in Nat /\ now <= now'
    BY <1>1 DEF setPause, setReserveFreeze, AdvanceTime, OracleUpdate, VaultEarns, vars, TypeOK
  <1>4. ReserveStep BY <1>2, <1>3, NoReserveChanges
  <1>5. paused' \in BOOLEAN /\ frozen' \in SUBSET Reserves
    BY <1>1 DEF setPause, setReserveFreeze, AdvanceTime, OracleUpdate, VaultEarns, vars, TypeOK
  <1>6. price' \in [Reserves -> Nat \ {0}]
    BY <1>1, PoolAssumption
    DEF setPause, setReserveFreeze, AdvanceTime, OracleUpdate, VaultEarns, vars, TypeOK
  <1>7. pricePerShare' \in [Collaterals -> Nat \ {0}]
    BY <1>1, PoolAssumption
    DEF setPause, setReserveFreeze, AdvanceTime, OracleUpdate, VaultEarns, vars, TypeOK
  <1>8. TypeOK' BY <1>1, <1>2, <1>3, <1>4, <1>5, <1>6, <1>7 DEF TypeOK, ReserveStep
  <1> QED BY <1>2, <1>4, <1>8, DebtsUntouched DEF Preserved, IInv, ReserveStep
-----------------------------------------------------------------------------
(* The invariant and its consequences. *)

\* The state initialize leaves.
LEMMA InitIInv == Init => IInv
  <1> SUFFICES ASSUME Init PROVE IInv OBVIOUS
  <1>1. initReserveData \in ReserveData BY MathAssumption DEF initReserveData, ReserveData
  <1>2. price \in [Reserves -> Nat \ {0}] BY PoolAssumption DEF Init
  <1>3. pricePerShare \in [Collaterals -> Nat \ {0}]
    <2>1. ASSUME NEW c \in Collaterals PROVE RAY \div Config[c].scale \in Nat \ {0}
      <3>1. Config[c].scale \in Nat \ {0} BY StorageAssumption DEF Reserves, ReserveConfig
      <3>2. RAY \div Config[c].scale \in Nat BY <3>1, MathAssumption, DivBounds
      <3> QED BY <3>2, PoolAssumption
    <2> QED BY <2>1 DEF Init
  <1>4. TypeOK BY <1>1, <1>2, <1>3 DEF Init, TypeOK, Accounts
  <1>5. IndexesSound BY MathAssumption DEF Init, IndexesSound, initReserveData
  <1>6. NoHiddenDebt BY DEF Init, NoHiddenDebt
  <1> QED BY <1>4, <1>5, <1>6 DEF IInv

\* Every step preserves the invariant and moves no index back.
LEMMA NextIInv == IInv /\ [Next]_vars => Preserved
  <1> SUFFICES ASSUME IInv, [Next]_vars PROVE Preserved OBVIOUS
  <1>1. /\ \A o \in AmountOf : Amounts[o] \subseteq Nat
        /\ MAX_UINT \in Nat
    BY PoolAssumption, StorageAssumption
  <1>2. /\ Amounts.deposit \subseteq Nat /\ Amounts.withdraw \cup {MAX_UINT} \subseteq Nat
        /\ Amounts.yield \subseteq Nat /\ Amounts.collateral \subseteq Nat
        /\ Amounts.withdrawCollateral \cup {MAX_UINT} \subseteq Nat
        /\ Amounts.borrow \subseteq Nat /\ Amounts.repay \cup {MAX_UINT} \subseteq Nat
        /\ Amounts.delegate \subseteq Nat /\ Amounts.transfer \subseteq Nat
        /\ Amounts.cover \cup {MAX_UINT} \subseteq Nat
    BY <1>1 DEF AmountOf
  <1>3. CASE \E u \in Users, d \in Debts, amount \in Amounts.deposit : deposit(u, d, amount)
    BY <1>2, <1>3, DepositLemma
  <1>4. CASE \E u \in Users, d \in Debts, amount \in Amounts.withdraw \cup {MAX_UINT} :
               withdraw(u, d, amount)
    BY <1>2, <1>4, WithdrawLemma
  <1>5. CASE \E d \in Debts, amount \in Amounts.yield : depositYield(d, amount)
    BY <1>2, <1>5, DepositYieldLemma
  <1>6. CASE \E u \in Users, c \in Collaterals, share \in Amounts.collateral :
               depositCollateral(u, c, share)
    BY <1>2, <1>6, DepositCollateralLemma
  <1>7. CASE \E u \in Users, c \in Collaterals,
                amount \in Amounts.withdrawCollateral \cup {MAX_UINT} :
               withdrawCollateral(u, c, amount)
    BY <1>2, <1>7, WithdrawCollateralLemma
  <1>8. CASE \E c \in Collaterals : getYield(c)
    BY <1>8, GetYieldLemma
  <1>9. CASE \E caller, u \in Users, d \in Debts, amount \in Amounts.borrow :
               borrow(caller, u, d, amount)
    BY <1>2, <1>9, BorrowLemma
  <1>10. CASE \E caller, u \in Users, d \in Debts, amount \in Amounts.repay \cup {MAX_UINT} :
                repay(caller, u, d, amount)
    BY <1>2, <1>10, RepayLemma
  <1>11. CASE \E u, v \in Users, d \in Debts, amount \in Amounts.delegate :
                approveDelegation(u, v, d, amount)
    BY <1>2, <1>11, ApproveDelegationLemma
  <1>12. CASE \E u \in Users, r \in Reserves, use \in BOOLEAN :
                setUserUseReserveAsCollateral(u, r, use)
    BY <1>12, SetUserUseLemma
  <1>13. CASE \E from, to \in Users, r \in Reserves, amount \in Amounts.transfer :
                transfer(from, to, r, amount)
    BY <1>2, <1>13, TransferLemma
  <1>14. CASE \E liquidator, u \in Users, c \in Collaterals, d \in Debts,
                 debtToCover \in Amounts.cover \cup {MAX_UINT}, receiveAToken \in BOOLEAN :
                 liquidationCall(liquidator, u, c, d, debtToCover, receiveAToken)
    BY <1>2, <1>14, LiquidationLemma
  <1>15. CASE \/ \E val \in BOOLEAN : setPause(val)
              \/ \E r \in Reserves, val \in BOOLEAN : setReserveFreeze(r, val)
              \/ AdvanceTime
              \/ \E r \in Reserves : \E p \in Prices[r] : OracleUpdate(r, p)
              \/ \E c \in Collaterals : \E p \in PPS[c] : VaultEarns(c, p)
              \/ UNCHANGED vars
    BY <1>15, OtherStepsLemma
  <1> QED BY <1>3, <1>4, <1>5, <1>6, <1>7, <1>8, <1>9, <1>10, <1>11, <1>12, <1>13, <1>14,
             <1>15 DEF Next

\* The inductive invariant, of which the theorems are consequences.
LEMMA InductiveInvariant == Spec => []IInv
  <1>1. IInv /\ [Next]_vars => IInv' BY NextIInv DEF Preserved
  <1> QED BY InitIInv, <1>1, PTL DEF Spec

\* The state keeps its types: no balance, supply, debt or allowance ever goes
\* below zero and no index divides by zero, whatever is called in what order.
THEOREM TypeCorrectness == Spec => []TypeOK
  <1>1. IInv => TypeOK BY DEF IInv
  <1> QED BY <1>1, InductiveInvariant, PTL

\* No account ever owes scaled debt in a reserve whose borrowing bit is clear,
\* although repay clears the bit from a view and burns at a stored index.
THEOREM EveryDebtIsVisible == Spec => []NoHiddenDebt
  <1>1. IInv => NoHiddenDebt BY DEF IInv
  <1> QED BY <1>1, InductiveInvariant, PTL

\* No operation lowers an index or a time stamp of a reserve, or moves a time
\* stamp past the present.
THEOREM IndexesAreMonotonic == Spec => IndexesNeverFall
  <1>1. IInv /\ [Next]_vars => [IndexStep]_vars BY NextIInv DEF Preserved
  <1> QED BY <1>1, InductiveInvariant, PTL DEF Spec, IndexesNeverFall

-----------------------------------------------------------------------------
(* The tokens *)

\* A row of balances f with supply s becomes g with supply t.
RowKept(f, s, g, t, S) == SumFunctionOnSet(g, S) - SumFunctionOnSet(f, S) = t - s

\* What an operation does to the aToken of r, and to the debt token of d.
ARowKept(r) == RowKept(aBalance[r], aSupply[r], aBalance'[r], aSupply'[r], Accounts)
DebtRowKept(d) == RowKept(debtBalance[d], debtSupply[d], debtBalance'[d], debtSupply'[d], Users)

TokensKept == (\A r \in Reserves : ARowKept(r)) /\ (\A d \in Debts : DebtRowKept(d))

\* There are finitely many accounts: the users and the treasury.
LEMMA AccountsFinite == IsFiniteSet(Users) /\ IsFiniteSet(Accounts)
  BY StorageAssumption, FS_AddElement DEF Accounts

\* Sums of the rows are numbers.
LEMMA RowSums ==
  ASSUME IInv
  PROVE  /\ \A r \in Reserves : /\ aBalance[r] \in [Accounts -> Nat] /\ aSupply[r] \in Nat
                                /\ SumFunctionOnSet(aBalance[r], Accounts) \in Nat
         /\ \A d \in Debts : /\ debtBalance[d] \in [Users -> Nat] /\ debtSupply[d] \in Nat
                             /\ SumFunctionOnSet(debtBalance[d], Users) \in Nat
  <1>1. /\ \A r \in Reserves : aBalance[r] \in [Accounts -> Nat] /\ aSupply[r] \in Nat
        /\ \A d \in Debts : debtBalance[d] \in [Users -> Nat] /\ debtSupply[d] \in Nat
    BY DEF IInv, TypeOK
  <1>2. ASSUME NEW r \in Reserves PROVE SumFunctionOnSet(aBalance[r], Accounts) \in Nat
    <2>1. \A a \in Accounts : aBalance[r][a] \in Nat BY <1>1
    <2> QED BY <2>1, AccountsFinite, SumNat
  <1>3. ASSUME NEW d \in Debts PROVE SumFunctionOnSet(debtBalance[d], Users) \in Nat
    <2>1. \A a \in Users : debtBalance[d][a] \in Nat BY <1>1
    <2> QED BY <2>1, AccountsFinite, SumNat
  <1> QED BY <1>1, <1>2, <1>3

\* The four ways a row of a token moves: not at all, one balance with the supply,
\* two balances with the supply.
LEMMA RowSame ==
  ASSUME NEW S, IsFiniteSet(S), NEW f \in [S -> Nat], NEW s \in Nat
  PROVE  RowKept(f, s, f, s, S)
  <1>1. SumFunctionOnSet(f, S) \in Nat
    <2>1. \A a \in S : f[a] \in Nat OBVIOUS
    <2> QED BY <2>1, SumNat
  <1> QED BY <1>1 DEF RowKept

\* A row in which one balance moves, and the supply with it.
LEMMA RowOne ==
  ASSUME NEW S, IsFiniteSet(S), NEW f \in [S -> Nat], NEW s \in Nat, NEW x \in S, NEW v \in Nat,
         NEW g, g = [f EXCEPT ![x] = v], NEW t, t = s + v - f[x]
  PROVE  RowKept(f, s, g, t, S)
  <1>1. /\ \A y \in S : f[y] \in Int
        /\ g[x] \in Int /\ g[x] = v
        /\ \A y \in S \ {x} : g[y] = f[y]
    OBVIOUS
  <1>2. SumFunctionOnSet(g, S) = SumFunctionOnSet(f, S) - f[x] + g[x]
    BY ONLY <1>1, SumChange, IsFiniteSet(S), x \in S
  <1>3. SumFunctionOnSet(f, S) \in Int
    BY ONLY <1>1, SumRemove, IsFiniteSet(S)
  <1>4. t = s + v - f[x] OBVIOUS
  <1>5. f[x] \in Nat /\ v \in Nat /\ s \in Nat OBVIOUS
  <1> QED BY ONLY <1>1, <1>2, <1>3, <1>4, <1>5 DEF RowKept

\* A row in which two balances move, and the supply with them.
LEMMA RowTwo ==
  ASSUME NEW S, IsFiniteSet(S), NEW f \in [S -> Nat], NEW s \in Nat, NEW x \in S, NEW y \in S,
         x # y, NEW v \in Nat, NEW w \in Nat, NEW g, g = [f EXCEPT ![x] = v, ![y] = w],
         NEW t, t = s + v - f[x] + w - f[y]
  PROVE  RowKept(f, s, g, t, S)
  <1>1. /\ \A z \in S : f[z] \in Int
        /\ g[x] = v /\ g[y] = w /\ g[x] \in Int /\ g[y] \in Int
        /\ \A z \in S \ {x, y} : g[z] = f[z]
    OBVIOUS
  <1>2. SumFunctionOnSet(g, S) = SumFunctionOnSet(f, S) - f[x] + g[x] - f[y] + g[y]
    BY ONLY <1>1, SumChangeTwo, IsFiniteSet(S), x \in S, y \in S, x # y
  <1>3. SumFunctionOnSet(f, S) \in Int
    BY ONLY <1>1, SumRemove, IsFiniteSet(S)
  <1>4. t = s + v - f[x] + w - f[y] OBVIOUS
  <1>5. f[x] \in Nat /\ v \in Nat /\ s \in Nat /\ f[y] \in Nat /\ w \in Nat OBVIOUS
  <1> QED BY ONLY <1>1, <1>2, <1>3, <1>4, <1>5 DEF RowKept

\* Kept rows keep the property.
LEMMA KeptSupplies ==
  ASSUME IInv, SupplyIsSumOfBalances, TokensKept, aSupply' \in [Reserves -> Nat],
         debtSupply' \in [Debts -> Nat], IInv'
  PROVE  SupplyIsSumOfBalances'
  <1>1. ASSUME NEW r \in Reserves
        PROVE  aSupply'[r] = SumFunctionOnSet(aBalance'[r], Accounts)
    <2>1. /\ aSupply[r] = SumFunctionOnSet(aBalance[r], Accounts) /\ aSupply[r] \in Nat
          /\ aSupply'[r] \in Nat
      BY RowSums DEF SupplyIsSumOfBalances
    <2>2. SumFunctionOnSet(aBalance'[r], Accounts) \in Nat
      <3>1. \A a \in Accounts : aBalance'[r][a] \in Nat BY DEF IInv, TypeOK
      <3> QED BY <3>1, AccountsFinite, SumNat
    <2>3. SumFunctionOnSet(aBalance'[r], Accounts) - SumFunctionOnSet(aBalance[r], Accounts)
            = aSupply'[r] - aSupply[r]
      BY DEF TokensKept, ARowKept, RowKept
    <2> QED BY <2>1, <2>2, <2>3
  <1>2. ASSUME NEW d \in Debts
        PROVE  debtSupply'[d] = SumFunctionOnSet(debtBalance'[d], Users)
    <2>1. /\ debtSupply[d] = SumFunctionOnSet(debtBalance[d], Users) /\ debtSupply[d] \in Nat
          /\ debtSupply'[d] \in Nat
      BY RowSums DEF SupplyIsSumOfBalances
    <2>2. SumFunctionOnSet(debtBalance'[d], Users) \in Nat
      <3>1. \A a \in Users : debtBalance'[d][a] \in Nat BY DEF IInv, TypeOK
      <3> QED BY <3>1, AccountsFinite, SumNat
    <2>3. SumFunctionOnSet(debtBalance'[d], Users) - SumFunctionOnSet(debtBalance[d], Users)
            = debtSupply'[d] - debtSupply[d]
      BY DEF TokensKept, DebtRowKept, RowKept
    <2> QED BY <2>1, <2>2, <2>3
  <1> QED BY <1>1, <1>2 DEF SupplyIsSumOfBalances
-----------------------------------------------------------------------------
(* Every operation keeps the rows. *)

\* The rows an operation leaves alone.
LEMMA ARowSame ==
  ASSUME IInv, NEW r \in Reserves, aBalance'[r] = aBalance[r], aSupply'[r] = aSupply[r]
  PROVE  ARowKept(r)
  <1>1. aBalance[r] \in [Accounts -> Nat] /\ aSupply[r] \in Nat BY RowSums
  <1>2. RowKept(aBalance[r], aSupply[r], aBalance[r], aSupply[r], Accounts)
    BY <1>1, AccountsFinite, RowSame
  <1> QED BY <1>2 DEF ARowKept

\* Rows of debt that nothing touches.
LEMMA DebtRowsSame ==
  ASSUME IInv, UNCHANGED <<debtBalance, debtSupply>>
  PROVE  \A d \in Debts : DebtRowKept(d)
  <1> SUFFICES ASSUME NEW d \in Debts PROVE DebtRowKept(d) OBVIOUS
  <1>1. debtBalance[d] \in [Users -> Nat] /\ debtSupply[d] \in Nat BY RowSums
  <1>2. RowKept(debtBalance[d], debtSupply[d], debtBalance[d], debtSupply[d], Users)
    BY <1>1, AccountsFinite, RowSame
  <1> QED BY <1>2 DEF DebtRowKept

\* One row of the table moves at one account.
LEMMA AOneMoves ==
  ASSUME IInv, NEW d \in Reserves, NEW x \in Accounts, NEW v \in Nat,
         aBalance' = [aBalance EXCEPT ![d][x] = v],
         aSupply' = [aSupply EXCEPT ![d] = aSupply[d] + v - aBalance[d][x]]
  PROVE  \A r \in Reserves : ARowKept(r)
  <1>1. aBalance \in [Reserves -> [Accounts -> Nat]] /\ aSupply \in [Reserves -> Nat]
    BY DEF IInv, TypeOK
  <1>2. ASSUME NEW r \in Reserves, r # d PROVE ARowKept(r)
    BY <1>1, <1>2, ARowSame
  <1>3. ARowKept(d)
    <2>1. /\ aBalance[d] \in [Accounts -> Nat] /\ aSupply[d] \in Nat
          /\ aBalance'[d] = [aBalance[d] EXCEPT ![x] = v]
          /\ aSupply'[d] = aSupply[d] + v - aBalance[d][x]
      BY <1>1
    <2>2. RowKept(aBalance[d], aSupply[d], aBalance'[d], aSupply'[d], Accounts)
      BY ONLY <2>1, RowOne, AccountsFinite, x \in Accounts, v \in Nat
    <2> QED BY <2>2 DEF ARowKept
  <1> QED BY <1>2, <1>3

\* One row of debt moves at one account.
LEMMA DebtOneMoves ==
  ASSUME IInv, NEW d \in Debts, NEW x \in Users, NEW v \in Nat,
         debtBalance' = [debtBalance EXCEPT ![d][x] = v],
         debtSupply' = [debtSupply EXCEPT ![d] = debtSupply[d] + v - debtBalance[d][x]]
  PROVE  \A e \in Debts : DebtRowKept(e)
  <1>1. debtBalance \in [Debts -> [Users -> Nat]] /\ debtSupply \in [Debts -> Nat]
    BY DEF IInv, TypeOK
  <1>2. ASSUME NEW e \in Debts, e # d PROVE DebtRowKept(e)
    <2>1. debtBalance[e] \in [Users -> Nat] /\ debtSupply[e] \in Nat
          /\ debtBalance'[e] = debtBalance[e] /\ debtSupply'[e] = debtSupply[e]
      BY <1>1, <1>2
    <2>2. RowKept(debtBalance[e], debtSupply[e], debtBalance[e], debtSupply[e], Users)
      BY <2>1, AccountsFinite, RowSame
    <2> QED BY <2>1, <2>2 DEF DebtRowKept
  <1>3. DebtRowKept(d)
    <2>1. /\ debtBalance[d] \in [Users -> Nat] /\ debtSupply[d] \in Nat
          /\ debtBalance'[d] = [debtBalance[d] EXCEPT ![x] = v]
          /\ debtSupply'[d] = debtSupply[d] + v - debtBalance[d][x]
      BY <1>1
    <2>2. RowKept(debtBalance[d], debtSupply[d], debtBalance'[d], debtSupply'[d], Users)
      BY ONLY <2>1, RowOne, AccountsFinite, x \in Users, v \in Nat
    <2> QED BY <2>2 DEF DebtRowKept
  <1> QED BY <1>2, <1>3

\* One row moves at two accounts.
LEMMA ATwoMove ==
  ASSUME IInv, NEW d \in Reserves, NEW x \in Accounts, NEW y \in Accounts, x # y,
         NEW v \in Nat, NEW w \in Nat,
         aBalance' = [aBalance EXCEPT ![d][x] = v, ![d][y] = w],
         aSupply' = [aSupply EXCEPT ![d] = aSupply[d] + v - aBalance[d][x] + w - aBalance[d][y]]
  PROVE  \A r \in Reserves : ARowKept(r)
  <1>1. aBalance \in [Reserves -> [Accounts -> Nat]] /\ aSupply \in [Reserves -> Nat]
    BY DEF IInv, TypeOK
  <1>2. ASSUME NEW r \in Reserves, r # d PROVE ARowKept(r)
    BY <1>1, <1>2, ARowSame
  <1>3. ARowKept(d)
    <2>1. /\ aBalance[d] \in [Accounts -> Nat] /\ aSupply[d] \in Nat
          /\ aBalance'[d] = [aBalance[d] EXCEPT ![x] = v, ![y] = w]
          /\ aSupply'[d] = aSupply[d] + v - aBalance[d][x] + w - aBalance[d][y]
      BY <1>1
    <2>2. RowKept(aBalance[d], aSupply[d], aBalance'[d], aSupply'[d], Accounts)
      BY ONLY <2>1, RowTwo, AccountsFinite, x \in Accounts, y \in Accounts, x # y,
              v \in Nat, w \in Nat
    <2> QED BY <2>2 DEF ARowKept
  <1> QED BY <1>2, <1>3

\* The mint to the treasury alone.
LEMMA TreasuryRow ==
  ASSUME IInv, NEW d \in Debts, NEW always \in BOOLEAN, treasuryAccrues(d, always)
  PROVE  \A r \in Reserves : ARowKept(r)
  <1> DEFINE mint == treasuryMint(d, always)
  <1>1. mint \in Nat BY AccrualLemma
  <1>2. /\ aBalance \in [Reserves -> [Accounts -> Nat]] /\ aSupply \in [Reserves -> Nat]
        /\ d \in Reserves /\ Treasury \in Accounts
    BY DEF IInv, TypeOK, Reserves, Accounts
  <1>3. /\ aBalance' = [aBalance EXCEPT ![d][Treasury] = @ + mint]
        /\ aSupply' = [aSupply EXCEPT ![d] = @ + mint]
    BY DEF treasuryAccrues
  <1> HIDE DEF mint
  <1> DEFINE v == aBalance[d][Treasury] + mint
  <1>4. v \in Nat /\ aSupply[d] + mint = aSupply[d] + v - aBalance[d][Treasury]
    <2>1. aBalance[d][Treasury] \in Nat /\ aSupply[d] \in Nat BY <1>2
    <2> QED BY <1>1, <2>1
  <1>5. /\ aBalance' = [aBalance EXCEPT ![d][Treasury] = v]
        /\ aSupply' = [aSupply EXCEPT ![d] = aSupply[d] + v - aBalance[d][Treasury]]
    BY <1>2, <1>3, <1>4
  <1> HIDE DEF v
  <1> QED BY <1>2, <1>4, <1>5, AOneMoves

\* A supplier's balance moves together with the mint to the treasury.
LEMMA SupplierRow ==
  ASSUME IInv, NEW d \in Debts, NEW always \in BOOLEAN, NEW u \in Users, NEW v \in Nat,
         aBalance' = aTokensOf(d, always, u, v),
         aSupply' = [aSupply EXCEPT ![d] = aSupply[d] + treasuryMint(d, always) + v - aBalance[d][u]]
  PROVE  \A r \in Reserves : ARowKept(r)
  <1> DEFINE mint == treasuryMint(d, always)
             w == aBalance[d][Treasury] + mint
  <1>1. mint \in Nat BY AccrualLemma
  <1>2. /\ aBalance \in [Reserves -> [Accounts -> Nat]] /\ aSupply \in [Reserves -> Nat]
        /\ d \in Reserves /\ Treasury \in Accounts /\ u \in Accounts /\ Treasury # u
    BY StorageAssumption DEF IInv, TypeOK, Reserves, Accounts
  <1>3. aBalance' = [aBalance EXCEPT ![d][Treasury] = @ + mint, ![d][u] = v]
    BY DEF aTokensOf
  <1>4. aSupply' = [aSupply EXCEPT ![d] = aSupply[d] + mint + v - aBalance[d][u]]
    OBVIOUS
  <1> HIDE DEF mint
  <1>5. /\ w \in Nat
        /\ aSupply[d] + mint + v - aBalance[d][u]
             = aSupply[d] + w - aBalance[d][Treasury] + v - aBalance[d][u]
    <2>1. aBalance[d][Treasury] \in Nat /\ aBalance[d][u] \in Nat /\ aSupply[d] \in Nat BY <1>2
    <2> QED BY <1>1, <2>1
  <1>6. /\ aBalance' = [aBalance EXCEPT ![d][Treasury] = w, ![d][u] = v]
        /\ aSupply' = [aSupply EXCEPT ![d] =
                         aSupply[d] + w - aBalance[d][Treasury] + v - aBalance[d][u]]
    BY <1>2, <1>3, <1>4, <1>5
  <1> HIDE DEF w
  <1> QED BY ONLY IInv, <1>2, <1>5, <1>6, v \in Nat, ATwoMove

\* deposit moves each supply by what it moves of the balances.
LEMMA DepositTokens ==
  ASSUME IInv, NEW u \in Users, NEW d \in Debts, NEW amount \in Nat, deposit(u, d, amount)
  PROVE  TokensKept
  <1> DEFINE scaled == rayDiv(amount, accruedReserve(d, FALSE).liquidityIndex)
             v == aBalance[d][u] + scaled
  <1>1. scaled \in Nat /\ treasuryMint(d, FALSE) \in Nat BY ScaledNat, AccrualLemma
  <1>2. aBalance[d][u] \in Nat /\ aSupply[d] \in Nat /\ aSupply \in [Reserves -> Nat]
    BY DEF IInv, TypeOK, Reserves, Accounts
  <1>3. /\ aBalance' = aTokensOf(d, FALSE, u, v)
        /\ aSupply' = [aSupply EXCEPT ![d] = @ + treasuryMint(d, FALSE) + scaled]
        /\ UNCHANGED <<debtBalance, debtSupply>>
    BY DEF deposit
  <1> HIDE DEF scaled
  <1>4. /\ v \in Nat
        /\ aSupply[d] + treasuryMint(d, FALSE) + scaled
             = aSupply[d] + treasuryMint(d, FALSE) + v - aBalance[d][u]
    <2> DEFINE mint == treasuryMint(d, FALSE)
    <2>1. mint \in Nat BY <1>1
    <2> HIDE DEF mint
    <2>2. aSupply[d] + mint + scaled = aSupply[d] + mint + v - aBalance[d][u]
      BY <1>1, <1>2, <2>1
    <2>3. v \in Nat BY ONLY <1>1, <1>2, <1>3
    <2> HIDE DEF v
    <2> QED BY ONLY <2>2, <2>3 DEF mint
  <1>5. aSupply' = [aSupply EXCEPT ![d] =
                      aSupply[d] + treasuryMint(d, FALSE) + v - aBalance[d][u]]
    BY <1>2, <1>3, <1>4
  <1> HIDE DEF v
  <1> QED BY <1>3, <1>4, <1>5, SupplierRow, DebtRowsSame DEF TokensKept

\* withdraw moves each supply by what it moves of the balances.
LEMMA WithdrawTokens ==
  ASSUME IInv, NEW u \in Users, NEW d \in Debts, NEW asked \in Nat, withdraw(u, d, asked)
  PROVE  TokensKept
  <1> DEFINE amount == IF asked = MAX_UINT THEN balanceOf(d, u, aBalance) ELSE asked
             scaled == rayDiv(amount, accruedReserve(d, FALSE).liquidityIndex)
             v == aBalance[d][u] - scaled
  <1>1. scaled \in Nat /\ treasuryMint(d, FALSE) \in Nat
    <2>1. amount \in Nat BY ViewsNat
    <2> HIDE DEF amount
    <2> QED BY <2>1, ScaledNat, AccrualLemma
  <1>2. aBalance[d][u] \in Nat /\ aSupply[d] \in Nat /\ aSupply \in [Reserves -> Nat]
    BY DEF IInv, TypeOK, Reserves, Accounts
  <1>3. /\ aBalance' = aTokensOf(d, FALSE, u, v)
        /\ aSupply' = [aSupply EXCEPT ![d] = @ + treasuryMint(d, FALSE) - scaled]
        /\ scaled <= aBalance[d][u]
        /\ UNCHANGED <<debtBalance, debtSupply>>
    BY DEF withdraw
  <1> HIDE DEF scaled
  <1>4. /\ v \in Nat
        /\ aSupply[d] + treasuryMint(d, FALSE) - scaled
             = aSupply[d] + treasuryMint(d, FALSE) + v - aBalance[d][u]
    <2> DEFINE mint == treasuryMint(d, FALSE)
    <2>1. mint \in Nat BY <1>1
    <2> HIDE DEF mint
    <2>2. aSupply[d] + mint - scaled = aSupply[d] + mint + v - aBalance[d][u]
      BY <1>1, <1>2, <2>1
    <2>3. v \in Nat BY ONLY <1>1, <1>2, <1>3
    <2> HIDE DEF v
    <2> QED BY ONLY <2>2, <2>3 DEF mint
  <1>5. aSupply' = [aSupply EXCEPT ![d] =
                      aSupply[d] + treasuryMint(d, FALSE) + v - aBalance[d][u]]
    BY <1>2, <1>3, <1>4
  <1> HIDE DEF v
  <1> QED BY <1>3, <1>4, <1>5, SupplierRow, DebtRowsSame DEF TokensKept

\* depositYield moves each supply by what it moves of the balances.
LEMMA YieldTokens ==
  ASSUME IInv, NEW d \in Debts, NEW amount \in Nat, depositYield(d, amount)
  PROVE  TokensKept
  <1>1. treasuryAccrues(d, TRUE) /\ UNCHANGED <<debtBalance, debtSupply>> BY DEF depositYield
  <1> QED BY <1>1, TreasuryRow, DebtRowsSame DEF TokensKept

\* depositCollateral moves each supply by what it moves of the balances.
LEMMA DepositCollateralTokens ==
  ASSUME IInv, NEW u \in Users, NEW c \in Collaterals, NEW share \in Nat,
         depositCollateral(u, c, share)
  PROVE  TokensKept
  <1> DEFINE amount == rayMul(share * Config[c].scale, pricePerShare[c])
             v == aBalance[c][u] + amount
  <1>1. amount \in Nat BY ShareNat
  <1>2. /\ aBalance \in [Reserves -> [Accounts -> Nat]] /\ aSupply \in [Reserves -> Nat]
        /\ c \in Reserves /\ u \in Accounts
    BY DEF IInv, TypeOK, Reserves, Accounts
  <1>3. /\ aBalance' = [aBalance EXCEPT ![c][u] = @ + amount]
        /\ aSupply' = [aSupply EXCEPT ![c] = @ + amount]
        /\ UNCHANGED <<debtBalance, debtSupply>>
    BY DEF depositCollateral
  <1> HIDE DEF amount
  <1>4. v \in Nat /\ aSupply[c] + amount = aSupply[c] + v - aBalance[c][u]
    <2>1. aBalance[c][u] \in Nat /\ aSupply[c] \in Nat BY <1>2
    <2> QED BY <1>1, <2>1
  <1>5. /\ aBalance' = [aBalance EXCEPT ![c][u] = v]
        /\ aSupply' = [aSupply EXCEPT ![c] = aSupply[c] + v - aBalance[c][u]]
    BY <1>2, <1>3, <1>4
  <1> HIDE DEF v
  <1>6. \A r \in Reserves : ARowKept(r) BY ONLY IInv, <1>2, <1>4, <1>5, AOneMoves
  <1> QED BY <1>3, <1>6, DebtRowsSame DEF TokensKept

\* withdrawCollateral moves each supply by what it moves of the balances.
LEMMA WithdrawCollateralTokens ==
  ASSUME IInv, NEW u \in Users, NEW c \in Collaterals, NEW asked \in Nat,
         withdrawCollateral(u, c, asked)
  PROVE  TokensKept
  <1> DEFINE amount == IF asked = MAX_UINT THEN aBalance[c][u] ELSE asked
             v == aBalance[c][u] - amount
  <1>1. /\ aBalance \in [Reserves -> [Accounts -> Nat]] /\ aSupply \in [Reserves -> Nat]
        /\ c \in Reserves /\ u \in Accounts
    BY DEF IInv, TypeOK, Reserves, Accounts
  <1>2. amount \in Nat BY <1>1
  <1>3. /\ amount <= aBalance[c][u]
        /\ aBalance' = [aBalance EXCEPT ![c][u] = @ - amount]
        /\ aSupply' = [aSupply EXCEPT ![c] = @ - amount]
        /\ UNCHANGED <<debtBalance, debtSupply>>
    BY DEF withdrawCollateral
  <1> HIDE DEF amount
  <1>4. v \in Nat /\ aSupply[c] - amount = aSupply[c] + v - aBalance[c][u]
    <2>1. aBalance[c][u] \in Nat /\ aSupply[c] \in Nat BY <1>1
    <2> QED BY <1>2, <1>3, <2>1
  <1>5. /\ aBalance' = [aBalance EXCEPT ![c][u] = v]
        /\ aSupply' = [aSupply EXCEPT ![c] = aSupply[c] + v - aBalance[c][u]]
    BY <1>1, <1>3, <1>4
  <1> HIDE DEF v
  <1>6. \A r \in Reserves : ARowKept(r) BY ONLY IInv, <1>1, <1>4, <1>5, AOneMoves
  <1> QED BY <1>3, <1>6, DebtRowsSame DEF TokensKept

\* borrow moves each supply by what it moves of the balances.
LEMMA BorrowTokens ==
  ASSUME IInv, NEW caller \in Users, NEW u \in Users, NEW d \in Debts, NEW amount \in Nat,
         borrow(caller, u, d, amount)
  PROVE  TokensKept
  <1> DEFINE scaled == rayDiv(amount, accruedReserve(d, FALSE).variableBorrowIndex)
             v == debtBalance[d][u] + scaled
  <1>1. scaled \in Nat BY ScaledNat
  <1>2. debtBalance \in [Debts -> [Users -> Nat]] /\ debtSupply \in [Debts -> Nat]
    BY DEF IInv, TypeOK
  <1>3. /\ debtBalance' = [debtBalance EXCEPT ![d][u] = @ + scaled]
        /\ debtSupply' = [debtSupply EXCEPT ![d] = @ + scaled]
        /\ treasuryAccrues(d, FALSE)
    BY DEF borrow
  <1> HIDE DEF scaled
  <1>4. v \in Nat /\ debtSupply[d] + scaled = debtSupply[d] + v - debtBalance[d][u]
    <2>1. debtBalance[d][u] \in Nat /\ debtSupply[d] \in Nat BY <1>2
    <2> QED BY <1>1, <2>1
  <1>5. /\ debtBalance' = [debtBalance EXCEPT ![d][u] = v]
        /\ debtSupply' = [debtSupply EXCEPT ![d] = debtSupply[d] + v - debtBalance[d][u]]
    BY <1>2, <1>3, <1>4
  <1> HIDE DEF v
  <1>6. \A e \in Debts : DebtRowKept(e)
    BY ONLY IInv, <1>4, <1>5, u \in Users, d \in Debts, DebtOneMoves
  <1> QED BY <1>3, <1>6, TreasuryRow DEF TokensKept

\* What repay and a liquidation burn.
LEMMA DebtBurned ==
  ASSUME IInv, NEW u \in Users, NEW d \in Debts, NEW scaled \in Nat,
         scaled <= debtBalance[d][u],
         debtBalance' = [debtBalance EXCEPT ![d][u] = @ - scaled],
         debtSupply' = [debtSupply EXCEPT ![d] = @ - scaled]
  PROVE  \A e \in Debts : DebtRowKept(e)
  <1> DEFINE v == debtBalance[d][u] - scaled
  <1>1. debtBalance \in [Debts -> [Users -> Nat]] /\ debtSupply \in [Debts -> Nat]
    BY DEF IInv, TypeOK
  <1>2. v \in Nat /\ debtSupply[d] - scaled = debtSupply[d] + v - debtBalance[d][u]
    <2>1. debtBalance[d][u] \in Nat /\ debtSupply[d] \in Nat BY <1>1
    <2> QED BY <2>1
  <1>3. /\ debtBalance' = [debtBalance EXCEPT ![d][u] = v]
        /\ debtSupply' = [debtSupply EXCEPT ![d] = debtSupply[d] + v - debtBalance[d][u]]
    BY <1>1, <1>2
  <1> HIDE DEF v
  <1> QED BY ONLY IInv, <1>2, <1>3, u \in Users, d \in Debts, DebtOneMoves

\* repay moves each supply by what it moves of the balances.
LEMMA RepayTokens ==
  ASSUME IInv, NEW caller \in Users, NEW u \in Users, NEW d \in Debts, NEW amount \in Nat,
         repay(caller, u, d, amount)
  PROVE  TokensKept
  <1> DEFINE payback == IF amount < debtBalanceOf(d, u) THEN amount ELSE debtBalanceOf(d, u)
             scaled == rayDiv(payback, accruedReserve(d, FALSE).variableBorrowIndex)
  <1>1. scaled \in Nat
    <2>1. payback \in Nat BY ViewsNat
    <2> HIDE DEF payback
    <2> QED BY <2>1, ScaledNat
  <1>2. /\ scaled <= debtBalance[d][u]
        /\ debtBalance' = [debtBalance EXCEPT ![d][u] = @ - scaled]
        /\ debtSupply' = [debtSupply EXCEPT ![d] = @ - scaled]
        /\ treasuryAccrues(d, FALSE)
    BY DEF repay
  <1> HIDE DEF scaled
  <1> QED BY <1>1, <1>2, DebtBurned, TreasuryRow DEF TokensKept

\* A transfer of aTokens moves each supply by what it moves of the balances.
LEMMA TransferTokens ==
  ASSUME IInv, NEW from \in Users, NEW to \in Users, NEW r \in Reserves, NEW amount \in Nat,
         transfer(from, to, r, amount)
  PROVE  TokensKept
  <1> DEFINE scaled == IF r \in Debts THEN rayDiv(amount, normalizedIncome(r)) ELSE amount
             v == aBalance[r][from] - scaled
             w == aBalance[r][to] + scaled
  <1>1. /\ aBalance \in [Reserves -> [Accounts -> Nat]] /\ aSupply \in [Reserves -> Nat]
        /\ from \in Accounts /\ to \in Accounts
    BY DEF IInv, TypeOK, Reserves, Accounts
  <1>2. scaled \in Nat
    <2>1. CASE r \in Debts
      <3>1. normalizedIncome(r) \in Nat \ {0} BY <2>1, IncomeAtLeastOne, MathAssumption
      <3> QED BY <2>1, <3>1, MathNat
    <2> QED BY <2>1
  <1>3. /\ scaled <= aBalance[r][from] /\ from # to
        /\ aBalance' = [aBalance EXCEPT ![r][from] = @ - scaled, ![r][to] = @ + scaled]
        /\ UNCHANGED <<aSupply, debtBalance, debtSupply>>
    BY DEF transfer
  <1> HIDE DEF scaled
  <1>4. /\ v \in Nat /\ w \in Nat
        /\ aSupply[r] = aSupply[r] + v - aBalance[r][from] + w - aBalance[r][to]
    <2>1. aBalance[r][from] \in Nat /\ aBalance[r][to] \in Nat /\ aSupply[r] \in Nat BY <1>1
    <2> QED BY <1>2, <1>3, <2>1
  <1>5. /\ aBalance' = [aBalance EXCEPT ![r][from] = v, ![r][to] = w]
        /\ aSupply' = [aSupply EXCEPT ![r] =
                         aSupply[r] + v - aBalance[r][from] + w - aBalance[r][to]]
    BY <1>1, <1>3, <1>4
  <1> HIDE DEF v, w
  <1>6. from # to BY <1>3
  <1>7. \A q \in Reserves : ARowKept(q)
    BY ONLY IInv, <1>1, <1>4, <1>5, <1>6, r \in Reserves, ATwoMove
  <1> QED BY <1>3, <1>7, DebtRowsSame DEF TokensKept

\* A row that moves at one or two accounts, read row by row.
LEMMA ARowOne ==
  ASSUME IInv, NEW r \in Reserves, NEW x \in Accounts, NEW v \in Nat,
         aBalance'[r] = [aBalance[r] EXCEPT ![x] = v],
         aSupply'[r] = aSupply[r] + v - aBalance[r][x]
  PROVE  ARowKept(r)
  <1>1. aBalance[r] \in [Accounts -> Nat] /\ aSupply[r] \in Nat BY RowSums
  <1>2. /\ aBalance'[r] = [aBalance[r] EXCEPT ![x] = v]
        /\ aSupply'[r] = aSupply[r] + v - aBalance[r][x]
    OBVIOUS
  <1> QED BY ONLY <1>1, <1>2, x \in Accounts, v \in Nat, AccountsFinite, RowOne DEF ARowKept

\* The collateral a liquidation takes goes to the liquidator or out of the pool.
LEMMA SeizedRow ==
  ASSUME IInv, NEW liquidator \in Users, NEW u \in Users, NEW c \in Reserves, NEW seized \in Nat,
         seized <= aBalance[c][u],
         \/ /\ aBalance'[c] = [[aBalance[c] EXCEPT ![u] = @ - seized] EXCEPT ![liquidator] = @ + seized]
            /\ aSupply'[c] = aSupply[c]
         \/ /\ aBalance'[c] = [aBalance[c] EXCEPT ![u] = @ - seized]
            /\ aSupply'[c] = aSupply[c] - seized
  PROVE  ARowKept(c)
  <1> DEFINE row == aBalance[c]
             v == row[u] - seized
             w == row[liquidator] + seized
  <1>1. /\ row \in [Accounts -> Nat] /\ aSupply[c] \in Nat
        /\ u \in Accounts /\ liquidator \in Accounts
    BY RowSums DEF Accounts
  <1>2. v \in Nat /\ w \in Nat /\ row[u] \in Nat /\ row[liquidator] \in Nat BY <1>1
  <1>3. CASE aBalance'[c] = [row EXCEPT ![u] = @ - seized] /\ aSupply'[c] = aSupply[c] - seized
    <2>1. /\ aBalance'[c] = [aBalance[c] EXCEPT ![u] = v]
          /\ aSupply'[c] = aSupply[c] + v - aBalance[c][u]
      BY <1>1, <1>2, <1>3
    <2> HIDE DEF v
    <2> QED BY ONLY IInv, c \in Reserves, <1>1, <1>2, <2>1, ARowOne
  <1>4. CASE /\ aBalance'[c] = [[row EXCEPT ![u] = @ - seized] EXCEPT ![liquidator] = @ + seized]
             /\ aSupply'[c] = aSupply[c]
    <2>1. CASE u = liquidator
      <3>1. aBalance'[c] = row BY <1>1, <1>2, <1>4, <2>1
      <3> QED BY <1>4, <3>1, ARowSame
    <2>2. CASE u # liquidator
      <3>1. /\ aBalance'[c] = [row EXCEPT ![u] = v, ![liquidator] = w]
            /\ aSupply'[c] = aSupply[c] + v - row[u] + w - row[liquidator]
        BY <1>1, <1>2, <1>4, <2>2
      <3> DEFINE g == aBalance'[c]
                 t == aSupply'[c]
                 s == aSupply[c]
      <3> HIDE DEF v, w, row, g, t, s
      <3>2. /\ g = [row EXCEPT ![u] = v, ![liquidator] = w]
            /\ t = s + v - row[u] + w - row[liquidator] /\ s \in Nat
        BY <1>1, <3>1 DEF g, t, s
      <3>3. RowKept(row, s, g, t, Accounts)
        BY ONLY <1>1, <1>2, <2>2, <3>2, AccountsFinite, RowTwo
      <3> QED BY <3>3 DEF ARowKept, row, g, t, s
    <2> QED BY <2>1, <2>2
  <1> QED BY <1>3, <1>4

\* liquidationCall moves each supply by what it moves of the balances.
LEMMA LiquidationTokens ==
  ASSUME IInv, NEW liquidator \in Users, NEW u \in Users, NEW c \in Collaterals,
         NEW d \in Debts, NEW debtToCover \in Nat, NEW receiveAToken \in BOOLEAN,
         liquidationCall(liquidator, u, c, d, debtToCover, receiveAToken)
  PROVE  TokensKept
  <1> DEFINE has       == aBalance[c][u]
             maxDebt   == percentMul(debtBalanceOf(d, u), LIQUIDATION_CLOSE_FACTOR_PERCENT)
             covered   == IF debtToCover > maxDebt THEN maxDebt ELSE debtToCover
             available == calculateAvailableCollateralToLiquidate(c, d, covered, has)
             seized    == available[1]
             actual    == IF available[2] < covered THEN available[2] ELSE covered
             scaled    == rayDiv(actual, accruedReserve(d, TRUE).variableBorrowIndex)
             mint      == treasuryMint(d, TRUE)
             minted    == [aBalance EXCEPT ![d][Treasury] = @ + mint]
             taken     == [minted EXCEPT ![c][u] = @ - seized]
  <1>1. /\ aBalance \in [Reserves -> [Accounts -> Nat]] /\ aSupply \in [Reserves -> Nat]
        /\ c \in Reserves /\ d \in Reserves /\ c # d
        /\ u \in Accounts /\ liquidator \in Accounts /\ Treasury \in Accounts
    BY StorageAssumption DEF IInv, TypeOK, Reserves, Accounts
  <1>2. has \in Nat BY <1>1
  <1>3. covered \in Nat
    <2>1. LIQUIDATION_CLOSE_FACTOR_PERCENT \in Nat
      BY MathAssumption DEF LIQUIDATION_CLOSE_FACTOR_PERCENT
    <2>2. maxDebt \in Nat BY <2>1, ViewsNat, MathNat
    <2> HIDE DEF maxDebt
    <2> QED BY <2>2
  <1>4. seized \in Nat /\ seized <= has /\ actual \in Nat
    <2> HIDE DEF covered, has
    <2> QED BY <1>2, <1>3, SeizureLemma
  <1>5. scaled \in Nat /\ mint \in Nat
    <2> HIDE DEF actual
    <2> QED BY <1>4, ScaledNat, AccrualLemma
  <1>6. /\ scaled <= debtBalance[d][u]
        /\ debtBalance' = [debtBalance EXCEPT ![d][u] = @ - scaled]
        /\ debtSupply' = [debtSupply EXCEPT ![d] = @ - scaled]
        /\ \/ /\ aBalance' = [taken EXCEPT ![c][liquidator] = @ + seized]
              /\ aSupply' = [aSupply EXCEPT ![d] = @ + mint]
           \/ /\ aBalance' = taken
              /\ aSupply' = [aSupply EXCEPT ![d] = @ + mint, ![c] = @ - seized]
    BY DEF liquidationCall
  <1> HIDE DEF seized, scaled, mint
  <1>7. \A e \in Debts : DebtRowKept(e)
    BY ONLY IInv, <1>5, <1>6, u \in Users, d \in Debts, DebtBurned
  <1>8. ASSUME NEW r \in Reserves, r # c, r # d PROVE ARowKept(r)
    <2>1. aBalance'[r] = aBalance[r] /\ aSupply'[r] = aSupply[r] BY <1>1, <1>6, <1>8
    <2> QED BY <2>1, ARowSame
  <1>9. ARowKept(d)
    <2> DEFINE v == aBalance[d][Treasury] + mint
    <2>1. v \in Nat /\ aSupply[d] \in Nat /\ aBalance[d][Treasury] \in Nat BY <1>1, <1>5
    <2>2. /\ aBalance'[d] = [aBalance[d] EXCEPT ![Treasury] = v]
          /\ aSupply'[d] = aSupply[d] + mint
      BY <1>1, <1>6
    <2>3. aSupply'[d] = aSupply[d] + v - aBalance[d][Treasury] BY <1>5, <2>1, <2>2
    <2> HIDE DEF v
    <2> QED BY ONLY IInv, <1>1, <2>1, <2>2, <2>3, ARowOne
  <1>10. ARowKept(c)
    <2>1. minted[c] = aBalance[c] /\ minted \in [Reserves -> [Accounts -> Nat]] BY <1>1, <1>5
    <2> HIDE DEF minted
    <2>2. taken[c] = [aBalance[c] EXCEPT ![u] = @ - seized] BY <1>1, <2>1
    <2>3. [taken EXCEPT ![c][liquidator] = @ + seized][c]
            = [[aBalance[c] EXCEPT ![u] = @ - seized] EXCEPT ![liquidator] = @ + seized]
      BY <1>1, <2>1, <2>2
    <2> HIDE DEF taken
    <2>4. \/ /\ aBalance'[c] = [[aBalance[c] EXCEPT ![u] = @ - seized] EXCEPT ![liquidator] = @ + seized]
             /\ aSupply'[c] = aSupply[c]
          \/ /\ aBalance'[c] = [aBalance[c] EXCEPT ![u] = @ - seized]
             /\ aSupply'[c] = aSupply[c] - seized
      BY <1>1, <1>6, <2>2, <2>3
    <2> QED BY ONLY IInv, <1>1, <1>4, <2>4, liquidator \in Users, u \in Users, SeizedRow
  <1> QED BY <1>7, <1>8, <1>9, <1>10 DEF TokensKept

\* The other calls move no token.
LEMMA OtherTokens ==
  ASSUME IInv, UNCHANGED <<aBalance, aSupply, debtBalance, debtSupply>>
  PROVE  TokensKept
  BY ARowSame, DebtRowsSame DEF TokensKept

\* Every step of the pool.
LEMMA NextTokens == IInv /\ [Next]_vars => TokensKept
  <1> SUFFICES ASSUME IInv, [Next]_vars PROVE TokensKept OBVIOUS
  <1>1. /\ \A o \in AmountOf : Amounts[o] \subseteq Nat
        /\ MAX_UINT \in Nat
    BY PoolAssumption, StorageAssumption
  <1>2. /\ Amounts.deposit \subseteq Nat /\ Amounts.withdraw \cup {MAX_UINT} \subseteq Nat
        /\ Amounts.yield \subseteq Nat /\ Amounts.collateral \subseteq Nat
        /\ Amounts.withdrawCollateral \cup {MAX_UINT} \subseteq Nat
        /\ Amounts.borrow \subseteq Nat /\ Amounts.repay \cup {MAX_UINT} \subseteq Nat
        /\ Amounts.delegate \subseteq Nat /\ Amounts.transfer \subseteq Nat
        /\ Amounts.cover \cup {MAX_UINT} \subseteq Nat
    BY <1>1 DEF AmountOf
  <1>3. CASE \E u \in Users, d \in Debts, amount \in Amounts.deposit : deposit(u, d, amount)
    BY <1>2, <1>3, DepositTokens
  <1>4. CASE \E u \in Users, d \in Debts, amount \in Amounts.withdraw \cup {MAX_UINT} :
               withdraw(u, d, amount)
    BY <1>2, <1>4, WithdrawTokens
  <1>5. CASE \E d \in Debts, amount \in Amounts.yield : depositYield(d, amount)
    BY <1>2, <1>5, YieldTokens
  <1>6. CASE \E u \in Users, c \in Collaterals, share \in Amounts.collateral :
               depositCollateral(u, c, share)
    BY <1>2, <1>6, DepositCollateralTokens
  <1>7. CASE \E u \in Users, c \in Collaterals,
                amount \in Amounts.withdrawCollateral \cup {MAX_UINT} :
               withdrawCollateral(u, c, amount)
    BY <1>2, <1>7, WithdrawCollateralTokens
  <1>8. CASE \E caller, u \in Users, d \in Debts, amount \in Amounts.borrow :
               borrow(caller, u, d, amount)
    BY <1>2, <1>8, BorrowTokens
  <1>9. CASE \E caller, u \in Users, d \in Debts, amount \in Amounts.repay \cup {MAX_UINT} :
               repay(caller, u, d, amount)
    BY <1>2, <1>9, RepayTokens
  <1>10. CASE \E from, to \in Users, r \in Reserves, amount \in Amounts.transfer :
                transfer(from, to, r, amount)
    BY <1>2, <1>10, TransferTokens
  <1>11. CASE \E liquidator, u \in Users, c \in Collaterals, d \in Debts,
                 debtToCover \in Amounts.cover \cup {MAX_UINT}, receiveAToken \in BOOLEAN :
                 liquidationCall(liquidator, u, c, d, debtToCover, receiveAToken)
    BY <1>2, <1>11, LiquidationTokens
  <1>12. CASE \/ \E c \in Collaterals : getYield(c)
              \/ \E u, v \in Users, d \in Debts, amount \in Amounts.delegate :
                    approveDelegation(u, v, d, amount)
              \/ \E u \in Users, r \in Reserves, use \in BOOLEAN :
                    setUserUseReserveAsCollateral(u, r, use)
              \/ \E val \in BOOLEAN : setPause(val)
              \/ \E r \in Reserves, val \in BOOLEAN : setReserveFreeze(r, val)
              \/ AdvanceTime
              \/ \E r \in Reserves : \E p \in Prices[r] : OracleUpdate(r, p)
              \/ \E c \in Collaterals : \E p \in PPS[c] : VaultEarns(c, p)
              \/ UNCHANGED vars
    <2>1. UNCHANGED <<aBalance, aSupply, debtBalance, debtSupply>>
      BY <1>12 DEF getYield, approveDelegation, setUserUseReserveAsCollateral, setPause,
                   setReserveFreeze, AdvanceTime, OracleUpdate, VaultEarns, vars
    <2> QED BY <2>1, OtherTokens
  <1> QED BY <1>3, <1>4, <1>5, <1>6, <1>7, <1>8, <1>9, <1>10, <1>11, <1>12 DEF Next

\* _totalSupply of every aToken and debt token is the sum of its _balances, after
\* any sequence of deposits, withdrawals, loans, transfers and liquidations: the
\* mint to the treasury and both payouts of a liquidation included.
THEOREM SuppliesAddUp == Spec => []SupplyIsSumOfBalances
  <1>1. Init => SupplyIsSumOfBalances
    <2> SUFFICES ASSUME Init PROVE SupplyIsSumOfBalances OBVIOUS
    <2>1. ASSUME NEW r \in Reserves PROVE aSupply[r] = SumFunctionOnSet(aBalance[r], Accounts)
      <3>1. aSupply[r] = 0 /\ \A a \in Accounts : aBalance[r][a] = 0 BY DEF Init
      <3>2. SumFunctionOnSet(aBalance[r], Accounts) = 0 BY <3>1, AccountsFinite, SumZero
      <3> QED BY <3>1, <3>2
    <2>2. ASSUME NEW d \in Debts PROVE debtSupply[d] = SumFunctionOnSet(debtBalance[d], Users)
      <3>1. debtSupply[d] = 0 /\ \A u \in Users : debtBalance[d][u] = 0 BY DEF Init
      <3>2. SumFunctionOnSet(debtBalance[d], Users) = 0 BY <3>1, AccountsFinite, SumZero
      <3> QED BY <3>1, <3>2
    <2> QED BY <2>1, <2>2 DEF SupplyIsSumOfBalances
  <1>2. IInv /\ IInv' /\ SupplyIsSumOfBalances /\ [Next]_vars => SupplyIsSumOfBalances'
    <2> SUFFICES ASSUME IInv, IInv', SupplyIsSumOfBalances, [Next]_vars
                 PROVE  SupplyIsSumOfBalances'
      OBVIOUS
    <2>1. aSupply' \in [Reserves -> Nat] /\ debtSupply' \in [Debts -> Nat] BY DEF IInv, TypeOK
    <2>2. TokensKept BY NextTokens
    <2> QED BY <2>1, <2>2, KeptSupplies
  <1> QED BY <1>1, <1>2, InductiveInvariant, PTL DEF Spec
-----------------------------------------------------------------------------
(* The brakes, and the mark of an emptied collateral. *)

Guarded == BrakedStep /\ EmptyingStep

\* A call that moves no token and no collateral mark.
LEMMA NothingMoves ==
  ASSUME IInv, UNCHANGED <<aBalance, debtBalance, debtSupply>>,
         ~paused \/ UNCHANGED <<cash, usingAsCollateral, borrowing>>
  PROVE  Guarded
  <1>1. /\ \A r \in Reserves, u \in Users : aBalance[r][u] \in Nat
        /\ \A d \in Debts : debtSupply[d] \in Nat
        /\ frozen \subseteq Reserves
    BY DEF IInv, TypeOK, Accounts
  <1>2. BrakedStep BY <1>1 DEF BrakedStep
  <1>3. EmptyingStep BY DEF EmptyingStep
  <1> QED BY <1>2, <1>3 DEF Guarded

\* A call an unpaused pool accepts, read cell by cell.
LEMMA CellsGuarded ==
  ASSUME IInv, ~paused,
         \A d \in Debts \cap frozen : debtSupply'[d] <= debtSupply[d],
         \A r \in Reserves, v \in Users :
           \/ aBalance'[r][v] <= aBalance[r][v]
           \/ r \notin frozen
           \/ cash'[r] = cash[r],
         \A c \in Collaterals, v \in Users :
           \/ aBalance'[c][v] # 0
           \/ aBalance'[c][v] = aBalance[c][v]
           \/ c \notin usingAsCollateral'[v],
         \A r \in Reserves, v \in Users : aBalance'[r][v] \in Nat
  PROVE  Guarded
  <1>1. /\ aBalance \in [Reserves -> [Accounts -> Nat]]
        /\ Users \subseteq Accounts /\ frozen \subseteq Reserves
    BY DEF IInv, TypeOK, Accounts
  <1>2. ASSUME NEW r \in frozen, NEW v \in Users, aBalance'[r][v] > aBalance[r][v]
        PROVE  cash'[r] = cash[r]
    <2>1. aBalance[r][v] \in Nat /\ aBalance'[r][v] \in Nat /\ r \in Reserves BY <1>1
    <2>2. ~(aBalance'[r][v] <= aBalance[r][v]) BY <1>2, <2>1
    <2> QED BY <2>1, <2>2
  <1>3. BrakedStep BY <1>2 DEF BrakedStep
  <1>4. EmptyingStep BY DEF EmptyingStep
  <1> QED BY <1>3, <1>4 DEF Guarded

\* The users' cells after the mint to the treasury.
LEMMA MintCells ==
  ASSUME IInv, NEW d \in Debts, NEW always \in BOOLEAN, treasuryAccrues(d, always)
  PROVE  \A r \in Reserves, v \in Users : aBalance'[r][v] = aBalance[r][v]
  <1> DEFINE mint == treasuryMint(d, always)
  <1>1. /\ aBalance \in [Reserves -> [Accounts -> Nat]] /\ d \in Reserves
        /\ Users \subseteq Accounts /\ Treasury \in Accounts /\ Treasury \notin Users
    BY StorageAssumption DEF IInv, TypeOK, Reserves, Accounts
  <1>2. aBalance' = [aBalance EXCEPT ![d][Treasury] = @ + mint] BY DEF treasuryAccrues
  <1> HIDE DEF mint
  <1> QED BY ONLY <1>1, <1>2

\* The users' cells once a supplier's balance was set to b.
LEMMA SupplierCells ==
  ASSUME IInv, NEW d \in Debts, NEW u \in Users, NEW b \in Nat,
         aBalance' = aTokensOf(d, FALSE, u, b)
  PROVE  /\ aBalance'[d][u] = b
         /\ \A r \in Reserves, v \in Users :
              r # d \/ v # u => aBalance'[r][v] = aBalance[r][v]
  <1> DEFINE mint == treasuryMint(d, FALSE)
  <1>1. /\ aBalance \in [Reserves -> [Accounts -> Nat]] /\ d \in Reserves
        /\ Users \subseteq Accounts /\ Treasury \in Accounts /\ Treasury \notin Users
    BY StorageAssumption DEF IInv, TypeOK, Reserves, Accounts
  <1>2. aBalance' = [aBalance EXCEPT ![d][Treasury] = @ + mint, ![d][u] = b] BY DEF aTokensOf
  <1> HIDE DEF mint
  <1> QED BY ONLY <1>1, <1>2, u \in Users

\* deposit and withdraw: of the users' aTokens only u's of d move, and they grow
\* only when d is not frozen.
LEMMA SupplierGuarded ==
  ASSUME IInv, ~paused, NEW u \in Users, NEW d \in Debts, NEW b \in Nat,
         aBalance' = aTokensOf(d, FALSE, u, b), debtSupply' = debtSupply,
         b <= aBalance[d][u] \/ d \notin frozen
  PROVE  Guarded
  <1>1. /\ \A r \in Reserves, v \in Users : aBalance[r][v] \in Nat
        /\ \A e \in Debts : debtSupply[e] \in Nat
        /\ Collaterals \cap Debts = {} /\ Collaterals \subseteq Reserves /\ d \in Reserves
    BY StorageAssumption DEF IInv, TypeOK, Accounts, Reserves
  <1>2. /\ aBalance'[d][u] = b
        /\ \A r \in Reserves, v \in Users :
             r # d \/ v # u => aBalance'[r][v] = aBalance[r][v]
    BY SupplierCells
  <1>3. \A e \in Debts \cap frozen : debtSupply'[e] <= debtSupply[e] BY <1>1
  <1>4. \A r \in Reserves, v \in Users :
          aBalance'[r][v] \in Nat /\ (aBalance'[r][v] <= aBalance[r][v] \/ r \notin frozen)
    <2>1. b <= aBalance[d][u] \/ d \notin frozen OBVIOUS
    <2> QED BY ONLY <1>1, <1>2, <2>1, b \in Nat
  <1>5. \A c \in Collaterals, v \in Users : aBalance'[c][v] = aBalance[c][v] BY <1>1, <1>2
  <1> QED BY <1>3, <1>4, <1>5, CellsGuarded

\* deposit respects the brakes and unmarks collateral it empties.
LEMMA DepositGuarded ==
  ASSUME IInv, NEW u \in Users, NEW d \in Debts, NEW amount \in Nat, deposit(u, d, amount)
  PROVE  Guarded
  <1> DEFINE scaled == rayDiv(amount, accruedReserve(d, FALSE).liquidityIndex)
             b == aBalance[d][u] + scaled
  <1>1. scaled \in Nat BY ScaledNat
  <1>2. /\ ~paused /\ d \notin frozen /\ debtSupply' = debtSupply
        /\ aBalance' = aTokensOf(d, FALSE, u, b)
    BY DEF deposit, whenNotPaused
  <1> HIDE DEF scaled
  <1>3. b \in Nat
    <2>1. aBalance[d][u] \in Nat BY DEF IInv, TypeOK, Reserves, Accounts
    <2> QED BY <1>1, <2>1
  <1> HIDE DEF b
  <1> QED BY ONLY IInv, <1>2, <1>3, u \in Users, d \in Debts, SupplierGuarded

\* withdraw respects the brakes and unmarks collateral it empties.
LEMMA WithdrawGuarded ==
  ASSUME IInv, NEW u \in Users, NEW d \in Debts, NEW asked \in Nat, withdraw(u, d, asked)
  PROVE  Guarded
  <1> DEFINE amount == IF asked = MAX_UINT THEN balanceOf(d, u, aBalance) ELSE asked
             scaled == rayDiv(amount, accruedReserve(d, FALSE).liquidityIndex)
             b == aBalance[d][u] - scaled
  <1>1. scaled \in Nat
    <2>1. amount \in Nat BY ViewsNat
    <2> HIDE DEF amount
    <2> QED BY <2>1, ScaledNat
  <1>2. /\ ~paused /\ scaled <= aBalance[d][u] /\ debtSupply' = debtSupply
        /\ aBalance' = aTokensOf(d, FALSE, u, b)
    BY DEF withdraw, whenNotPaused
  <1> HIDE DEF scaled
  <1>3. b \in Nat /\ b <= aBalance[d][u]
    <2>1. aBalance[d][u] \in Nat BY DEF IInv, TypeOK, Reserves, Accounts
    <2> QED BY <1>1, <1>2, <2>1
  <1> HIDE DEF b
  <1> QED BY ONLY IInv, <1>2, <1>3, u \in Users, d \in Debts, SupplierGuarded

\* depositYield, borrow and repay: no user's aTokens move, and debt is added only
\* to a reserve that is not frozen.
LEMMA LoanGuarded ==
  ASSUME IInv, ~paused, NEW d \in Debts, NEW always \in BOOLEAN, treasuryAccrues(d, always),
         NEW s \in Nat, debtSupply' = [debtSupply EXCEPT ![d] = s],
         s <= debtSupply[d] \/ d \notin frozen
  PROVE  Guarded
  <1>1. /\ \A r \in Reserves, v \in Users : aBalance[r][v] \in Nat
        /\ debtSupply \in [Debts -> Nat] /\ Collaterals \subseteq Reserves
    BY DEF IInv, TypeOK, Accounts, Reserves
  <1>2. \A r \in Reserves, v \in Users : aBalance'[r][v] = aBalance[r][v] BY MintCells
  <1>3. \A e \in Debts \cap frozen : debtSupply'[e] <= debtSupply[e] BY <1>1
  <1>4. \A r \in Reserves, v \in Users :
          aBalance'[r][v] \in Nat /\ aBalance'[r][v] <= aBalance[r][v]
    BY <1>1, <1>2
  <1>5. \A c \in Collaterals, v \in Users : aBalance'[c][v] = aBalance[c][v] BY <1>1, <1>2
  <1> QED BY ONLY IInv, ~paused, <1>3, <1>4, <1>5, CellsGuarded

\* depositYield respects the brakes and unmarks collateral it empties.
LEMMA YieldGuarded ==
  ASSUME IInv, NEW d \in Debts, NEW amount \in Nat, depositYield(d, amount)
  PROVE  Guarded
  <1>1. ~paused /\ treasuryAccrues(d, TRUE) /\ debtSupply' = debtSupply
    BY DEF depositYield, whenNotPaused
  <1>2. /\ debtSupply' = [debtSupply EXCEPT ![d] = debtSupply[d]]
        /\ debtSupply[d] \in Nat /\ debtSupply[d] <= debtSupply[d]
    BY <1>1 DEF IInv, TypeOK
  <1> QED BY <1>1, <1>2, LoanGuarded

\* borrow respects the brakes and unmarks collateral it empties.
LEMMA BorrowGuarded ==
  ASSUME IInv, NEW caller \in Users, NEW u \in Users, NEW d \in Debts, NEW amount \in Nat,
         borrow(caller, u, d, amount)
  PROVE  Guarded
  <1> DEFINE scaled == rayDiv(amount, accruedReserve(d, FALSE).variableBorrowIndex)
  <1>1. scaled \in Nat BY ScaledNat
  <1>2. /\ ~paused /\ d \notin frozen /\ treasuryAccrues(d, FALSE)
        /\ debtSupply' = [debtSupply EXCEPT ![d] = debtSupply[d] + scaled]
    BY DEF borrow, whenNotPaused, validateBorrow
  <1> HIDE DEF scaled
  <1>3. debtSupply[d] + scaled \in Nat
    <2>1. debtSupply[d] \in Nat BY DEF IInv, TypeOK
    <2> QED BY <1>1, <2>1
  <1> QED BY <1>2, <1>3, LoanGuarded

\* repay respects the brakes and unmarks collateral it empties.
LEMMA RepayGuarded ==
  ASSUME IInv, NEW caller \in Users, NEW u \in Users, NEW d \in Debts, NEW amount \in Nat,
         repay(caller, u, d, amount)
  PROVE  Guarded
  <1> DEFINE payback == IF amount < debtBalanceOf(d, u) THEN amount ELSE debtBalanceOf(d, u)
             scaled == rayDiv(payback, accruedReserve(d, FALSE).variableBorrowIndex)
  <1>1. scaled \in Nat
    <2>1. payback \in Nat BY ViewsNat
    <2> HIDE DEF payback
    <2> QED BY <2>1, ScaledNat
  <1>2. /\ ~paused /\ treasuryAccrues(d, FALSE) /\ scaled <= debtSupply[d]
        /\ debtSupply' = [debtSupply EXCEPT ![d] = debtSupply[d] - scaled]
    BY DEF repay, whenNotPaused
  <1> HIDE DEF scaled
  <1>3. debtSupply[d] - scaled \in Nat /\ debtSupply[d] - scaled <= debtSupply[d]
    <2>1. debtSupply[d] \in Nat BY DEF IInv, TypeOK
    <2> QED BY <1>1, <1>2, <2>1
  <1> QED BY <1>2, <1>3, LoanGuarded

\* depositCollateral respects the brakes and unmarks collateral it empties.
LEMMA DepositCollateralGuarded ==
  ASSUME IInv, NEW u \in Users, NEW c \in Collaterals, NEW share \in Nat,
         depositCollateral(u, c, share)
  PROVE  Guarded
  <1> DEFINE amount == rayMul(share * Config[c].scale, pricePerShare[c])
  <1>1. amount \in Nat BY ShareNat
  <1>2. /\ ~paused /\ c \notin frozen /\ debtSupply' = debtSupply /\ amount # 0
        /\ aBalance' = [aBalance EXCEPT ![c][u] = @ + amount]
    BY DEF depositCollateral, whenNotPaused
  <1> HIDE DEF amount
  <1>3. /\ aBalance \in [Reserves -> [Accounts -> Nat]] /\ debtSupply \in [Debts -> Nat]
        /\ Collaterals \subseteq Reserves /\ Users \subseteq Accounts
    BY DEF IInv, TypeOK, Reserves, Accounts
  <1>4. ASSUME NEW r \in Reserves, NEW v \in Users, r # c \/ v # u
        PROVE  aBalance'[r][v] = aBalance[r][v] /\ aBalance[r][v] \in Nat
    BY ONLY <1>2, <1>3, <1>4
  <1>5. aBalance'[c][u] \in Nat \ {0}
    <2>1. aBalance[c][u] \in Nat /\ aBalance'[c][u] = aBalance[c][u] + amount BY <1>2, <1>3
    <2> QED BY <1>1, <1>2, <2>1
  <1>6. /\ \A e \in Debts \cap frozen : debtSupply'[e] <= debtSupply[e]
        /\ \A r \in Reserves, v \in Users : aBalance'[r][v] \in Nat
        /\ \A r \in Reserves, v \in Users : aBalance'[r][v] <= aBalance[r][v] \/ r \notin frozen
        /\ \A e \in Collaterals, v \in Users :
             aBalance'[e][v] # 0 \/ aBalance'[e][v] = aBalance[e][v]
    BY ONLY <1>2, <1>3, <1>4, <1>5
  <1> QED BY ONLY IInv, <1>2, <1>6, CellsGuarded

\* withdrawCollateral respects the brakes and unmarks collateral it empties.
LEMMA WithdrawCollateralGuarded ==
  ASSUME IInv, NEW u \in Users, NEW c \in Collaterals, NEW asked \in Nat,
         withdrawCollateral(u, c, asked)
  PROVE  Guarded
  <1> DEFINE amount == IF asked = MAX_UINT THEN aBalance[c][u] ELSE asked
  <1>1. /\ aBalance \in [Reserves -> [Accounts -> Nat]] /\ debtSupply \in [Debts -> Nat]
        /\ Collaterals \subseteq Reserves /\ Users \subseteq Accounts
        /\ usingAsCollateral \in [Users -> SUBSET Reserves]
    BY DEF IInv, TypeOK, Reserves, Accounts
  <1>2. amount \in Nat /\ aBalance[c][u] \in Nat BY <1>1
  <1>3. /\ ~paused /\ debtSupply' = debtSupply /\ amount <= aBalance[c][u]
        /\ aBalance' = [aBalance EXCEPT ![c][u] = @ - amount]
        /\ amount = aBalance[c][u] => usingAsCollateral' = setUsingAsCollateral(u, c, FALSE)
    BY DEF withdrawCollateral, whenNotPaused
  <1> HIDE DEF amount
  <1>4. ASSUME NEW r \in Reserves, NEW v \in Users, r # c \/ v # u
        PROVE  aBalance'[r][v] = aBalance[r][v] /\ aBalance[r][v] \in Nat
    BY ONLY <1>1, <1>3, <1>4
  <1>5. /\ aBalance'[c][u] = aBalance[c][u] - amount /\ aBalance'[c][u] \in Nat
        /\ aBalance'[c][u] <= aBalance[c][u]
    BY <1>1, <1>2, <1>3
  <1>6. aBalance'[c][u] = 0 => c \notin usingAsCollateral'[u]
    <2> SUFFICES ASSUME aBalance'[c][u] = 0 PROVE c \notin usingAsCollateral'[u] OBVIOUS
    <2>1. amount = aBalance[c][u] BY <1>2, <1>5
    <2>2. usingAsCollateral' = [usingAsCollateral EXCEPT ![u] = @ \ {c}]
      BY <1>3, <2>1 DEF setUsingAsCollateral
    <2> QED BY <1>1, <2>2
  <1>7. /\ \A e \in Debts \cap frozen : debtSupply'[e] <= debtSupply[e]
        /\ \A r \in Reserves, v \in Users : aBalance'[r][v] \in Nat
        /\ \A r \in Reserves, v \in Users : aBalance'[r][v] <= aBalance[r][v]
        /\ \A e \in Collaterals, v \in Users :
             \/ aBalance'[e][v] # 0
             \/ aBalance'[e][v] = aBalance[e][v]
             \/ e \notin usingAsCollateral'[v]
    BY ONLY <1>1, <1>3, <1>4, <1>5, <1>6
  <1> QED BY ONLY IInv, <1>3, <1>7, CellsGuarded

\* A transfer of aTokens respects the brakes and unmarks collateral it empties.
LEMMA TransferGuarded ==
  ASSUME IInv, NEW from \in Users, NEW to \in Users, NEW r \in Reserves, NEW amount \in Nat,
         transfer(from, to, r, amount)
  PROVE  Guarded
  <1> DEFINE scaled == IF r \in Debts THEN rayDiv(amount, normalizedIncome(r)) ELSE amount
             fromBefore == balanceOf(r, from, aBalance)
             cleared == [usingAsCollateral EXCEPT ![from] =
                           IF amount = fromBefore THEN @ \ {r} ELSE @]
  <1>1. /\ aBalance \in [Reserves -> [Accounts -> Nat]] /\ debtSupply \in [Debts -> Nat]
        /\ Collaterals \subseteq Reserves /\ Users \subseteq Accounts
        /\ usingAsCollateral \in [Users -> SUBSET Reserves] /\ Collaterals \cap Debts = {}
    BY StorageAssumption DEF IInv, TypeOK, Reserves, Accounts
  <1>2. scaled \in Nat
    <2>1. CASE r \in Debts
      <3>1. normalizedIncome(r) \in Nat \ {0} BY <2>1, IncomeAtLeastOne, MathAssumption
      <3> QED BY <2>1, <3>1, MathNat
    <2> QED BY <2>1
  <1>3. r \in Collaterals => scaled = amount /\ fromBefore = aBalance[r][from]
    BY <1>1 DEF balanceOf
  <1>4. /\ ~paused /\ from # to /\ scaled <= aBalance[r][from]
        /\ aBalance' = [aBalance EXCEPT ![r][from] = @ - scaled, ![r][to] = @ + scaled]
        /\ debtSupply' = debtSupply /\ cash' = cash
        /\ \E s : usingAsCollateral' = [cleared EXCEPT ![to] = s]
    BY DEF transfer, whenNotPaused
  <1> HIDE DEF scaled, fromBefore
  <1>5. aBalance[r][from] \in Nat /\ aBalance[r][to] \in Nat BY <1>1
  <1>6. ASSUME NEW q \in Reserves, NEW v \in Users, q # r \/ v \notin {from, to}
        PROVE  aBalance'[q][v] = aBalance[q][v] /\ aBalance[q][v] \in Nat
    BY ONLY <1>1, <1>4, <1>6
  <1>7. aBalance'[r][from] = aBalance[r][from] - scaled /\ aBalance'[r][to] = aBalance[r][to] + scaled
    BY ONLY <1>1, <1>4, from \in Users, to \in Users, r \in Reserves
  <1>8. /\ aBalance'[r][from] \in Nat /\ aBalance'[r][to] \in Nat
        /\ aBalance'[r][to] # 0 \/ aBalance'[r][to] = aBalance[r][to]
    <2>1. scaled <= aBalance[r][from] BY <1>4
    <2> QED BY ONLY <1>2, <1>5, <1>7, <2>1
  <1>9. r \in Collaterals /\ aBalance'[r][from] = 0 => r \notin usingAsCollateral'[from]
    <2> SUFFICES ASSUME r \in Collaterals, aBalance'[r][from] = 0
                 PROVE  r \notin usingAsCollateral'[from]
      OBVIOUS
    <2>1. amount = fromBefore BY <1>2, <1>3, <1>5, <1>7
    <2>2. usingAsCollateral'[from] = cleared[from] BY <1>1, <1>4
    <2>3. cleared[from] = usingAsCollateral[from] \ {r} BY <1>1, <2>1
    <2> QED BY <2>2, <2>3
  <1>10. /\ \A e \in Debts \cap frozen : debtSupply'[e] <= debtSupply[e]
         /\ \A q \in Reserves, v \in Users : aBalance'[q][v] \in Nat
    BY ONLY <1>1, <1>4, <1>6, <1>8
  <1>11. \A e \in Collaterals, v \in Users :
           \/ aBalance'[e][v] # 0
           \/ aBalance'[e][v] = aBalance[e][v]
           \/ e \notin usingAsCollateral'[v]
    BY ONLY <1>1, <1>6, <1>8, <1>9
  <1> QED BY ONLY IInv, <1>4, <1>10, <1>11, CellsGuarded

\* liquidationCall respects the brakes and unmarks collateral it empties.
LEMMA LiquidationGuarded ==
  ASSUME IInv, NEW liquidator \in Users, NEW u \in Users, NEW c \in Collaterals,
         NEW d \in Debts, NEW debtToCover \in Nat, NEW receiveAToken \in BOOLEAN,
         liquidationCall(liquidator, u, c, d, debtToCover, receiveAToken)
  PROVE  Guarded
  <1> DEFINE has       == aBalance[c][u]
             maxDebt   == percentMul(debtBalanceOf(d, u), LIQUIDATION_CLOSE_FACTOR_PERCENT)
             covered   == IF debtToCover > maxDebt THEN maxDebt ELSE debtToCover
             available == calculateAvailableCollateralToLiquidate(c, d, covered, has)
             seized    == available[1]
             actual    == IF available[2] < covered THEN available[2] ELSE covered
             scaled    == rayDiv(actual, accruedReserve(d, TRUE).variableBorrowIndex)
             mint      == treasuryMint(d, TRUE)
             minted    == [aBalance EXCEPT ![d][Treasury] = @ + mint]
             taken     == [minted EXCEPT ![c][u] = @ - seized]
             flagged   == IF receiveAToken /\ aBalance[c][liquidator] = 0
                          THEN setUsingAsCollateral(liquidator, c, TRUE) ELSE usingAsCollateral
  <1>1. /\ aBalance \in [Reserves -> [Accounts -> Nat]] /\ debtSupply \in [Debts -> Nat]
        /\ c \in Reserves /\ d \in Reserves /\ c # d /\ cash \in [Reserves -> Nat]
        /\ Users \subseteq Accounts /\ Treasury \in Accounts /\ Treasury \notin Users
        /\ Collaterals \subseteq Reserves /\ usingAsCollateral \in [Users -> SUBSET Reserves]
    BY StorageAssumption DEF IInv, TypeOK, Reserves, Accounts
  <1>2. has \in Nat /\ aBalance[c][liquidator] \in Nat BY <1>1
  <1>3. covered \in Nat
    <2>1. LIQUIDATION_CLOSE_FACTOR_PERCENT \in Nat
      BY MathAssumption DEF LIQUIDATION_CLOSE_FACTOR_PERCENT
    <2>2. maxDebt \in Nat BY <2>1, ViewsNat, MathNat
    <2> HIDE DEF maxDebt
    <2> QED BY <2>2
  <1>4. seized \in Nat /\ seized <= has /\ actual \in Nat
    <2> HIDE DEF covered, has
    <2> QED BY <1>2, <1>3, SeizureLemma
  <1>5. scaled \in Nat
    <2> HIDE DEF actual
    <2> QED BY <1>4, ScaledNat
  <1>6. /\ ~paused /\ scaled <= debtSupply[d]
        /\ debtSupply' = [debtSupply EXCEPT ![d] = @ - scaled]
        /\ \/ /\ aBalance' = [taken EXCEPT ![c][liquidator] = @ + seized]
              /\ cash' = [cash EXCEPT ![d] = @ + actual]
           \/ aBalance' = taken
        /\ usingAsCollateral' = [flagged EXCEPT ![u] = IF seized = has THEN @ \ {c} ELSE @]
    BY DEF liquidationCall, whenNotPaused
  <1>7. flagged \in [Users -> SUBSET Reserves] BY <1>1 DEF setUsingAsCollateral
  <1> HIDE DEF seized, scaled, mint, actual, flagged, has
  <1>8. \A e \in Debts \cap frozen : debtSupply'[e] <= debtSupply[e] BY ONLY <1>1, <1>5, <1>6
  <1>9. seized = has => c \notin usingAsCollateral'[u] BY ONLY <1>6, <1>7, u \in Users
  <1>10. /\ DOMAIN minted = Reserves /\ minted[c] = aBalance[c]
         /\ \A q \in Reserves, v \in Users : minted[q][v] = aBalance[q][v]
    BY ONLY <1>1
  <1> HIDE DEF minted
  <1>11. /\ DOMAIN taken = Reserves /\ taken[c] = [aBalance[c] EXCEPT ![u] = @ - seized]
         /\ \A q \in Reserves, v \in Users : q # c \/ v # u => taken[q][v] = aBalance[q][v]
    BY ONLY <1>1, <1>10, u \in Users
  <1>12. taken[c][u] = has - seized /\ DOMAIN taken[c] = Accounts
    <2> HIDE DEF taken
    <2>1. aBalance[c] \in [Accounts -> Nat] /\ u \in Accounts BY <1>1
    <2> QED BY ONLY <1>11, <2>1 DEF has
  <1> HIDE DEF taken
  <1>13. CASE aBalance' = taken
    <2>1. \A q \in Reserves, v \in Users :
            /\ aBalance'[q][v] \in Nat /\ aBalance'[q][v] <= aBalance[q][v]
            /\ q # c \/ v # u => aBalance'[q][v] = aBalance[q][v]
      <3>1. \A q \in Reserves, v \in Users : aBalance[q][v] \in Nat BY <1>1
      <3>2. has - seized \in Nat /\ has - seized <= has BY <1>2, <1>4
      <3>3. \A q \in Reserves, v \in Users : q # c \/ v # u => aBalance'[q][v] = aBalance[q][v]
        BY <1>11, <1>13
      <3>4. aBalance'[c][u] = has - seized BY <1>12, <1>13
      <3> QED BY ONLY <3>1, <3>2, <3>3, <3>4 DEF has
    <2>2. aBalance'[c][u] = 0 => c \notin usingAsCollateral'[u]
      BY ONLY <1>2, <1>4, <1>9, <1>12, <1>13
    <2>3. \A e \in Collaterals, v \in Users :
            \/ aBalance'[e][v] # 0
            \/ aBalance'[e][v] = aBalance[e][v]
            \/ e \notin usingAsCollateral'[v]
      BY ONLY <1>1, <2>1, <2>2
    <2> QED BY ONLY IInv, <1>6, <1>8, <2>1, <2>3, CellsGuarded
  <1>14. CASE /\ aBalance' = [taken EXCEPT ![c][liquidator] = @ + seized]
              /\ cash' = [cash EXCEPT ![d] = @ + actual]
    <2>1. cash'[c] = cash[c] BY <1>1, <1>14
    <2>2. \A q \in Reserves, v \in Users :
            q # c \/ v \notin {u, liquidator} => aBalance'[q][v] = aBalance[q][v]
      BY ONLY <1>1, <1>11, <1>14
    <2>3. /\ aBalance'[c][liquidator] = taken[c][liquidator] + seized
          /\ u # liquidator => aBalance'[c][u] = has - seized
      BY ONLY <1>1, <1>11, <1>12, <1>14, u \in Users, liquidator \in Users
    <2>4. taken[c][liquidator] = IF u = liquidator THEN has - seized ELSE aBalance[c][liquidator]
      BY ONLY <1>1, <1>11, <1>12, liquidator \in Users
    <2>5. /\ aBalance'[c][liquidator] \in Nat /\ aBalance'[c][u] \in Nat
          /\ aBalance'[c][u] = 0 => seized = has
          /\ \/ u = liquidator
             \/ aBalance'[c][liquidator] # 0
             \/ aBalance'[c][liquidator] = aBalance[c][liquidator]
      <3>1. CASE u = liquidator BY ONLY <1>2, <1>4, <2>3, <2>4, <3>1
      <3>2. CASE u # liquidator BY ONLY <1>2, <1>4, <2>3, <2>4, <3>2
      <3> QED BY <3>1, <3>2
    <2>6. \A q \in Reserves, v \in Users :
            /\ aBalance'[q][v] \in Nat
            /\ aBalance'[q][v] <= aBalance[q][v] \/ cash'[q] = cash[q]
      <3>1. \A q \in Reserves, v \in Users : aBalance[q][v] \in Nat BY <1>1
      <3> QED BY ONLY <2>1, <2>2, <2>5, <3>1
    <2>7. \A e \in Collaterals, v \in Users :
            \/ aBalance'[e][v] # 0
            \/ aBalance'[e][v] = aBalance[e][v]
            \/ e \notin usingAsCollateral'[v]
      BY ONLY <1>1, <1>9, <2>2, <2>5
    <2> QED BY ONLY IInv, <1>6, <1>8, <2>6, <2>7, CellsGuarded
  <1> QED BY ONLY <1>6, <1>13, <1>14

\* Every step of the pool.
LEMMA NextGuarded == IInv /\ [Next]_vars => Guarded
  <1> SUFFICES ASSUME IInv, [Next]_vars PROVE Guarded OBVIOUS
  <1>1. /\ \A o \in AmountOf : Amounts[o] \subseteq Nat
        /\ MAX_UINT \in Nat
    BY PoolAssumption, StorageAssumption
  <1>2. /\ Amounts.deposit \subseteq Nat /\ Amounts.withdraw \cup {MAX_UINT} \subseteq Nat
        /\ Amounts.yield \subseteq Nat /\ Amounts.collateral \subseteq Nat
        /\ Amounts.withdrawCollateral \cup {MAX_UINT} \subseteq Nat
        /\ Amounts.borrow \subseteq Nat /\ Amounts.repay \cup {MAX_UINT} \subseteq Nat
        /\ Amounts.delegate \subseteq Nat /\ Amounts.transfer \subseteq Nat
        /\ Amounts.cover \cup {MAX_UINT} \subseteq Nat
    BY <1>1 DEF AmountOf
  <1>3. CASE \E u \in Users, d \in Debts, amount \in Amounts.deposit : deposit(u, d, amount)
    BY <1>2, <1>3, DepositGuarded
  <1>4. CASE \E u \in Users, d \in Debts, amount \in Amounts.withdraw \cup {MAX_UINT} :
               withdraw(u, d, amount)
    BY <1>2, <1>4, WithdrawGuarded
  <1>5. CASE \E d \in Debts, amount \in Amounts.yield : depositYield(d, amount)
    BY <1>2, <1>5, YieldGuarded
  <1>6. CASE \E u \in Users, c \in Collaterals, share \in Amounts.collateral :
               depositCollateral(u, c, share)
    BY <1>2, <1>6, DepositCollateralGuarded
  <1>7. CASE \E u \in Users, c \in Collaterals,
                amount \in Amounts.withdrawCollateral \cup {MAX_UINT} :
               withdrawCollateral(u, c, amount)
    BY <1>2, <1>7, WithdrawCollateralGuarded
  <1>8. CASE \E caller, u \in Users, d \in Debts, amount \in Amounts.borrow :
               borrow(caller, u, d, amount)
    BY <1>2, <1>8, BorrowGuarded
  <1>9. CASE \E caller, u \in Users, d \in Debts, amount \in Amounts.repay \cup {MAX_UINT} :
               repay(caller, u, d, amount)
    BY <1>2, <1>9, RepayGuarded
  <1>10. CASE \E from, to \in Users, r \in Reserves, amount \in Amounts.transfer :
                transfer(from, to, r, amount)
    BY <1>2, <1>10, TransferGuarded
  <1>11. CASE \E liquidator, u \in Users, c \in Collaterals, d \in Debts,
                 debtToCover \in Amounts.cover \cup {MAX_UINT}, receiveAToken \in BOOLEAN :
                 liquidationCall(liquidator, u, c, d, debtToCover, receiveAToken)
    BY <1>2, <1>11, LiquidationGuarded
  <1>12. CASE \/ \E c \in Collaterals : getYield(c)
              \/ \E u, v \in Users, d \in Debts, amount \in Amounts.delegate :
                    approveDelegation(u, v, d, amount)
              \/ \E u \in Users, r \in Reserves, use \in BOOLEAN :
                    setUserUseReserveAsCollateral(u, r, use)
              \/ \E val \in BOOLEAN : setPause(val)
              \/ \E r \in Reserves, val \in BOOLEAN : setReserveFreeze(r, val)
              \/ AdvanceTime
              \/ \E r \in Reserves : \E p \in Prices[r] : OracleUpdate(r, p)
              \/ \E c \in Collaterals : \E p \in PPS[c] : VaultEarns(c, p)
              \/ UNCHANGED vars
    <2>1. /\ UNCHANGED <<aBalance, debtBalance, debtSupply>>
          /\ ~paused \/ UNCHANGED <<cash, usingAsCollateral, borrowing>>
      BY <1>12 DEF getYield, approveDelegation, setUserUseReserveAsCollateral, setPause,
                   setReserveFreeze, AdvanceTime, OracleUpdate, VaultEarns, vars, whenNotPaused
    <2> QED BY <2>1, NothingMoves
  <1> QED BY <1>3, <1>4, <1>5, <1>6, <1>7, <1>8, <1>9, <1>10, <1>11, <1>12 DEF Next

\* A paused pool moves no token and no bit; a frozen reserve takes no deposit and
\* no new debt while withdrawals, repayments and liquidations go on.
THEOREM BrakesAlwaysHold == Spec => BrakesHold
  <1>1. IInv /\ [Next]_vars => [BrakedStep]_vars BY NextGuarded DEF Guarded
  <1> QED BY <1>1, InductiveInvariant, PTL DEF Spec, BrakesHold

\* A collateral that a withdrawal, a transfer or a liquidation empties loses its
\* mark in the same step, in every sequence of calls.
THEOREM EmptiedIsUnmarked == Spec => EmptiedCollateralIsUnmarked
  <1>1. IInv /\ [Next]_vars => [EmptyingStep]_vars BY NextGuarded DEF Guarded
  <1> QED BY <1>1, InductiveInvariant, PTL DEF Spec, EmptiedCollateralIsUnmarked
-----------------------------------------------------------------------------
(* Bystanders: what the views of a reserve show before and after a call.   *)

\* The reserve has debt that earns interest although its suppliers earn none:
\* updateIndexes then moves the time stamp and leaves the borrow index behind.
InterestSkipped(d) ==
  /\ debtSupply[d] # 0
  /\ reserve[d].currentLiquidityRate = 0
  /\ reserve[d].currentVariableBorrowRate \div SECONDS_PER_YEAR # 0

NoInterestSkipped == \A d \in Debts : ~InterestSkipped(d)

\* The state n of reserve d shows suppliers no less than the stored one and
\* borrowers no more; and borrowers no less unless interest was skipped.
ViewsKept(d, n) ==
  /\ getNormalizedIncome(n, now) \in Nat
  /\ getNormalizedDebt(n, now) \in Nat
  /\ normalizedIncome(d) <= getNormalizedIncome(n, now)
  /\ getNormalizedDebt(n, now) <= normalizedDebt(d)
  /\ InterestSkipped(d) \/ debtSupply[d] = 0 \/ getNormalizedDebt(n, now) = normalizedDebt(d)

\* A deposit nobody moved does not shrink, a debt nobody moved does not grow.
UnharmedStep ==
  now' = now =>
    \A u \in Users, d \in Debts :
      /\ debtBalance'[d][u] = debtBalance[d][u] => debtBalanceOf(d, u)' <= debtBalanceOf(d, u)
      /\ aBalance'[d][u] = aBalance[d][u]
           => balanceOf(d, u, aBalance)' >= balanceOf(d, u, aBalance)

Unharmed == UnharmedStep /\ (NoInterestSkipped => BystanderStep)

\* Without a borrow rate per second the compounded factor is one ray.
LEMMA CompoundedWithoutRate ==
  ASSUME NEW rate \in Nat, NEW exp \in Nat, rate \div SECONDS_PER_YEAR = 0
  PROVE  calculateCompoundedInterest(rate, exp) = RAY
  <1>1. rayMul(0, 0) = 0
    <2>1. (RAY \div 2) \div RAY = 0 BY MathAssumption
    <2>2. 0 * 0 + (RAY \div 2) = RAY \div 2 BY MathAssumption
    <2> QED BY <2>1, <2>2 DEF rayMul, MulHalfUp
  <1> DEFINE e2 == IF exp > 2 THEN exp - 2 ELSE 0
  <1>2. CASE exp = 0 BY <1>2 DEF calculateCompoundedInterest
  <1>3. CASE exp # 0
    <2>1. calculateCompoundedInterest(rate, exp)
            = RAY + 0 * exp + (exp * (exp - 1) * 0) \div 2
                + (exp * (exp - 1) * e2 * 0) \div 6
      BY <1>1, <1>3 DEF calculateCompoundedInterest
    <2>2. exp * (exp - 1) \in Int /\ exp * (exp - 1) * e2 \in Int
      <3>1. exp \in Int /\ exp - 1 \in Int /\ e2 \in Int OBVIOUS
      <3> HIDE DEF e2
      <3> QED BY <3>1
    <2> HIDE DEF e2
    <2>3. /\ exp * (exp - 1) * 0 = 0
          /\ exp * (exp - 1) * e2 * 0 = 0
      BY <2>2
    <2> QED BY <2>1, <2>3, MathAssumption
  <1> QED BY <1>2, <1>3

\* updateIndexes stores what the income view announced, and what the debt view
\* announced unless it leaves the borrow index alone.
LEMMA UpdatedViews ==
  ASSUME NEW r \in ReserveData, NEW sd \in Nat, NEW t \in Nat, r.lastUpdateTimestamp <= t
  PROVE  /\ updateIndexes(r, sd, t).liquidityIndex = getNormalizedIncome(r, t)
         /\ \/ updateIndexes(r, sd, t).variableBorrowIndex = getNormalizedDebt(r, t)
            \/ sd = 0
            \/ /\ r.currentLiquidityRate = 0
               /\ r.currentVariableBorrowRate \div SECONDS_PER_YEAR # 0
  <1> DEFINE dt   == t - r.lastUpdateTimestamp
             lin  == calculateLinearInterest(r.currentLiquidityRate, dt)
             comp == calculateCompoundedInterest(r.currentVariableBorrowRate, dt)
             u    == updateIndexes(r, sd, t)
  <1>1. /\ r.liquidityIndex \in Nat /\ r.variableBorrowIndex \in Nat
        /\ r.currentLiquidityRate \in Nat /\ r.currentVariableBorrowRate \in Nat
        /\ r.lastUpdateTimestamp \in Nat /\ dt \in Nat
    BY DEF ReserveData
  <1>2. (r.currentLiquidityRate = 0 \/ dt = 0) => lin = RAY
    <2>1. 0 \div SECONDS_PER_YEAR = 0 BY MathAssumption
    <2>2. (r.currentLiquidityRate = 0 \/ dt = 0) => r.currentLiquidityRate * dt = 0
      <3> HIDE DEF dt
      <3> QED BY <1>1
    <2> HIDE DEF dt
    <2> QED BY <1>1, <2>1, <2>2, MathAssumption DEF calculateLinearInterest
  <1>3. (r.currentVariableBorrowRate \div SECONDS_PER_YEAR = 0 \/ dt = 0) => comp = RAY
    <2> HIDE DEF dt
    <2> QED BY <1>1, CompoundedWithoutRate, CompoundedInterestGrows
  <1>4. /\ getNormalizedIncome(r, t) =
             IF dt = 0 THEN r.liquidityIndex ELSE rayMul(lin, r.liquidityIndex)
        /\ getNormalizedDebt(r, t) =
             IF dt = 0 THEN r.variableBorrowIndex ELSE rayMul(comp, r.variableBorrowIndex)
    <2>1. dt = 0 <=> r.lastUpdateTimestamp = t BY <1>1
    <2> QED BY <2>1 DEF getNormalizedIncome, getNormalizedDebt, LinearInterest,
                        CompoundedInterest
  <1>5. /\ u.liquidityIndex =
             IF r.currentLiquidityRate = 0 THEN r.liquidityIndex
             ELSE rayMul(lin, r.liquidityIndex)
        /\ u.variableBorrowIndex =
             IF r.currentLiquidityRate = 0 \/ sd = 0 THEN r.variableBorrowIndex
             ELSE rayMul(comp, r.variableBorrowIndex)
    <2> DEFINE li == rayMul(lin, r.liquidityIndex)
               vbi == rayMul(comp, r.variableBorrowIndex)
    <2>1. u = IF r.currentLiquidityRate = 0 THEN [r EXCEPT !.lastUpdateTimestamp = t]
              ELSE [r EXCEPT !.liquidityIndex = li,
                             !.variableBorrowIndex = IF sd = 0 THEN r.variableBorrowIndex
                                                     ELSE vbi,
                             !.lastUpdateTimestamp = t]
      BY DEF updateIndexes, LinearInterest, CompoundedInterest
    <2> HIDE DEF li, vbi, u
    <2>2. /\ u.liquidityIndex = IF r.currentLiquidityRate = 0 THEN r.liquidityIndex ELSE li
          /\ u.variableBorrowIndex =
               IF r.currentLiquidityRate = 0 \/ sd = 0 THEN r.variableBorrowIndex ELSE vbi
      BY <2>1 DEF ReserveData
    <2> QED BY <2>2 DEF li, vbi
  <1>6. /\ lin = RAY => rayMul(lin, r.liquidityIndex) = r.liquidityIndex
        /\ comp = RAY => rayMul(comp, r.variableBorrowIndex) = r.variableBorrowIndex
    <2> HIDE DEF lin, comp
    <2> QED BY <1>1, RayMulOne
  <1> HIDE DEF lin, comp, dt, u
  <1> QED BY <1>2, <1>3, <1>4, <1>5, <1>6 DEF u

\* The views are kept by a call that stores a state with the accrued borrow
\* index and time stamp, and at least the accrued liquidity index.
LEMMA AccruedViews ==
  ASSUME IInv, NEW d \in Debts, NEW always \in BOOLEAN, NEW n \in ReserveData,
         accruedReserve(d, always).liquidityIndex <= n.liquidityIndex,
         n.variableBorrowIndex = accruedReserve(d, always).variableBorrowIndex,
         n.lastUpdateTimestamp = accruedReserve(d, always).lastUpdateTimestamp,
         Accrues(d, always)
  PROVE  ViewsKept(d, n)
  <1> DEFINE r == reserve[d]
             u == updateIndexes(r, debtSupply[d], now)
  <1>1. /\ r \in ReserveData /\ debtSupply[d] \in Nat /\ now \in Nat
        /\ r.lastUpdateTimestamp <= now
    BY DEF IInv, TypeOK, IndexesSound
  <1>2. u = accruedReserve(d, always) BY DEF accruedReserve
  <1>3. /\ u.liquidityIndex = normalizedIncome(d)
        /\ \/ u.variableBorrowIndex = normalizedDebt(d)
           \/ debtSupply[d] = 0
           \/ InterestSkipped(d)
    <2>1. /\ u.liquidityIndex = getNormalizedIncome(r, now)
          /\ \/ u.variableBorrowIndex = getNormalizedDebt(r, now)
             \/ debtSupply[d] = 0
             \/ /\ r.currentLiquidityRate = 0
                /\ r.currentVariableBorrowRate \div SECONDS_PER_YEAR # 0
      BY <1>1, UpdatedViews
    <2> QED BY <2>1 DEF normalizedIncome, normalizedDebt, InterestSkipped
  <1>4. /\ u.variableBorrowIndex <= normalizedDebt(d)
        /\ normalizedDebt(d) \in Nat /\ normalizedIncome(d) \in Nat
        /\ u.lastUpdateTimestamp = now
    BY <1>1, UpdateIndexesLemma DEF normalizedIncome, normalizedDebt
  <1>5. /\ n.liquidityIndex \in Nat /\ n.variableBorrowIndex \in Nat
        /\ n.lastUpdateTimestamp = now
    BY <1>2, <1>4 DEF ReserveData
  <1>6. /\ getNormalizedIncome(n, now) = n.liquidityIndex
        /\ getNormalizedDebt(n, now) = n.variableBorrowIndex
    BY <1>5 DEF getNormalizedIncome, getNormalizedDebt
  <1> HIDE DEF u, r
  <1> QED BY <1>2, <1>3, <1>4, <1>5, <1>6 DEF ViewsKept

\* The state of a reserve nobody touches keeps its own views.
LEMMA SameViews ==
  ASSUME IInv, NEW d \in Debts
  PROVE  ViewsKept(d, reserve[d])
  <1>1. normalizedDebt(d) \in Nat /\ normalizedIncome(d) \in Nat BY AccrualLemma
  <1> QED BY <1>1 DEF ViewsKept, normalizedDebt, normalizedIncome

\* The rates an operation ends with do not show in the views.
LEMMA RatedViews ==
  ASSUME IInv, NEW d \in Debts, NEW always \in BOOLEAN, NEW n \in ReserveData,
         accruedReserve(d, always).liquidityIndex <= n.liquidityIndex,
         n.variableBorrowIndex = accruedReserve(d, always).variableBorrowIndex,
         n.lastUpdateTimestamp = accruedReserve(d, always).lastUpdateTimestamp,
         Accrues(d, always) \/ n = accruedReserve(d, always),
         NEW liquidity \in Nat, NEW sd \in Nat
  PROVE  ViewsKept(d, withRates(d, always, n, liquidity, sd))
  <1>1. CASE Accrues(d, always)
    <2> DEFINE m == updateInterestRates(n, Strategy[d], liquidity, sd, Config[d].reserveFactor)
    <2>1. /\ Strategy[d] \in RateStrategy
          /\ Config[d].reserveFactor \in 0..PERCENTAGE_FACTOR
      BY StorageAssumption DEF Reserves, ReserveConfig
    <2>2. /\ m \in ReserveData
          /\ m.liquidityIndex = n.liquidityIndex
          /\ m.variableBorrowIndex = n.variableBorrowIndex
          /\ m.lastUpdateTimestamp = n.lastUpdateTimestamp
      BY <2>1, RatesLemma
    <2>3. withRates(d, always, n, liquidity, sd) = m BY <1>1 DEF withRates
    <2> HIDE DEF m
    <2>4. ViewsKept(d, m) BY <1>1, <2>2, AccruedViews
    <2> QED BY <2>3, <2>4
  <1>2. CASE ~Accrues(d, always)
    <2>1. withRates(d, always, n, liquidity, sd) = reserve[d]
      BY <1>2 DEF withRates, accruedReserve
    <2> QED BY <2>1, SameViews
  <1> QED BY <1>1, <1>2

\* The common case: what is stored is the accrued state with new rates.
LEMMA AccrualViews ==
  ASSUME IInv, NEW d \in Debts, NEW always \in BOOLEAN, NEW liquidity \in Nat, NEW sd \in Nat
  PROVE  ViewsKept(d, withRates(d, always, accruedReserve(d, always), liquidity, sd))
  <1> DEFINE n == accruedReserve(d, always)
  <1>1. n \in ReserveData BY AccrualLemma DEF Advanced
  <1>2. n.liquidityIndex <= n.liquidityIndex BY <1>1 DEF ReserveData
  <1> QED BY <1>1, <1>2, RatedViews

\* A step that keeps the views of every reserve harms nobody who stands by.
LEMMA ViewsStep ==
  ASSUME IInv, SupplyIsSumOfBalances, now' = now => \A d \in Debts : ViewsKept(d, reserve'[d])
  PROVE  Unharmed
  <1> SUFFICES ASSUME now' = now, NEW u \in Users, NEW d \in Debts
               PROVE  /\ debtBalance'[d][u] = debtBalance[d][u]
                           => /\ debtBalanceOf(d, u)' <= debtBalanceOf(d, u)
                              /\ NoInterestSkipped => debtBalanceOf(d, u)' = debtBalanceOf(d, u)
                      /\ aBalance'[d][u] = aBalance[d][u]
                           => balanceOf(d, u, aBalance)' >= balanceOf(d, u, aBalance)
    BY DEF Unharmed, UnharmedStep, BystanderStep
  <1> DEFINE income == getNormalizedIncome(reserve'[d], now)
             debt   == getNormalizedDebt(reserve'[d], now)
             f      == debtBalance[d]
  <1>1. ViewsKept(d, reserve'[d]) OBVIOUS
  <1>2. /\ income \in Nat /\ debt \in Nat /\ normalizedIncome(d) <= income
        /\ debt <= normalizedDebt(d)
        /\ InterestSkipped(d) \/ debtSupply[d] = 0 \/ debt = normalizedDebt(d)
    BY <1>1 DEF ViewsKept
  <1>3. normalizedIncome(d)' = income /\ normalizedDebt(d)' = debt
    BY DEF normalizedIncome, normalizedDebt
  <1>4. /\ normalizedDebt(d) \in Nat /\ normalizedIncome(d) \in Nat
        /\ aBalance[d][u] \in Nat /\ f[u] \in Nat /\ f \in [Users -> Nat]
    <2>1. normalizedDebt(d) \in Nat /\ normalizedIncome(d) \in Nat BY AccrualLemma
    <2>2. aBalance[d][u] \in Nat /\ f \in [Users -> Nat]
      BY DEF IInv, TypeOK, Reserves, Accounts
    <2> QED BY <2>1, <2>2
  <1>5. f[u] <= debtSupply[d]
    <2>1. /\ \A v \in Users : f[v] \in Nat
          /\ debtSupply[d] = SumFunctionOnSet(f, Users)
      BY <1>4 DEF SupplyIsSumOfBalances
    <2> HIDE DEF f
    <2> QED BY <2>1, AccountsFinite, SumNat
  <1>6. /\ debtBalanceOf(d, u) = rayMul(f[u], normalizedDebt(d))
        /\ debtBalanceOf(d, u)' = rayMul(debtBalance'[d][u], debt)
        /\ balanceOf(d, u, aBalance) = rayMul(aBalance[d][u], normalizedIncome(d))
        /\ balanceOf(d, u, aBalance)' = rayMul(aBalance'[d][u], income)
    BY <1>3 DEF debtBalanceOf, balanceOf
  <1> HIDE DEF income, debt
  <1>7. /\ rayMul(f[u], debt) <= rayMul(f[u], normalizedDebt(d))
        /\ rayMul(aBalance[d][u], normalizedIncome(d)) <= rayMul(aBalance[d][u], income)
    BY <1>2, <1>4, RayMulMono
  <1>8. NoInterestSkipped => rayMul(f[u], debt) = rayMul(f[u], normalizedDebt(d))
    <2>1. SUFFICES ASSUME NoInterestSkipped, debt # normalizedDebt(d)
                   PROVE  rayMul(f[u], debt) = rayMul(f[u], normalizedDebt(d))
      OBVIOUS
    <2>2. f[u] = 0
      <3>1. debtSupply[d] = 0 BY <1>2, <2>1 DEF NoInterestSkipped
      <3> HIDE DEF f
      <3> QED BY <1>4, <1>5, <3>1
    <2>3. rayMul(0, debt) = (RAY \div 2) \div RAY
          /\ rayMul(0, normalizedDebt(d)) = (RAY \div 2) \div RAY
      <3>1. 0 * debt = 0 /\ 0 * normalizedDebt(d) = 0 /\ RAY \div 2 \in Nat
        BY <1>2, <1>4, MathAssumption
      <3> QED BY <3>1 DEF rayMul, MulHalfUp
    <2> QED BY <2>2, <2>3
  <1>9. /\ rayMul(aBalance[d][u], normalizedIncome(d)) \in Nat
        /\ rayMul(aBalance[d][u], income) \in Nat
    BY <1>2, <1>4, MathNat
  <1> QED BY <1>6, <1>7, <1>8, <1>9

\* The same for a call that stores the state n of one reserve.
LEMMA OneViewStep ==
  ASSUME IInv, SupplyIsSumOfBalances, NEW d \in Debts, NEW n, ViewsKept(d, n),
         reserve' = [reserve EXCEPT ![d] = n]
  PROVE  Unharmed
  <1>1. reserve \in [Debts -> ReserveData] BY DEF IInv, TypeOK
  <1>2. ASSUME NEW e \in Debts PROVE ViewsKept(e, reserve'[e])
    <2>1. CASE e = d BY <1>1, <2>1
    <2>2. CASE e # d
      <3>1. reserve'[e] = reserve[e] BY <1>1, <2>2
      <3> QED BY <3>1, SameViews
    <2> QED BY <2>1, <2>2
  <1> QED BY <1>2, ViewsStep

\* What each operation stores in a reserve keeps the views.
LEMMA DepositViews ==
  ASSUME IInv, SupplyIsSumOfBalances, NEW u \in Users, NEW d \in Debts, NEW amount \in Nat,
         deposit(u, d, amount)
  PROVE  Unharmed
  <1>1. cash[d] + amount \in Nat /\ debtSupply[d] \in Nat BY DEF IInv, TypeOK, Reserves
  <1>2. reserve' = [reserve EXCEPT ![d] = withRates(d, FALSE, accruedReserve(d, FALSE),
                                                    cash[d] + amount, debtSupply[d])]
    BY DEF deposit
  <1> QED BY <1>1, <1>2, AccrualViews, OneViewStep

\* withdraw keeps the views.
LEMMA WithdrawViews ==
  ASSUME IInv, SupplyIsSumOfBalances, NEW u \in Users, NEW d \in Debts, NEW asked \in Nat,
         withdraw(u, d, asked)
  PROVE  Unharmed
  <1> DEFINE amount == IF asked = MAX_UINT THEN balanceOf(d, u, aBalance) ELSE asked
  <1>1. amount \in Nat BY ViewsNat
  <1>2. /\ amount <= cash[d]
        /\ reserve' = [reserve EXCEPT ![d] = withRates(d, FALSE, accruedReserve(d, FALSE),
                                                       cash[d] - amount, debtSupply[d])]
    BY DEF withdraw
  <1> HIDE DEF amount
  <1>3. cash[d] - amount \in Nat /\ debtSupply[d] \in Nat
    BY <1>1, <1>2 DEF IInv, TypeOK, Reserves
  <1> QED BY <1>2, <1>3, AccrualViews, OneViewStep

\* depositYield keeps the debts and only raises what deposits are worth.
LEMMA YieldViews ==
  ASSUME IInv, SupplyIsSumOfBalances, NEW d \in Debts, NEW amount \in Nat,
         depositYield(d, amount)
  PROVE  Unharmed
  <1> DEFINE r     == accruedReserve(d, TRUE)
             mint  == treasuryMint(d, TRUE)
             total == rayMul(aSupply[d] + mint, r.liquidityIndex)
             n     == cumulateToLiquidityIndex(r, total, amount)
  <1>1. r \in ReserveData /\ mint \in Nat BY AccrualLemma DEF Advanced
  <1>2. total \in Nat
    <2>1. r.liquidityIndex \in Nat BY <1>1 DEF ReserveData
    <2> HIDE DEF mint
    <2>2. aSupply[d] + mint \in Nat BY <1>1 DEF IInv, TypeOK, Reserves
    <2> QED BY <2>1, <2>2, MathNat
  <1>3. /\ total # 0
        /\ reserve' = [reserve EXCEPT ![d] = withRates(d, TRUE, n, cash[d] + amount, debtSupply[d])]
    BY DEF depositYield
  <1> HIDE DEF r, mint, total, n
  <1>4. /\ n \in ReserveData
        /\ r.liquidityIndex <= n.liquidityIndex
        /\ n.variableBorrowIndex = r.variableBorrowIndex
        /\ n.lastUpdateTimestamp = r.lastUpdateTimestamp
    BY <1>1, <1>2, <1>3, CumulateLemma DEF n
  <1>5. cash[d] + amount \in Nat /\ debtSupply[d] \in Nat BY DEF IInv, TypeOK, Reserves
  <1>6. Accrues(d, TRUE) BY DEF Accrues
  <1>7. ViewsKept(d, withRates(d, TRUE, n, cash[d] + amount, debtSupply[d]))
    BY <1>4, <1>5, <1>6, RatedViews DEF r
  <1> QED BY <1>3, <1>7, OneViewStep

\* borrow keeps the views.
LEMMA BorrowViews ==
  ASSUME IInv, SupplyIsSumOfBalances, NEW caller \in Users, NEW u \in Users, NEW d \in Debts,
         NEW amount \in Nat, borrow(caller, u, d, amount)
  PROVE  Unharmed
  <1> DEFINE scaled == rayDiv(amount, accruedReserve(d, FALSE).variableBorrowIndex)
  <1>1. scaled \in Nat BY ScaledNat
  <1>2. /\ amount <= cash[d]
        /\ reserve' = [reserve EXCEPT ![d] = withRates(d, FALSE, accruedReserve(d, FALSE),
                                                       cash[d] - amount, debtSupply[d] + scaled)]
    BY DEF borrow
  <1> HIDE DEF scaled
  <1>3. cash[d] - amount \in Nat /\ debtSupply[d] + scaled \in Nat
    BY <1>1, <1>2 DEF IInv, TypeOK, Reserves
  <1> QED BY <1>2, <1>3, AccrualViews, OneViewStep

\* repay keeps the views: a debt burned for one account is the same for another.
LEMMA RepayViews ==
  ASSUME IInv, SupplyIsSumOfBalances, NEW caller \in Users, NEW u \in Users, NEW d \in Debts,
         NEW amount \in Nat, repay(caller, u, d, amount)
  PROVE  Unharmed
  <1> DEFINE debt    == debtBalanceOf(d, u)
             payback == IF amount < debt THEN amount ELSE debt
             scaled  == rayDiv(payback, accruedReserve(d, FALSE).variableBorrowIndex)
  <1>1. payback \in Nat BY ViewsNat
  <1> HIDE DEF payback
  <1>2. scaled \in Nat BY <1>1, ScaledNat
  <1>3. /\ scaled <= debtSupply[d]
        /\ reserve' = [reserve EXCEPT ![d] = withRates(d, FALSE, accruedReserve(d, FALSE),
                                                       cash[d] + payback, debtSupply[d] - scaled)]
    BY DEF repay, payback
  <1> HIDE DEF scaled
  <1>4. cash[d] + payback \in Nat /\ debtSupply[d] - scaled \in Nat
    BY <1>1, <1>2, <1>3 DEF IInv, TypeOK, Reserves
  <1> QED BY <1>3, <1>4, AccrualViews, OneViewStep

\* A liquidation keeps the views of everybody else.
LEMMA LiquidationViews ==
  ASSUME IInv, SupplyIsSumOfBalances, NEW liquidator \in Users, NEW u \in Users,
         NEW c \in Collaterals, NEW d \in Debts, NEW debtToCover \in Nat,
         NEW receiveAToken \in BOOLEAN,
         liquidationCall(liquidator, u, c, d, debtToCover, receiveAToken)
  PROVE  Unharmed
  <1> DEFINE maxDebt   == percentMul(debtBalanceOf(d, u), LIQUIDATION_CLOSE_FACTOR_PERCENT)
             covered   == IF debtToCover > maxDebt THEN maxDebt ELSE debtToCover
             available == calculateAvailableCollateralToLiquidate(c, d, covered, aBalance[c][u])
             actual    == IF available[2] < covered THEN available[2] ELSE covered
             scaled    == rayDiv(actual, accruedReserve(d, TRUE).variableBorrowIndex)
  <1>1. actual \in Nat
    <2>1. covered \in Nat
      <3>1. debtBalanceOf(d, u) \in Nat BY ViewsNat
      <3>2. LIQUIDATION_CLOSE_FACTOR_PERCENT \in Nat
        BY MathAssumption, DivBounds DEF LIQUIDATION_CLOSE_FACTOR_PERCENT
      <3> QED BY <3>1, <3>2, MathNat
    <2>2. available[2] \in Nat
      <3>1. aBalance[c][u] \in Nat BY DEF IInv, TypeOK, Reserves, Accounts
      <3> HIDE DEF covered
      <3> QED BY <2>1, <3>1, SeizureLemma
    <2> HIDE DEF available, covered
    <2> QED BY <2>1, <2>2
  <1> HIDE DEF actual
  <1>2. scaled \in Nat BY <1>1, ScaledNat
  <1>3. /\ scaled <= debtSupply[d]
        /\ reserve' = [reserve EXCEPT ![d] = withRates(d, TRUE, accruedReserve(d, TRUE),
                                                       cash[d] + actual, debtSupply[d] - scaled)]
    BY DEF liquidationCall, actual
  <1> HIDE DEF scaled
  <1>4. cash[d] + actual \in Nat /\ debtSupply[d] - scaled \in Nat
    BY <1>1, <1>2, <1>3 DEF IInv, TypeOK, Reserves
  <1> QED BY <1>3, <1>4, AccrualViews, OneViewStep

\* Calls that touch no reserve, and the passing of time.
LEMMA OtherViews ==
  ASSUME IInv, SupplyIsSumOfBalances, reserve' = reserve
  PROVE  Unharmed
  BY SameViews, ViewsStep

\* Every step of the pool.
LEMMA NextViews == IInv /\ SupplyIsSumOfBalances /\ [Next]_vars => Unharmed
  <1> SUFFICES ASSUME IInv, SupplyIsSumOfBalances, [Next]_vars PROVE Unharmed OBVIOUS
  <1>1. /\ \A o \in AmountOf : Amounts[o] \subseteq Nat
        /\ MAX_UINT \in Nat
    BY PoolAssumption, StorageAssumption
  <1>2. /\ Amounts.deposit \subseteq Nat /\ Amounts.withdraw \cup {MAX_UINT} \subseteq Nat
        /\ Amounts.yield \subseteq Nat /\ Amounts.borrow \subseteq Nat
        /\ Amounts.repay \cup {MAX_UINT} \subseteq Nat
        /\ Amounts.cover \cup {MAX_UINT} \subseteq Nat
    BY <1>1 DEF AmountOf
  <1>3. CASE \E u \in Users, d \in Debts, amount \in Amounts.deposit : deposit(u, d, amount)
    BY <1>2, <1>3, DepositViews
  <1>4. CASE \E u \in Users, d \in Debts, amount \in Amounts.withdraw \cup {MAX_UINT} :
               withdraw(u, d, amount)
    BY <1>2, <1>4, WithdrawViews
  <1>5. CASE \E d \in Debts, amount \in Amounts.yield : depositYield(d, amount)
    BY <1>2, <1>5, YieldViews
  <1>6. CASE \E caller, u \in Users, d \in Debts, amount \in Amounts.borrow :
               borrow(caller, u, d, amount)
    BY <1>2, <1>6, BorrowViews
  <1>7. CASE \E caller, u \in Users, d \in Debts, amount \in Amounts.repay \cup {MAX_UINT} :
               repay(caller, u, d, amount)
    BY <1>2, <1>7, RepayViews
  <1>8. CASE \E liquidator, u \in Users, c \in Collaterals, d \in Debts,
                debtToCover \in Amounts.cover \cup {MAX_UINT}, receiveAToken \in BOOLEAN :
                liquidationCall(liquidator, u, c, d, debtToCover, receiveAToken)
    BY <1>2, <1>8, LiquidationViews
  <1>9. CASE \/ \E u \in Users, c \in Collaterals, share \in Amounts.collateral :
                   depositCollateral(u, c, share)
             \/ \E u \in Users, c \in Collaterals,
                   amount \in Amounts.withdrawCollateral \cup {MAX_UINT} :
                   withdrawCollateral(u, c, amount)
             \/ \E from, to \in Users, r \in Reserves, amount \in Amounts.transfer :
                   transfer(from, to, r, amount)
             \/ \E c \in Collaterals : getYield(c)
             \/ \E u, v \in Users, d \in Debts, amount \in Amounts.delegate :
                   approveDelegation(u, v, d, amount)
             \/ \E u \in Users, r \in Reserves, use \in BOOLEAN :
                   setUserUseReserveAsCollateral(u, r, use)
             \/ \E val \in BOOLEAN : setPause(val)
             \/ \E r \in Reserves, val \in BOOLEAN : setReserveFreeze(r, val)
             \/ AdvanceTime
             \/ \E r \in Reserves : \E p \in Prices[r] : OracleUpdate(r, p)
             \/ \E c \in Collaterals : \E p \in PPS[c] : VaultEarns(c, p)
             \/ UNCHANGED vars
    <2>1. ASSUME NEW u \in Users, NEW v \in Users, NEW r, NEW amount, NEW c
          PROVE  /\ depositCollateral(u, c, amount) => reserve' = reserve
                 /\ withdrawCollateral(u, c, amount) => reserve' = reserve
                 /\ transfer(u, v, r, amount) => reserve' = reserve
      BY DEF depositCollateral, withdrawCollateral, transfer
    <2>2. ASSUME NEW u, NEW v, NEW d, NEW amount, NEW use
          PROVE  /\ approveDelegation(u, v, d, amount) => reserve' = reserve
                 /\ setUserUseReserveAsCollateral(u, d, use) => reserve' = reserve
                 /\ getYield(d) => reserve' = reserve
                 /\ setPause(use) => reserve' = reserve
                 /\ setReserveFreeze(d, use) => reserve' = reserve
                 /\ AdvanceTime => reserve' = reserve
                 /\ OracleUpdate(d, amount) => reserve' = reserve
                 /\ VaultEarns(d, amount) => reserve' = reserve
                 /\ UNCHANGED vars => reserve' = reserve
      BY DEF getYield, approveDelegation, setUserUseReserveAsCollateral, setPause,
             setReserveFreeze, AdvanceTime, OracleUpdate, VaultEarns, vars
    <2>3. reserve' = reserve BY <1>9, <2>1, <2>2
    <2> QED BY <2>3, OtherViews
  <1> QED BY <1>3, <1>4, <1>5, <1>6, <1>7, <1>8, <1>9 DEF Next

\* No call harms a bystander: while time stands still, whatever anybody does, a
\* deposit that is not moved does not shrink and a debt that is not moved does
\* not grow.
THEOREM BystandersUnharmed == Spec => [][UnharmedStep]_vars
  <1>1. IInv /\ SupplyIsSumOfBalances /\ [Next]_vars => [UnharmedStep]_vars
    BY NextViews DEF Unharmed
  <1> QED BY <1>1, InductiveInvariant, SuppliesAddUp, PTL DEF Spec

\* Nor does a call forgive a bystander's debt, as long as no reserve with debt
\* pays its suppliers nothing while its borrowers owe a rate: there updateIndexes
\* moves the time stamp, and the interest of the time before is never charged.
THEOREM BystandersKeepTheirDebt == Spec /\ []NoInterestSkipped => BystandersUnaffected
  <1>1. IInv /\ SupplyIsSumOfBalances /\ NoInterestSkipped /\ [Next]_vars => [BystanderStep]_vars
    BY NextViews DEF Unharmed
  <1> QED BY <1>1, InductiveInvariant, SuppliesAddUp, PTL DEF Spec, BystandersUnaffected

-----------------------------------------------------------------------------
(* The backing of a collateral: how far rounding can drive supply and      *)
(* holding apart between two harvests of the vault.                        *)

VARIABLE changes   \* history: changes of a supply since the vault last took its yield

\* The history variable follows the pool and restricts none of its steps.
HistoryInit == changes = [c \in Collaterals |-> 0]
HistoryNext ==
  changes' = [c \in Collaterals |->
                IF aSupply'[c] # aSupply[c] THEN changes[c] + 1
                ELSE IF cash'[c] < cash[c] THEN 0 ELSE changes[c]]
SpecWithHistory == Init /\ HistoryInit /\ [][Next /\ HistoryNext]_<<vars, changes>>

\* So few changes that the slack of CollateralBacked covers one unit for each.
FewChanges == \A c \in Collaterals : changes[c] < BackingSlack

\* What a step of the pool is to a collateral: nothing but a better price, a
\* payment in shares, a payout, or the harvest of what exceeds the supply.
Idles(c) ==
  /\ aSupply'[c] = aSupply[c] /\ cash'[c] = cash[c]
  /\ pricePerShare'[c] >= pricePerShare[c]

PaysIn(c) ==
  \E share \in Nat :
    LET amount == rayMul(share * Config[c].scale, pricePerShare[c])
    IN  /\ amount # 0
        /\ aSupply'[c] = aSupply[c] + amount /\ cash'[c] = cash[c] + share
        /\ pricePerShare'[c] = pricePerShare[c]

PaysOut(c) ==
  \E amount \in Nat :
    /\ amount # 0 /\ amount <= aSupply[c] /\ shareOf(c, amount) <= cash[c]
    /\ aSupply'[c] = aSupply[c] - amount /\ cash'[c] = cash[c] - shareOf(c, amount)
    /\ pricePerShare'[c] = pricePerShare[c]

Harvests(c) ==
  /\ cash'[c] = shareOf(c, aSupply[c]) /\ cash'[c] < cash[c]
  /\ aSupply'[c] = aSupply[c] /\ pricePerShare'[c] = pricePerShare[c]

VaultMove(c) == Idles(c) \/ PaysIn(c) \/ PaysOut(c) \/ Harvests(c)

\* The inductive invariant: the holding misses less than one unit per change,
\* and one unit is worth at least half a ray.
Worth(c) == Config[c].scale * pricePerShare[c]
BackedBy(c, k) == RAY * aSupply[c] <= (cash[c] + k) * Worth(c)
BackingIInv ==
  \A c \in Collaterals :
    /\ changes[c] \in Nat
    /\ RAY <= 2 * Worth(c)
    /\ BackedBy(c, changes[c] + 1)

\* A product of naturals grows with both factors.
LEMMA ProductGrows ==
  ASSUME NEW a \in Nat, NEW b \in Nat, NEW x \in Nat, NEW y \in Nat, a <= b, x <= y
  PROVE  a * x <= b * y
  <1>1. x * a <= x * b /\ b * x <= b * y BY ProductMono
  <1>2. x * a = a * x /\ x * b = b * x OBVIOUS
  <1>3. a * x \in Nat /\ b * x \in Nat /\ b * y \in Nat BY ProductNat
  <1> QED BY ONLY <1>1, <1>2, <1>3

\* Rounding half up errs by at most half the scale.
LEMMA MulHalfUpBounds ==
  ASSUME NEW a \in Nat, NEW b \in Nat, NEW scale \in Nat \ {0}
  PROVE  scale * MulHalfUp(a, b, scale) <= a * b + (scale \div 2)
  <1>1. a * b + (scale \div 2) \in Nat BY ProductNat
  <1> QED BY <1>1, DivBounds DEF MulHalfUp

\* The shares an amount stands for, rounded half up and then down: worth at most
\* one unit of price more than the amount, and with one share more not less.
LEMMA ShareBounds ==
  ASSUME NEW amount \in Nat, NEW p \in Nat \ {0}, NEW s \in Nat \ {0}
  PROVE  LET share == rayDiv(amount, p) \div s
         IN  /\ share \in Nat
             /\ share * (s * p) <= RAY * amount + s * p
             /\ RAY * amount <= (share + 1) * (s * p)
  <1> DEFINE q     == rayDiv(amount, p)
             share == q \div s
             k     == p \div 2
             b     == RAY * amount
  <1>1. k \in Nat /\ k <= p /\ b \in Nat
    <2>1. b \in Nat BY MathAssumption, ProductNat
    <2> QED BY <2>1
  <1>2. q \in Nat /\ p * q <= b + k /\ b + k < p * q + p
    <2>1. q = (b + k) \div p
      <3>1. amount * RAY = b BY MathAssumption
      <3> QED BY <3>1 DEF rayDiv, DivHalfUp
    <2> HIDE DEF q, b, k
    <2>2. b + k \in Nat BY <1>1
    <2> QED BY <2>1, <2>2, DivBounds
  <1> HIDE DEF q, b, k
  <1>3. share \in Nat /\ s * share <= q /\ q < s * share + s BY <1>2, DivBounds
  <1> HIDE DEF share
  <1>4. s * share \in Nat /\ s * p \in Nat /\ p <= s * p
    <2>1. s * share \in Nat /\ s * p \in Nat BY <1>3, ProductNat
    <2>2. 1 * p <= s * p BY ProductGrows
    <2> QED BY <2>1, <2>2
  <1>5. share * (s * p) <= b + s * p
    <2>1. p * (s * share) <= p * q BY <1>2, <1>3, <1>4, ProductMono
    <2>2. p * (s * share) = share * (s * p) BY <1>3
    <2>3. p * q \in Nat /\ share * (s * p) \in Nat BY <1>2, <1>3, <1>4, ProductNat
    <2> QED BY ONLY <2>1, <2>2, <2>3, <1>1, <1>2, <1>4, p \in Nat
  <1>6. b <= (share + 1) * (s * p)
    <2>1. p * (q + 1) <= p * (s * share + s)
      <3>1. q + 1 <= s * share + s /\ q + 1 \in Nat /\ s * share + s \in Nat
        BY <1>2, <1>3, <1>4
      <3> QED BY <3>1, ProductMono
    <2>2. p * (s * share + s) = (share + 1) * (s * p) BY <1>3
    <2>3. p * (q + 1) = p * q + p BY <1>2
    <2>4. p * q \in Nat /\ (share + 1) * (s * p) \in Nat
      <3>1. share + 1 \in Nat BY <1>3
      <3> QED BY <1>2, <1>4, <3>1, ProductNat
    <2> QED BY ONLY <2>1, <2>2, <2>3, <2>4, <1>1, <1>2, p \in Nat
  <1> QED BY <1>3, <1>5, <1>6 DEF share, q, b

\* One collateral in numbers: the four moves keep the holding, h shares at K each,
\* within one share per change of what the supply a needs.
LEMMA PayInKeeps ==
  ASSUME NEW R \in Nat, NEW a \in Nat, NEW h \in Nat, NEW m \in Nat, NEW K \in Nat,
         R * a <= (h + (m + 1)) * K, R <= 2 * K,
         NEW amt \in Nat, NEW share \in Nat, R * amt <= share * K + (R \div 2)
  PROVE  R * (a + amt) <= (h + share + (m + 1 + 1)) * K
  <1>1. R \div 2 \in Nat /\ R \div 2 <= K OBVIOUS
  <1>2. R * (a + amt) = R * a + R * amt OBVIOUS
  <1>3. (h + share + (m + 1 + 1)) * K = (h + (m + 1)) * K + share * K + K OBVIOUS
  <1>4. R * a \in Nat /\ R * amt \in Nat /\ share * K \in Nat /\ (h + (m + 1)) * K \in Nat
    <2>1. h + (m + 1) \in Nat OBVIOUS
    <2> QED BY <2>1, ProductNat
  <1> QED
    BY ONLY <1>1, <1>2, <1>3, <1>4, K \in Nat, R * a <= (h + (m + 1)) * K,
            R * amt <= share * K + (R \div 2)

\* The payout of share for amt.
LEMMA PayOutKeeps ==
  ASSUME NEW R \in Nat, NEW a \in Nat, NEW h \in Nat, NEW m \in Nat, NEW K \in Nat,
         R * a <= (h + (m + 1)) * K,
         NEW amt \in Nat, amt <= a, NEW share \in Nat, share <= h, share * K <= R * amt + K
  PROVE  R * (a - amt) <= (h - share + (m + 1 + 1)) * K
  <1>1. R * (a - amt) = R * a - R * amt OBVIOUS
  <1>2. (h - share + (m + 1 + 1)) * K = (h + (m + 1)) * K - share * K + K OBVIOUS
  <1>3. R * a \in Nat /\ R * amt \in Nat /\ share * K \in Nat /\ (h + (m + 1)) * K \in Nat
    <2>1. h + (m + 1) \in Nat OBVIOUS
    <2> QED BY <2>1, ProductNat
  <1> QED
    BY ONLY <1>1, <1>2, <1>3, K \in Nat, R * a <= (h + (m + 1)) * K, share * K <= R * amt + K

\* The moves of a collateral keep its backing.
LEMMA MovesKeepBacking ==
  ASSUME IInv, IInv', NEW c \in Collaterals, changes[c] \in Nat, RAY <= 2 * Worth(c),
         BackedBy(c, changes[c] + 1), VaultMove(c),
         changes'[c] = IF aSupply'[c] # aSupply[c] THEN changes[c] + 1
                       ELSE IF cash'[c] < cash[c] THEN 0 ELSE changes[c]
  PROVE  changes'[c] \in Nat /\ RAY <= 2 * Worth(c)' /\ BackedBy(c, changes[c] + 1)'
  <1> DEFINE a == aSupply[c]
             h == cash[c]
             m == changes[c]
             s == Config[c].scale
             p == pricePerShare[c]
             q == pricePerShare'[c]
             K == s * p
  <1>1. /\ a \in Nat /\ h \in Nat /\ m \in Nat /\ p \in Nat \ {0} /\ q \in Nat \ {0}
        /\ aSupply'[c] \in Nat /\ cash'[c] \in Nat
    BY DEF IInv, TypeOK, Reserves
  <1>2. s \in Nat \ {0} /\ RAY \in Nat \ {0}
    BY StorageAssumption, MathAssumption DEF Reserves, ReserveConfig
  <1>3. K \in Nat /\ RAY <= 2 * K /\ RAY * a <= (h + (m + 1)) * K
    BY <1>1, <1>2, ProductNat DEF Worth, BackedBy
  <1>4. Worth(c)' = s * q BY DEF Worth
  <1>5. BackedBy(c, changes[c] + 1)' <=> RAY * aSupply'[c] <= (cash'[c] + (changes'[c] + 1)) * (s * q)
    BY <1>4 DEF BackedBy
  <1>6. CASE Idles(c)
    <2>1. aSupply'[c] = a /\ cash'[c] = h /\ p <= q /\ changes'[c] = m
      BY <1>1, <1>6 DEF Idles
    <2>2. K <= s * q BY <1>1, <1>2, <2>1, ProductMono
    <2>3. s * q \in Nat BY <1>1, <1>2, ProductNat
    <2>4. (h + (m + 1)) * K <= (h + (m + 1)) * (s * q)
      <3>1. h + (m + 1) \in Nat BY <1>1
      <3> HIDE DEF K
      <3> QED BY ONLY <1>3, <2>2, <2>3, <3>1, ProductMono
    <2>5. RAY * a \in Nat /\ (h + (m + 1)) * K \in Nat /\ (h + (m + 1)) * (s * q) \in Nat
      <3>1. h + (m + 1) \in Nat BY <1>1
      <3> HIDE DEF K
      <3> QED BY <1>1, <1>2, <1>3, <2>3, <3>1, ProductNat
    <2>6. RAY <= 2 * (s * q) BY ONLY <1>2, <1>3, <2>2, <2>3
    <2>7. RAY * a <= (h + (m + 1)) * (s * q) BY ONLY <1>3, <2>4, <2>5
    <2> QED BY <1>1, <1>4, <1>5, <2>1, <2>6, <2>7
  <1>7. CASE PaysIn(c)
    <2>1. PICK share \in Nat :
            /\ rayMul(share * s, p) # 0
            /\ aSupply'[c] = a + rayMul(share * s, p) /\ cash'[c] = h + share
            /\ q = p
      BY <1>7 DEF PaysIn
    <2> DEFINE amt == rayMul(share * s, p)
    <2>2. share * s \in Nat BY <1>2, ProductNat
    <2>3. amt \in Nat /\ RAY * amt <= share * K + (RAY \div 2)
      <3>1. RAY * amt <= share * s * p + (RAY \div 2)
        BY <1>1, <1>2, <2>2, MulHalfUpBounds DEF rayMul
      <3>2. share * s * p = share * K BY <1>1, <1>2
      <3> QED BY <1>1, <2>2, <3>1, <3>2, MathNat
    <2>4. amt # 0 /\ aSupply'[c] = a + amt BY <2>1
    <2> HIDE DEF amt
    <2>5. changes'[c] = m + 1 BY <1>1, <2>3, <2>4
    <2> HIDE DEF K
    <2>6. RAY * (a + amt) <= (h + share + (m + 1 + 1)) * K
      BY ONLY <1>1, <1>2, <1>3, <2>1, <2>3, PayInKeeps
    <2> QED BY <1>1, <1>3, <1>4, <1>5, <2>1, <2>4, <2>5, <2>6 DEF K
  <1>8. CASE PaysOut(c)
    <2>1. PICK amt \in Nat :
            /\ amt # 0 /\ amt <= a /\ shareOf(c, amt) <= h
            /\ aSupply'[c] = a - amt /\ cash'[c] = h - shareOf(c, amt)
            /\ q = p
      BY <1>8 DEF PaysOut
    <2> DEFINE share == shareOf(c, amt)
    <2>2. share \in Nat /\ share * K <= RAY * amt + K
      BY <1>1, <1>2, ShareBounds DEF shareOf
    <2>3. share <= h /\ cash'[c] = h - share BY <2>1
    <2> HIDE DEF share
    <2>4. changes'[c] = m + 1 BY <1>1, <2>1
    <2> HIDE DEF K
    <2>5. RAY * (a - amt) <= (h - share + (m + 1 + 1)) * K
      BY ONLY <1>1, <1>2, <1>3, <2>1, <2>2, <2>3, amt \in Nat, PayOutKeeps
    <2> QED BY <1>1, <1>3, <1>4, <1>5, <2>1, <2>3, <2>4, <2>5 DEF K
  <1>9. CASE Harvests(c)
    <2> DEFINE share == shareOf(c, a)
    <2>1. cash'[c] = share /\ cash'[c] < h /\ aSupply'[c] = a /\ q = p
      BY <1>9 DEF Harvests
    <2>2. share \in Nat /\ RAY * a <= (share + 1) * K
      BY <1>1, <1>2, ShareBounds DEF shareOf
    <2> HIDE DEF share
    <2>3. changes'[c] = 0 BY <2>1
    <2>4. share + (0 + 1) = share + 1 BY <2>2
    <2> QED BY <1>3, <1>4, <1>5, <2>1, <2>2, <2>3, <2>4
  <1> QED BY <1>6, <1>7, <1>8, <1>9 DEF VaultMove

\* A collateral whose supply, holding and price a call leaves alone idles.
LEMMA CollateralIdles ==
  ASSUME IInv, NEW c \in Collaterals, aSupply'[c] = aSupply[c], cash'[c] = cash[c],
         pricePerShare' = pricePerShare
  PROVE  VaultMove(c)
  <1>1. pricePerShare[c] \in Nat BY DEF IInv, TypeOK
  <1> QED BY <1>1 DEF VaultMove, Idles

\* The operations of a debt asset touch no collateral.
LEMMA DebtOperationsIdle ==
  ASSUME IInv, NEW c \in Collaterals, NEW d \in Debts,
         NEW s, NEW h, aSupply' = [aSupply EXCEPT ![d] = s], cash' = [cash EXCEPT ![d] = h],
         pricePerShare' = pricePerShare
  PROVE  VaultMove(c)
  <1>1. c # d /\ c \in Reserves BY StorageAssumption DEF Reserves
  <1>2. aSupply'[c] = aSupply[c] /\ cash'[c] = cash[c] BY <1>1 DEF IInv, TypeOK
  <1> QED BY <1>2, CollateralIdles

\* Nothing stands for no shares.
LEMMA NoShareOfNothing ==
  ASSUME IInv, NEW c \in Collaterals
  PROVE  shareOf(c, 0) = 0
  <1>1. pricePerShare[c] \in Nat \ {0} BY DEF IInv, TypeOK
  <1>2. Config[c].scale \in Nat \ {0} BY StorageAssumption DEF Reserves, ReserveConfig
  <1>3. 0 * RAY = 0 BY MathAssumption
  <1>4. (0 + (pricePerShare[c] \div 2)) \div pricePerShare[c] = 0 BY <1>1
  <1>5. 0 \div Config[c].scale = 0 BY <1>2
  <1> QED BY <1>3, <1>4, <1>5 DEF shareOf, rayDiv, DivHalfUp

\* depositCollateral pays into its collateral.
LEMMA DepositCollateralMoves ==
  ASSUME IInv, NEW u \in Users, NEW c \in Collaterals, NEW share \in Nat,
         depositCollateral(u, c, share), NEW e \in Collaterals
  PROVE  VaultMove(e)
  <1> DEFINE amount == rayMul(share * Config[c].scale, pricePerShare[c])
  <1>1. /\ amount # 0 /\ pricePerShare' = pricePerShare
        /\ cash' = [cash EXCEPT ![c] = @ + share]
        /\ aSupply' = [aSupply EXCEPT ![c] = @ + amount]
    BY DEF depositCollateral
  <1>2. cash \in [Reserves -> Nat] /\ aSupply \in [Reserves -> Nat] /\ Collaterals \subseteq Reserves
    BY DEF IInv, TypeOK, Reserves
  <1>3. CASE e = c
    <2>1. aSupply'[c] = aSupply[c] + amount /\ cash'[c] = cash[c] + share BY <1>1, <1>2
    <2>2. PaysIn(c) BY <1>1, <2>1 DEF PaysIn
    <2> QED BY <1>3, <2>2 DEF VaultMove
  <1>4. CASE e # c
    <2> HIDE DEF amount
    <2>1. aSupply'[e] = aSupply[e] /\ cash'[e] = cash[e] BY <1>1, <1>2, <1>4
    <2> QED BY <1>1, <2>1, CollateralIdles
  <1> QED BY <1>3, <1>4

\* A payout of amount from c, alone or beside the operation of a debt asset d.
LEMMA PayoutMoves ==
  ASSUME IInv, NEW c \in Collaterals, NEW amount \in Nat, NEW e \in Collaterals,
         amount <= aSupply[c], shareOf(c, amount) # 0, shareOf(c, amount) <= cash[c],
         aSupply'[c] = aSupply[c] - amount, cash'[c] = cash[c] - shareOf(c, amount),
         e # c => aSupply'[e] = aSupply[e] /\ cash'[e] = cash[e],
         pricePerShare' = pricePerShare
  PROVE  VaultMove(e)
  <1>1. CASE e = c
    <2>1. amount # 0 BY NoShareOfNothing
    <2>2. PaysOut(c) BY <2>1 DEF PaysOut
    <2> QED BY <1>1, <2>2 DEF VaultMove
  <1>2. CASE e # c BY <1>2, CollateralIdles
  <1> QED BY <1>1, <1>2

\* withdrawCollateral pays out of its collateral.
LEMMA WithdrawCollateralMoves ==
  ASSUME IInv, NEW u \in Users, NEW c \in Collaterals, NEW asked \in Nat,
         withdrawCollateral(u, c, asked), NEW e \in Collaterals
  PROVE  VaultMove(e)
  <1> DEFINE amount == IF asked = MAX_UINT THEN aBalance[c][u] ELSE asked
             share  == shareOf(c, amount)
  <1>1. cash \in [Reserves -> Nat] /\ aSupply \in [Reserves -> Nat] /\ Collaterals \subseteq Reserves
        /\ aBalance[c][u] \in Nat
    BY DEF IInv, TypeOK, Reserves, Accounts
  <1>2. amount \in Nat BY <1>1
  <1>3. /\ amount <= aSupply[c] /\ share # 0 /\ share <= cash[c]
        /\ pricePerShare' = pricePerShare
        /\ cash' = [cash EXCEPT ![c] = @ - share]
        /\ aSupply' = [aSupply EXCEPT ![c] = @ - amount]
    BY DEF withdrawCollateral
  <1> HIDE DEF amount
  <1>4. /\ aSupply'[c] = aSupply[c] - amount /\ cash'[c] = cash[c] - share
        /\ e # c => aSupply'[e] = aSupply[e] /\ cash'[e] = cash[e]
    BY <1>1, <1>3
  <1> QED BY <1>2, <1>3, <1>4, PayoutMoves

\* getYield harvests its collateral.
LEMMA GetYieldMoves ==
  ASSUME IInv, NEW c \in Collaterals, getYield(c), NEW e \in Collaterals
  PROVE  VaultMove(e)
  <1> DEFINE share == shareOf(c, aSupply[c])
  <1>1. /\ cash[c] > share /\ cash' = [cash EXCEPT ![c] = share]
        /\ aSupply' = aSupply /\ pricePerShare' = pricePerShare
    BY DEF getYield
  <1>2. cash \in [Reserves -> Nat] /\ aSupply \in [Reserves -> Nat] /\ Collaterals \subseteq Reserves
    BY DEF IInv, TypeOK, Reserves
  <1>3. share \in Nat
    <2>1. aSupply[c] \in Nat BY <1>2
    <2> QED BY <2>1, ShareNat
  <1>4. CASE e = c
    <2>1. cash'[c] = share /\ cash'[c] < cash[c]
      <3> HIDE DEF share
      <3> QED BY <1>1, <1>2, <1>3
    <2>2. Harvests(c) BY <1>1, <2>1 DEF Harvests
    <2> QED BY <1>4, <2>2 DEF VaultMove
  <1>5. CASE e # c
    <2> HIDE DEF share
    <2>1. aSupply'[e] = aSupply[e] /\ cash'[e] = cash[e] BY <1>1, <1>2, <1>5
    <2> QED BY <1>1, <2>1, CollateralIdles
  <1> QED BY <1>4, <1>5

\* A liquidation pays out what it seizes, or moves it to the liquidator.
LEMMA LiquidationMoves ==
  ASSUME IInv, NEW liquidator \in Users, NEW u \in Users, NEW c \in Collaterals,
         NEW d \in Debts, NEW debtToCover \in Nat, NEW receiveAToken \in BOOLEAN,
         liquidationCall(liquidator, u, c, d, debtToCover, receiveAToken),
         NEW e \in Collaterals
  PROVE  VaultMove(e)
  <1> DEFINE has       == aBalance[c][u]
             maxDebt   == percentMul(debtBalanceOf(d, u), LIQUIDATION_CLOSE_FACTOR_PERCENT)
             covered   == IF debtToCover > maxDebt THEN maxDebt ELSE debtToCover
             available == calculateAvailableCollateralToLiquidate(c, d, covered, has)
             seized    == available[1]
             actual    == IF available[2] < covered THEN available[2] ELSE covered
             share     == shareOf(c, seized)
             mint      == treasuryMint(d, TRUE)
  <1>1. /\ aSupply \in [Reserves -> Nat] /\ cash \in [Reserves -> Nat]
        /\ c \in Reserves /\ d \in Reserves /\ e \in Reserves /\ c # d /\ e # d /\ has \in Nat
    BY StorageAssumption DEF IInv, TypeOK, Reserves, Accounts
  <1>2. seized \in Nat
    <2>1. LIQUIDATION_CLOSE_FACTOR_PERCENT \in Nat
      BY MathAssumption DEF LIQUIDATION_CLOSE_FACTOR_PERCENT
    <2>2. maxDebt \in Nat BY <2>1, ViewsNat, MathNat
    <2> HIDE DEF maxDebt
    <2>3. covered \in Nat BY <2>2
    <2> HIDE DEF covered, has
    <2> QED BY <1>1, <2>3, SeizureLemma
  <1>3. /\ pricePerShare' = pricePerShare
        /\ \/ /\ aSupply' = [aSupply EXCEPT ![d] = @ + mint]
              /\ cash' = [cash EXCEPT ![d] = @ + actual]
           \/ /\ seized <= aSupply[c] /\ share # 0 /\ share <= cash[c]
              /\ aSupply' = [aSupply EXCEPT ![d] = @ + mint, ![c] = @ - seized]
              /\ cash' = [cash EXCEPT ![d] = @ + actual, ![c] = @ - share]
    BY DEF liquidationCall
  <1> HIDE DEF seized, actual, mint
  <1>4. CASE aSupply' = [aSupply EXCEPT ![d] = @ + mint] /\ cash' = [cash EXCEPT ![d] = @ + actual]
    BY <1>3, <1>4, DebtOperationsIdle
  <1>5. CASE /\ seized <= aSupply[c] /\ share # 0 /\ share <= cash[c]
             /\ aSupply' = [aSupply EXCEPT ![d] = @ + mint, ![c] = @ - seized]
             /\ cash' = [cash EXCEPT ![d] = @ + actual, ![c] = @ - share]
    <2>1. /\ aSupply'[c] = aSupply[c] - seized /\ cash'[c] = cash[c] - share
          /\ e # c => aSupply'[e] = aSupply[e] /\ cash'[e] = cash[e]
      BY <1>1, <1>5
    <2> QED BY <1>2, <1>3, <1>5, <2>1, PayoutMoves
  <1> QED BY <1>3, <1>4, <1>5

\* Every step of the pool is a move of every collateral.
LEMMA NextMoves == IInv /\ [Next]_vars => \A e \in Collaterals : VaultMove(e)
  <1> SUFFICES ASSUME IInv, [Next]_vars, NEW e \in Collaterals PROVE VaultMove(e) OBVIOUS
  <1>0. /\ aSupply \in [Reserves -> Nat] /\ cash \in [Reserves -> Nat] /\ Debts \subseteq Reserves
    BY DEF IInv, TypeOK, Reserves
  <1>1. /\ \A o \in AmountOf : Amounts[o] \subseteq Nat
        /\ MAX_UINT \in Nat
    BY PoolAssumption, StorageAssumption
  <1>2. /\ Amounts.collateral \subseteq Nat
        /\ Amounts.withdrawCollateral \cup {MAX_UINT} \subseteq Nat
        /\ Amounts.cover \cup {MAX_UINT} \subseteq Nat
    BY <1>1 DEF AmountOf
  <1>3. CASE \E u \in Users, c \in Collaterals, share \in Amounts.collateral :
               depositCollateral(u, c, share)
    BY <1>2, <1>3, DepositCollateralMoves
  <1>4. CASE \E u \in Users, c \in Collaterals,
                amount \in Amounts.withdrawCollateral \cup {MAX_UINT} :
               withdrawCollateral(u, c, amount)
    BY <1>2, <1>4, WithdrawCollateralMoves
  <1>5. CASE \E c \in Collaterals : getYield(c)
    BY <1>5, GetYieldMoves
  <1>6. CASE \E liquidator, u \in Users, c \in Collaterals, d \in Debts,
                debtToCover \in Amounts.cover \cup {MAX_UINT}, receiveAToken \in BOOLEAN :
                liquidationCall(liquidator, u, c, d, debtToCover, receiveAToken)
    BY <1>2, <1>6, LiquidationMoves
  <1>7. CASE \E u \in Users, d \in Debts, amount \in Amounts.deposit : deposit(u, d, amount)
    BY <1>7, DebtOperationsIdle DEF deposit
  <1>8. CASE \E u \in Users, d \in Debts, amount \in Amounts.withdraw \cup {MAX_UINT} :
               withdraw(u, d, amount)
    <2>1. ASSUME NEW u \in Users, NEW d \in Debts, NEW amount, withdraw(u, d, amount)
          PROVE  VaultMove(e)
      <3>1. /\ aSupply' = [aSupply EXCEPT ![d] = aSupply'[d]]
            /\ cash' = [cash EXCEPT ![d] = cash'[d]]
            /\ pricePerShare' = pricePerShare
        BY <1>0, <2>1 DEF withdraw
      <3> QED BY <3>1, DebtOperationsIdle
    <2> QED BY <1>8, <2>1
  <1>9. CASE \E d \in Debts, amount \in Amounts.yield : depositYield(d, amount)
    BY <1>9, DebtOperationsIdle DEF depositYield, treasuryAccrues
  <1>10. CASE \E caller, u \in Users, d \in Debts, amount \in Amounts.borrow :
                borrow(caller, u, d, amount)
    <2>1. ASSUME NEW caller \in Users, NEW u \in Users, NEW d \in Debts, NEW amount, borrow(caller, u, d, amount)
          PROVE  VaultMove(e)
      <3>1. /\ aSupply' = [aSupply EXCEPT ![d] = aSupply'[d]]
            /\ cash' = [cash EXCEPT ![d] = cash'[d]]
            /\ pricePerShare' = pricePerShare
        BY <1>0, <2>1 DEF borrow, treasuryAccrues
      <3> QED BY <3>1, DebtOperationsIdle
    <2> QED BY <1>10, <2>1
  <1>11. CASE \E caller, u \in Users, d \in Debts, amount \in Amounts.repay \cup {MAX_UINT} :
                repay(caller, u, d, amount)
    <2>1. ASSUME NEW caller \in Users, NEW u \in Users, NEW d \in Debts, NEW amount, repay(caller, u, d, amount)
          PROVE  VaultMove(e)
      <3>1. /\ aSupply' = [aSupply EXCEPT ![d] = aSupply'[d]]
            /\ cash' = [cash EXCEPT ![d] = cash'[d]]
            /\ pricePerShare' = pricePerShare
        BY <1>0, <2>1 DEF repay, treasuryAccrues
      <3> QED BY <3>1, DebtOperationsIdle
    <2> QED BY <1>11, <2>1
  <1>12. CASE \E c \in Collaterals : \E p \in PPS[c] : VaultEarns(c, p)
    <2>0. PICK c \in Collaterals : \E p \in PPS[c] : VaultEarns(c, p) BY <1>12
    <2>1. PICK p \in PPS[c] : VaultEarns(c, p) BY <2>0
    <2>2. /\ pricePerShare \in [Collaterals -> Nat \ {0}] /\ p \in Nat
      BY PoolAssumption DEF IInv, TypeOK
    <2>3. /\ aSupply' = aSupply /\ cash' = cash /\ pricePerShare[c] < p
          /\ pricePerShare' = [pricePerShare EXCEPT ![c] = p]
      BY <2>1 DEF VaultEarns
    <2>4. pricePerShare'[e] >= pricePerShare[e]
      <3>1. CASE e = c BY <2>2, <2>3, <3>1
      <3>2. CASE e # c BY <2>2, <2>3, <3>2
      <3> QED BY <3>1, <3>2
    <2> QED BY <2>3, <2>4 DEF VaultMove, Idles
  <1>13. CASE \/ \E from, to \in Users, r \in Reserves, amount \in Amounts.transfer :
                    transfer(from, to, r, amount)
              \/ \E u, v \in Users, d \in Debts, amount \in Amounts.delegate :
                    approveDelegation(u, v, d, amount)
              \/ \E u \in Users, r \in Reserves, use \in BOOLEAN :
                    setUserUseReserveAsCollateral(u, r, use)
              \/ \E val \in BOOLEAN : setPause(val)
              \/ \E r \in Reserves, val \in BOOLEAN : setReserveFreeze(r, val)
              \/ AdvanceTime
              \/ \E r \in Reserves : \E p \in Prices[r] : OracleUpdate(r, p)
              \/ UNCHANGED vars
    <2>1. UNCHANGED <<aSupply, cash, pricePerShare>>
      <3>1. ASSUME NEW u, NEW v, NEW r, NEW x
            PROVE  /\ transfer(u, v, r, x) => UNCHANGED <<aSupply, cash, pricePerShare>>
                   /\ approveDelegation(u, v, r, x) => UNCHANGED <<aSupply, cash, pricePerShare>>
                   /\ setUserUseReserveAsCollateral(u, r, x)
                        => UNCHANGED <<aSupply, cash, pricePerShare>>
                   /\ setPause(x) => UNCHANGED <<aSupply, cash, pricePerShare>>
                   /\ setReserveFreeze(r, x) => UNCHANGED <<aSupply, cash, pricePerShare>>
                   /\ AdvanceTime => UNCHANGED <<aSupply, cash, pricePerShare>>
                   /\ OracleUpdate(r, x) => UNCHANGED <<aSupply, cash, pricePerShare>>
                   /\ UNCHANGED vars => UNCHANGED <<aSupply, cash, pricePerShare>>
        BY DEF transfer, approveDelegation, setUserUseReserveAsCollateral, setPause,
               setReserveFreeze, AdvanceTime, OracleUpdate, vars
      <3> QED BY <1>13, <3>1
    <2> QED BY <2>1, CollateralIdles
  <1> QED BY <1>3, <1>4, <1>5, <1>6, <1>7, <1>8, <1>9, <1>10, <1>11, <1>12, <1>13 DEF Next

\* The aToken of a collateral holds the internal asset its supply stands for, up
\* to one unit for every change of the supply since the vault last took its
\* yield: rounding never piles up across a harvest, however far the price per share
\* rises and whoever deposits, withdraws or is liquidated.
THEOREM CollateralStaysBacked == SpecWithHistory => [](FewChanges => CollateralBacked)
  <1>1. Init /\ HistoryInit => BackingIInv
    <2> SUFFICES ASSUME Init, HistoryInit, NEW c \in Collaterals
                 PROVE  changes[c] \in Nat /\ RAY <= 2 * Worth(c) /\ BackedBy(c, changes[c] + 1)
      BY DEF BackingIInv
    <2> DEFINE s == Config[c].scale
               p == RAY \div s
    <2>1. s \in Nat \ {0} /\ RAY \in Nat \ {0}
      BY StorageAssumption, MathAssumption DEF Reserves, ReserveConfig
    <2>2. p # 0 BY PoolAssumption
    <2>3. p \in Nat /\ s * p <= RAY /\ RAY < s * p + s BY <2>1, DivBounds
    <2>4. aSupply[c] = 0 /\ cash[c] = 0 /\ changes[c] = 0 /\ Worth(c) = s * p
      BY DEF Init, HistoryInit, Worth, Reserves
    <2> HIDE DEF p, s
    <2>5. s * 1 <= s * p BY <2>1, <2>2, <2>3, ProductMono
    <2>6. s * p \in Nat BY <2>1, <2>3, ProductNat
    <2>7. RAY <= 2 * (s * p) BY <2>1, <2>3, <2>5, <2>6
    <2>8. RAY * 0 = 0 /\ (0 + (0 + 1)) * (s * p) = s * p BY <2>1, <2>6
    <2> QED BY <2>4, <2>6, <2>7, <2>8 DEF BackedBy
  <1>2. IInv /\ IInv' /\ BackingIInv /\ [Next /\ HistoryNext]_<<vars, changes>> => BackingIInv'
    <2> SUFFICES ASSUME IInv, IInv', BackingIInv, [Next /\ HistoryNext]_<<vars, changes>>,
                        NEW c \in Collaterals
                 PROVE  changes'[c] \in Nat /\ RAY <= 2 * Worth(c)' /\ BackedBy(c, changes[c] + 1)'
      BY DEF BackingIInv
    <2>1. changes[c] \in Nat /\ RAY <= 2 * Worth(c) /\ BackedBy(c, changes[c] + 1)
      BY DEF BackingIInv
    <2>2. CASE Next /\ HistoryNext
      <3>1. VaultMove(c) BY <2>2, NextMoves
      <3>2. changes'[c] = IF aSupply'[c] # aSupply[c] THEN changes[c] + 1
                          ELSE IF cash'[c] < cash[c] THEN 0 ELSE changes[c]
        BY <2>2 DEF HistoryNext
      <3> QED BY <2>1, <3>1, <3>2, MovesKeepBacking
    <2>3. CASE UNCHANGED <<vars, changes>>
      BY <2>1, <2>3 DEF vars, Worth, BackedBy
    <2> QED BY <2>2, <2>3
  <1>3. IInv /\ BackingIInv => (FewChanges => CollateralBacked)
    <2> SUFFICES ASSUME IInv, BackingIInv, FewChanges, NEW c \in Collaterals
                 PROVE  aSupply[c] <= rayMul((cash[c] + BackingSlack) * Config[c].scale,
                                             pricePerShare[c])
      BY DEF CollateralBacked
    <2> DEFINE k == changes[c] + 1
               s == Config[c].scale
               p == pricePerShare[c]
               b == (cash[c] + BackingSlack) * s
    <2>1. /\ aSupply[c] \in Nat /\ cash[c] \in Nat /\ p \in Nat /\ s \in Nat
          /\ RAY \in Nat \ {0} /\ BackingSlack \in Nat /\ changes[c] \in Nat
      BY StorageAssumption, MathAssumption, SlackAssumption
      DEF IInv, TypeOK, Reserves, ReserveConfig, BackingIInv
    <2>2. k \in Nat /\ k <= BackingSlack BY <2>1 DEF FewChanges
    <2>3. RAY * aSupply[c] <= (cash[c] + k) * (s * p) BY DEF BackingIInv, BackedBy, Worth
    <2> HIDE DEF k
    <2>4. (cash[c] + k) * (s * p) <= (cash[c] + BackingSlack) * (s * p)
      <3>1. s * p \in Nat /\ cash[c] + k \in Nat /\ cash[c] + BackingSlack \in Nat
            /\ cash[c] + k <= cash[c] + BackingSlack /\ s * p <= s * p
        <4>1. s * p \in Nat BY <2>1, ProductNat
        <4> QED BY <2>1, <2>2, <4>1
      <3> QED BY <3>1, ProductGrows
    <2>5. (cash[c] + BackingSlack) * (s * p) = b * p BY <2>1
    <2>6. /\ b \in Nat /\ b * p \in Nat /\ RAY * aSupply[c] \in Nat /\ RAY \div 2 \in Nat
          /\ aSupply[c] * RAY = RAY * aSupply[c]
      <3>1. cash[c] + BackingSlack \in Nat BY <2>1
      <3>2. b \in Nat BY <2>1, <3>1, ProductNat
      <3> HIDE DEF b
      <3>3. b * p \in Nat /\ RAY * aSupply[c] \in Nat BY <2>1, <3>2, ProductNat
      <3> QED BY <2>1, <3>2, <3>3
    <2>7. (cash[c] + k) * (s * p) \in Nat
      <3>1. cash[c] + k \in Nat /\ s * p \in Nat BY <2>1, <2>2, ProductNat
      <3> QED BY <3>1, ProductNat
    <2> HIDE DEF b
    <2>8. aSupply[c] * RAY <= b * p + (RAY \div 2)
      BY ONLY <2>3, <2>4, <2>5, <2>6, <2>7
    <2>9. b * p + (RAY \div 2) \in Nat BY <2>6
    <2>10. aSupply[c] <= (b * p + (RAY \div 2)) \div RAY BY <2>1, <2>8, <2>9, DivLower
    <2> QED BY <2>10 DEF rayMul, MulHalfUp, b
  <1>4. [Next /\ HistoryNext]_<<vars, changes>> => [Next]_vars OBVIOUS
  <1>5. SpecWithHistory => Spec BY <1>4, PTL DEF SpecWithHistory, Spec
  <1> QED BY <1>1, <1>2, <1>3, <1>5, InductiveInvariant, PTL DEF SpecWithHistory

-----------------------------------------------------------------------------
(* Liquidations: what is seized against what is paid.                      *)

\* A common factor cancels.
LEMMA CancelFactor ==
  ASSUME NEW k \in Nat \ {0}, NEW a \in Nat, NEW b \in Nat, k * a <= k * b
  PROVE  a <= b
  <1>1. SUFFICES ASSUME b + 1 <= a PROVE FALSE OBVIOUS
  <1>2. k * (b + 1) <= k * a BY <1>1, ProductMono
  <1>3. k * (b + 1) = k * b + k OBVIOUS
  <1>4. k * b \in Nat /\ k * a \in Nat BY ProductNat
  <1> QED BY ONLY <1>2, <1>3, <1>4, k * a <= k * b, k \in Nat \ {0}

\* A value whose product with the factor is below the product of y and b, half a
\* factor apart, is not above y percent b.
LEMMA BelowPercent ==
  ASSUME NEW v \in Nat, NEW y \in Nat, NEW b \in Nat,
         PERCENTAGE_FACTOR * v <= y * b + (PERCENTAGE_FACTOR \div 2)
  PROVE  v <= percentMul(y, b)
  <1> DEFINE F == PERCENTAGE_FACTOR
             x == y * b + (F \div 2)
  <1>1. F \in Nat \ {0} BY MathAssumption
  <1>2. x \in Nat BY <1>1, ProductNat
  <1>3. v * F <= x
    <2>1. v * F = F * v BY <1>1
    <2> QED BY <2>1
  <1> HIDE DEF F, x
  <1>4. v <= x \div F BY <1>1, <1>2, <1>3, DivLower
  <1> QED BY <1>4 DEF percentMul, MulHalfUp, F, x

\* An amount seized for the cover of a debt is worth at most the cover and the bonus.
LEMMA SeizedForCover ==
  ASSUME NEW pc \in Nat \ {0}, NEW pd \in Nat \ {0}, NEW uc \in Nat \ {0}, NEW ud \in Nat \ {0},
         NEW bonus \in Nat, NEW cover \in Nat, NEW seized \in Nat,
         seized * (pc * ud) <= percentMul(pd * cover * uc, bonus)
  PROVE  (pc * seized) \div uc <= percentMul(((pd * (cover + 2)) \div ud) + 1, bonus)
  <1> DEFINE F == PERCENTAGE_FACTOR
             h == F \div 2
             M == percentMul(pd * cover * uc, bonus)
             v == (pc * seized) \div uc
             y == (pd * (cover + 2)) \div ud
             k == uc * ud
  <1>1. F \in Nat \ {0} /\ h \in Nat BY MathAssumption
  <1>2. pd * cover * uc \in Nat /\ pc * seized \in Nat /\ pd * (cover + 2) \in Nat
    <2>1. pd * cover \in Nat /\ cover + 2 \in Nat BY ProductNat
    <2> QED BY <2>1, ProductNat
  <1>3. M \in Nat /\ F * M <= pd * cover * uc * bonus + h
    BY <1>1, <1>2, MathNat, MulHalfUpBounds DEF percentMul
  <1>4. v \in Nat /\ uc * v <= pc * seized BY <1>2, DivBounds
  <1>5. y \in Nat /\ pd * (cover + 2) < ud * y + ud BY <1>2, DivBounds
  <1>6. k \in Nat \ {0} OBVIOUS
  <1> HIDE DEF F, h, M, v, y
  <1>7. k * (F * v) <= F * M
    <2>1. (F * ud) * (uc * v) <= (F * ud) * (pc * seized)
      <3>1. F * ud \in Nat /\ uc * v \in Nat BY <1>1, <1>4, ProductNat
      <3> QED BY <1>2, <1>4, <3>1, ProductMono
    <2>2. (F * ud) * (uc * v) = k * (F * v) BY <1>1, <1>4
    <2>3. (F * ud) * (pc * seized) = F * (seized * (pc * ud)) BY <1>1
    <2>4. F * (seized * (pc * ud)) <= F * M
      <3>1. pc * ud \in Nat BY ProductNat
      <3>2. seized * (pc * ud) \in Nat BY <3>1, ProductNat
      <3>3. seized * (pc * ud) <= M BY DEF M
      <3> QED BY <1>1, <1>3, <3>2, <3>3, ProductMono
    <2>5. k * (F * v) \in Nat /\ F * (seized * (pc * ud)) \in Nat /\ F * M \in Nat
      <3>1. F * v \in Nat BY <1>1, <1>4, ProductNat
      <3>2. pc * ud \in Nat BY ProductNat
      <3>3. seized * (pc * ud) \in Nat BY <3>2, ProductNat
      <3> HIDE DEF k
      <3> QED BY <1>1, <1>3, <1>6, <3>1, <3>3, ProductNat
    <2> QED BY ONLY <2>1, <2>2, <2>3, <2>4, <2>5
  <1>8. pd * cover * uc * bonus <= k * ((y + 1) * bonus)
    <2>1. pd * cover <= ud * (y + 1)
      <3>1. pd * (cover + 2) = pd * cover + 2 * pd OBVIOUS
      <3>2. ud * (y + 1) = ud * y + ud BY <1>5
      <3>3. pd * cover \in Nat /\ ud * y \in Nat BY <1>5, ProductNat
      <3> QED BY ONLY <1>5, <3>1, <3>2, <3>3, pd \in Nat, ud \in Nat
    <2>2. (uc * bonus) * (pd * cover) <= (uc * bonus) * (ud * (y + 1))
      <3>1. uc * bonus \in Nat /\ pd * cover \in Nat /\ y + 1 \in Nat BY <1>5, ProductNat
      <3>2. ud * (y + 1) \in Nat BY <3>1, ProductNat
      <3> QED BY <2>1, <3>1, <3>2, ProductMono
    <2>3. (uc * bonus) * (pd * cover) = pd * cover * uc * bonus OBVIOUS
    <2>4. (uc * bonus) * (ud * (y + 1)) = k * ((y + 1) * bonus) BY <1>5
    <2> QED BY ONLY <2>2, <2>3, <2>4
  <1>9. F * v \in Nat /\ (y + 1) * bonus \in Nat /\ y + 1 \in Nat
    <2>1. y + 1 \in Nat BY <1>5
    <2> QED BY <1>1, <1>4, <2>1, ProductNat
  <1>10. k * (F * v) <= k * ((y + 1) * bonus + h)
    <2> DEFINE b == (y + 1) * bonus
    <2>1. b \in Nat BY <1>9
    <2> HIDE DEF b, k
    <2>2. k * (b + h) = k * b + k * h BY <1>1, <1>6, <2>1
    <2>3. 1 * h <= k * h BY <1>1, <1>6, ProductGrows
    <2>4. k * (F * v) \in Nat /\ F * M \in Nat /\ k * b \in Nat /\ k * h \in Nat
      BY <1>1, <1>3, <1>6, <1>9, <2>1, ProductNat
    <2>5. pd * cover * uc * bonus \in Nat
      <3> DEFINE a == pd * cover * uc
      <3>1. a \in Nat BY <1>2
      <3> HIDE DEF a
      <3>2. a * bonus \in Nat BY <3>1, ProductNat
      <3> QED BY <3>2 DEF a
    <2>6. pd * cover * uc * bonus <= k * b BY <1>8 DEF b
    <2>7. k * (F * v) <= k * (b + h)
      BY ONLY <1>1, <1>3, <1>7, <2>2, <2>3, <2>4, <2>5, <2>6
    <2> QED BY <2>7 DEF b
  <1>11. F * v <= (y + 1) * bonus + h
    <2>1. (y + 1) * bonus + h \in Nat BY <1>1, <1>9
    <2> HIDE DEF k
    <2> QED BY <1>6, <1>9, <1>10, <2>1, CancelFactor
  <1>12. v <= percentMul(y + 1, bonus)
    <2>1. PERCENTAGE_FACTOR * v <= (y + 1) * bonus + (PERCENTAGE_FACTOR \div 2)
      BY <1>11 DEF F, h
    <2> QED BY <1>4, <1>9, <2>1, BelowPercent
  <1> QED BY <1>12 DEF v, y

\* All of a user's collateral, seized for the debt it pays for: worth at most that
\* debt and the bonus.
LEMMA SeizedForNeed ==
  ASSUME NEW pc \in Nat \ {0}, NEW pd \in Nat \ {0}, NEW uc \in Nat \ {0}, NEW ud \in Nat \ {0},
         NEW bonus \in Nat, PERCENTAGE_FACTOR <= bonus, NEW seized \in Nat,
         NEW need, need = percentDiv((pc * seized * ud) \div (pd * uc), bonus)
  PROVE  (pc * seized) \div uc <= percentMul(((pd * (need + 2)) \div ud) + 1, bonus)
  <1> DEFINE F == PERCENTAGE_FACTOR
             x == (pc * seized * ud) \div (pd * uc)
             v == (pc * seized) \div uc
             y == (pd * (need + 2)) \div ud
             a == pc * seized
  <1>1. F \in Nat \ {0} /\ F <= bonus /\ bonus \in Nat \ {0} BY MathAssumption
  <1>2. a \in Nat /\ a * ud \in Nat /\ pd * uc \in Nat \ {0}
    <2>1. a \in Nat BY ProductNat
    <2> HIDE DEF a
    <2> QED BY <2>1, ProductNat
  <1>3. x \in Nat /\ a * ud < (pd * uc) * x + pd * uc
    <2> HIDE DEF a
    <2>1. x = (a * ud) \div (pd * uc) BY DEF a
    <2> HIDE DEF x
    <2> QED BY <1>2, <2>1, DivBounds
  <1> HIDE DEF x
  <1>4. need \in Nat /\ x * F + (bonus \div 2) < bonus * need + bonus
    <2>1. need = (x * F + (bonus \div 2)) \div bonus BY DEF percentDiv, DivHalfUp, x
    <2>2. x * F + (bonus \div 2) \in Nat BY <1>1, <1>3, ProductNat
    <2> QED BY <1>1, <2>1, <2>2, DivBounds
  <1>5. v \in Nat /\ uc * v <= a BY <1>2, DivBounds
  <1>6. pd * (need + 2) \in Nat
    <2>1. need + 2 \in Nat BY <1>4
    <2> QED BY <2>1, ProductNat
  <1>7. y \in Nat /\ pd * (need + 2) < ud * y + ud
    <2> DEFINE z == pd * (need + 2)
    <2>1. z \in Nat BY <1>6
    <2> HIDE DEF z
    <2>2. z \div ud \in Nat /\ z < ud * (z \div ud) + ud BY <2>1, DivBounds
    <2> QED BY <2>2 DEF z
  <1> HIDE DEF F, v, y, a
  <1>8. ud * v <= pd * (x + 1)
    <2>1. ud * (uc * v) <= ud * a
      <3>1. uc * v \in Nat BY <1>5, ProductNat
      <3> QED BY <1>2, <1>5, <3>1, ProductMono
    <2>2. ud * (uc * v) = uc * (ud * v) /\ ud * a = a * ud BY <1>2, <1>5
    <2>3. (pd * uc) * x + pd * uc = uc * (pd * (x + 1)) BY <1>3
    <2>4. ud * v \in Nat /\ pd * (x + 1) \in Nat
      <3>1. x + 1 \in Nat BY <1>3
      <3> QED BY <1>5, <3>1, ProductNat
    <2>5. uc * (ud * v) \in Nat /\ uc * (pd * (x + 1)) \in Nat BY <2>4, ProductNat
    <2>6. uc * (ud * v) <= uc * (pd * (x + 1)) BY ONLY <1>2, <1>3, <2>1, <2>2, <2>3, <2>5
    <2> QED BY <2>4, <2>6, CancelFactor
  <1>9. F * (x + 1) <= bonus * (need + 2)
    <2>1. F * (x + 1) = x * F + F BY <1>1, <1>3
    <2>2. bonus * (need + 2) = bonus * need + bonus + bonus BY <1>1, <1>4
    <2>3. x * F \in Nat /\ bonus * need \in Nat /\ bonus \div 2 \in Nat
      BY <1>1, <1>3, <1>4, ProductNat
    <2> QED BY ONLY <1>1, <1>4, <2>1, <2>2, <2>3
  <1>10. ud * (F * v) <= ud * ((y + 1) * bonus)
    <2>1. F * (ud * v) <= F * (pd * (x + 1))
      <3>1. ud * v \in Nat /\ x + 1 \in Nat BY <1>3, <1>5, ProductNat
      <3>2. pd * (x + 1) \in Nat BY <3>1, ProductNat
      <3> QED BY <1>1, <1>8, <3>1, <3>2, ProductMono
    <2>2. pd * (F * (x + 1)) <= pd * (bonus * (need + 2))
      <3>1. x + 1 \in Nat /\ need + 2 \in Nat BY <1>3, <1>4
      <3>2. F * (x + 1) \in Nat /\ bonus * (need + 2) \in Nat BY <1>1, <3>1, ProductNat
      <3> QED BY <1>9, <3>2, ProductMono
    <2>3. bonus * (pd * (need + 2)) <= bonus * (ud * (y + 1))
      <3>1. pd * (need + 2) <= ud * (y + 1) /\ ud * (y + 1) \in Nat
        <4>1. ud * (y + 1) = ud * y + ud BY <1>7
        <4>2. ud * y \in Nat BY <1>7, ProductNat
        <4> QED BY ONLY <1>6, <1>7, <4>1, <4>2, ud \in Nat
      <3> QED BY <1>1, <1>6, <3>1, ProductMono
    <2>4. /\ F * (ud * v) = ud * (F * v)
          /\ F * (pd * (x + 1)) = pd * (F * (x + 1))
          /\ pd * (bonus * (need + 2)) = bonus * (pd * (need + 2))
          /\ bonus * (ud * (y + 1)) = ud * ((y + 1) * bonus)
      BY <1>1, <1>3, <1>4, <1>5, <1>7
    <2>5. /\ ud * (F * v) \in Nat /\ pd * (F * (x + 1)) \in Nat
          /\ bonus * (pd * (need + 2)) \in Nat /\ ud * ((y + 1) * bonus) \in Nat
      <3>1. F * v \in Nat /\ x + 1 \in Nat /\ y + 1 \in Nat
        BY <1>1, <1>3, <1>5, <1>7, ProductNat
      <3>2. F * (x + 1) \in Nat /\ (y + 1) * bonus \in Nat BY <1>1, <3>1, ProductNat
      <3> QED BY <1>1, <1>6, <3>1, <3>2, ProductNat
    <2> QED BY ONLY <2>1, <2>2, <2>3, <2>4, <2>5
  <1>11. F * v \in Nat /\ (y + 1) * bonus \in Nat /\ y + 1 \in Nat
    <2>1. y + 1 \in Nat BY <1>7
    <2> QED BY <1>1, <1>5, <2>1, ProductNat
  <1>12. F * v <= (y + 1) * bonus BY <1>10, <1>11, CancelFactor
  <1>13. v <= percentMul(y + 1, bonus)
    <2>1. PERCENTAGE_FACTOR * v <= (y + 1) * bonus + (PERCENTAGE_FACTOR \div 2)
      <3>1. PERCENTAGE_FACTOR \div 2 \in Nat BY MathAssumption
      <3> QED BY <1>11, <1>12, <3>1 DEF F
    <2> QED BY <1>1, <1>5, <1>11, <2>1, BelowPercent
  <1> QED BY <1>13 DEF v, y, a

\* The close factor takes at most half of a debt, rounded up.
LEMMA HalfOfDebt ==
  ASSUME NEW debt \in Nat
  PROVE  2 * percentMul(debt, LIQUIDATION_CLOSE_FACTOR_PERCENT) <= debt + 1
  <1> DEFINE F == PERCENTAGE_FACTOR
             h == F \div 2
             m == percentMul(debt, h)
  <1>1. F \in Nat \ {0} /\ h \in Nat /\ h + h <= F BY MathAssumption
  <1>2. m \in Nat /\ F * m <= debt * h + h BY <1>1, MathNat, MulHalfUpBounds DEF percentMul
  <1> HIDE DEF F, h, m
  <1>3. (debt + 1) * (h + h) <= (debt + 1) * F
    <2>1. debt + 1 \in Nat /\ h + h \in Nat /\ F \in Nat BY <1>1
    <2> QED BY ONLY <1>1, <2>1, ProductMono
  <1>4. /\ (debt + 1) * (h + h) = (debt * h + h) + (debt * h + h)
        /\ (debt + 1) * F = F * (debt + 1)
        /\ F * (2 * m) = F * m + F * m
    BY <1>1, <1>2
  <1>5. F * m \in Nat /\ debt * h \in Nat /\ F * (debt + 1) \in Nat /\ F * (2 * m) \in Nat
    <2>1. debt + 1 \in Nat /\ 2 * m \in Nat BY <1>2
    <2> QED BY <1>1, <1>2, <2>1, ProductNat
  <1>6. F * (2 * m) <= F * (debt + 1) BY ONLY <1>1, <1>2, <1>3, <1>4, <1>5
  <1>7. 2 * m \in Nat /\ debt + 1 \in Nat BY <1>2
  <1>8. 2 * m <= debt + 1 BY <1>1, <1>6, <1>7, CancelFactor
  <1> QED BY <1>8 DEF m, h, F, LIQUIDATION_CLOSE_FACTOR_PERCENT

\* The collateral manager's computation, whichever of its two cases applies: the
\* debt is not covered in excess of the request, nor the collateral undersold.
LEMMA SeizureIsFair ==
  ASSUME IInv, NEW c \in Collaterals, NEW d \in Debts, NEW cover \in Nat, NEW has \in Nat,
         Config[c].liquidationThreshold # 0
  PROVE  LET available == calculateAvailableCollateralToLiquidate(c, d, cover, has)
             seized    == available[1]
             actual    == IF available[2] < cover THEN available[2] ELSE cover
         IN  /\ actual <= cover
             /\ InETH(c, seized)
                  <= percentMul(InETH(d, actual + 2) + 1, Config[c].liquidationBonus)
  <1> DEFINE bonus == Config[c].liquidationBonus
             pc    == price[c]
             pd    == price[d]
             uc    == Config[c].unit
             ud    == Config[d].unit
             M     == percentMul(pd * cover * uc, bonus)
             most  == M \div (pc * ud)
             need  == percentDiv((pc * has * ud) \div (pd * uc), bonus)
             available == calculateAvailableCollateralToLiquidate(c, d, cover, has)
             seized    == available[1]
             actual    == IF available[2] < cover THEN available[2] ELSE cover
  <1>1. /\ pc \in Nat \ {0} /\ pd \in Nat \ {0} /\ uc \in Nat \ {0} /\ ud \in Nat \ {0}
        /\ bonus \in Nat \ {0} /\ PERCENTAGE_FACTOR <= bonus
    BY StorageAssumption, BonusAssumption, MathAssumption
    DEF IInv, TypeOK, Reserves, ReserveConfig
  <1>2. M \in Nat /\ pc * ud \in Nat \ {0}
    <2>1. pd * cover \in Nat BY <1>1, ProductNat
    <2>2. pd * cover * uc \in Nat BY <1>1, <2>1, ProductNat
    <2>3. pc * ud \in Nat \ {0} BY <1>1
    <2> QED BY <1>1, <2>2, <2>3, MathNat
  <1>3. most \in Nat /\ (pc * ud) * most <= M
    <2> HIDE DEF M
    <2> QED BY <1>2, DivBounds
  <1>4. available = IF most > has THEN <<has, need>> ELSE <<most, cover>>
    BY DEF calculateAvailableCollateralToLiquidate
  <1>5. need \in Nat
    <2>1. pc * has \in Nat BY <1>1, ProductNat
    <2>2. pc * has * ud \in Nat /\ pd * uc \in Nat \ {0}
      <3>1. pc * has * ud \in Nat BY <1>1, <2>1, ProductNat
      <3>2. pd * uc \in Nat \ {0} BY <1>1
      <3> QED BY <3>1, <3>2
    <2>3. (pc * has * ud) \div (pd * uc) \in Nat BY <2>2, DivBounds
    <2> QED BY <1>1, <2>3, MathNat
  <1> HIDE DEF most, need, available
  <1>6. \/ actual = cover /\ seized \in Nat /\ seized <= most
        \/ actual = need /\ seized = has /\ need < cover
    BY <1>3, <1>4, <1>5
  <1>7. actual <= cover BY <1>5, <1>6
  <1>8. (pc * seized) \div uc <= percentMul(((pd * (actual + 2)) \div ud) + 1, bonus)
    <2>1. CASE actual = need /\ seized = has
      <3> HIDE DEF seized, actual, bonus, pc, pd, uc, ud
      <3>1. need = percentDiv((pc * seized * ud) \div (pd * uc), bonus) BY <2>1 DEF need
      <3>2. seized \in Nat /\ bonus \in Nat BY <1>1, <2>1
      <3>3. (pc * seized) \div uc <= percentMul(((pd * (need + 2)) \div ud) + 1, bonus)
        BY ONLY <1>1, <3>1, <3>2, SeizedForNeed
      <3> QED BY <2>1, <3>3
    <2>2. CASE actual = cover /\ seized \in Nat /\ seized <= most
      <3> HIDE DEF seized, actual, bonus, pc, pd, uc, ud
      <3>1. (pc * ud) * seized <= (pc * ud) * most BY <1>2, <1>3, <2>2, ProductMono
      <3>2. seized * (pc * ud) = (pc * ud) * seized BY <1>2, <2>2
      <3>3. (pc * ud) * seized \in Nat /\ (pc * ud) * most \in Nat
        BY <1>2, <1>3, <2>2, ProductNat
      <3>4. seized * (pc * ud) <= percentMul(pd * cover * uc, bonus)
        <4>1. seized * (pc * ud) <= M
          <5> HIDE DEF M
          <5> QED BY ONLY <1>2, <1>3, <3>1, <3>2, <3>3
        <4> QED BY <4>1 DEF M
      <3>5. bonus \in Nat BY <1>1
      <3>6. (pc * seized) \div uc <= percentMul(((pd * (cover + 2)) \div ud) + 1, bonus)
        BY ONLY <1>1, <2>2, <3>4, <3>5, cover \in Nat, SeizedForCover
      <3> QED BY <2>2, <3>6
    <2> QED BY <1>6, <2>1, <2>2
  <1> QED BY <1>7, <1>8 DEF InETH, available

\* A liquidation is fair, in both of its payouts.
LEMMA LiquidationFair ==
  ASSUME IInv, NEW liquidator \in Users, NEW u \in Users, NEW c \in Collaterals,
         NEW d \in Debts, NEW debtToCover \in Nat, NEW receiveAToken \in BOOLEAN,
         liquidationCall(liquidator, u, c, d, debtToCover, receiveAToken)
  PROVE  FairStep
  <1> DEFINE has       == aBalance[c][u]
             userDebt  == debtBalanceOf(d, u)
             maxDebt   == percentMul(userDebt, LIQUIDATION_CLOSE_FACTOR_PERCENT)
             covered   == IF debtToCover > maxDebt THEN maxDebt ELSE debtToCover
             available == calculateAvailableCollateralToLiquidate(c, d, covered, has)
             seized    == available[1]
             actual    == IF available[2] < covered THEN available[2] ELSE covered
             scaled    == rayDiv(actual, accruedReserve(d, TRUE).variableBorrowIndex)
             share     == shareOf(c, seized)
             mint      == treasuryMint(d, TRUE)
             minted    == [aBalance EXCEPT ![d][Treasury] = @ + mint]
             taken     == [minted EXCEPT ![c][u] = @ - seized]
  <1>1. /\ aBalance \in [Reserves -> [Accounts -> Nat]] /\ cash \in [Reserves -> Nat]
        /\ debtBalance \in [Debts -> [Users -> Nat]]
        /\ c \in Reserves /\ d \in Reserves /\ c # d /\ Users \subseteq Accounts
        /\ Collaterals \subseteq Reserves /\ Collaterals \cap Debts = {}
        /\ Treasury \in Accounts
    BY StorageAssumption DEF IInv, TypeOK, Reserves, Accounts
  <1>2. has \in Nat /\ userDebt \in Nat BY <1>1, ViewsNat
  <1>3. covered \in Nat /\ covered <= maxDebt /\ 2 * maxDebt <= userDebt + 1 /\ maxDebt \in Nat
    <2>1. LIQUIDATION_CLOSE_FACTOR_PERCENT \in Nat
      BY MathAssumption DEF LIQUIDATION_CLOSE_FACTOR_PERCENT
    <2> HIDE DEF userDebt
    <2>2. maxDebt \in Nat BY <1>2, <2>1, MathNat
    <2>3. 2 * maxDebt <= userDebt + 1 BY <1>2, HalfOfDebt
    <2> HIDE DEF maxDebt
    <2> QED BY <2>2, <2>3
  <1>4. /\ calculateUserAccountData(u, aBalance).healthFactor < WAD
        /\ Config[c].liquidationThreshold # 0
        /\ scaled <= debtBalance[d][u]
        /\ debtBalance' = [debtBalance EXCEPT ![d][u] = @ - scaled]
        /\ \/ /\ aBalance' = [taken EXCEPT ![c][liquidator] = @ + seized]
              /\ cash' = [cash EXCEPT ![d] = @ + actual]
           \/ /\ aBalance' = taken
              /\ cash' = [cash EXCEPT ![d] = @ + actual, ![c] = @ - share]
    BY DEF liquidationCall
  <1>5. seized \in Nat /\ seized <= has /\ actual \in Nat
    <2> HIDE DEF covered, has
    <2> QED BY <1>2, <1>3, SeizureLemma
  <1>6. /\ actual <= covered
        /\ InETH(c, seized) <= percentMul(InETH(d, actual + 2) + 1, Config[c].liquidationBonus)
    <2> HIDE DEF covered, has
    <2> QED BY <1>2, <1>3, <1>4, SeizureIsFair
  <1>7. scaled \in Nat /\ mint \in Nat
    <2> HIDE DEF actual
    <2> QED BY <1>5, ScaledNat, AccrualLemma
  <1>8. 2 * actual <= userDebt + 1
    <2> HIDE DEF actual, covered, maxDebt, userDebt
    <2> QED BY <1>2, <1>3, <1>5, <1>6
  <1> HIDE DEF seized, actual, scaled, mint, share, covered, available, maxDebt, userDebt
  <1>9. cash'[d] - cash[d] = actual
    <2>1. cash'[d] = cash[d] + actual BY <1>1, <1>4
    <2>2. cash[d] \in Nat BY <1>1
    <2> QED BY <1>5, <2>1, <2>2
  <1>10. ASSUME NEW v \in Users, NEW f \in Debts, debtBalance'[f][v] < debtBalance[f][v]
         PROVE  v = u /\ f = d
    <2>1. CASE f # d \/ v # u
      <3>1. debtBalance'[f][v] = debtBalance[f][v] BY <1>1, <1>4, <2>1
      <3>2. debtBalance[f][v] \in Nat BY <1>1
      <3> QED BY <1>10, <3>1, <3>2
    <2> QED BY <2>1
  <1>11. ASSUME NEW e \in Collaterals, aBalance[e][u] - aBalance'[e][u] > 0
         PROVE  e = c /\ aBalance[e][u] - aBalance'[e][u] = seized
    <2>1. /\ minted \in [Reserves -> [Accounts -> Nat]]
          /\ minted[e] = aBalance[e] /\ minted[c] = aBalance[c]
      BY <1>1, <1>7
    <2> HIDE DEF minted
    <2>2. /\ taken[e] = IF e = c THEN [aBalance[c] EXCEPT ![u] = has - seized] ELSE aBalance[e]
          /\ DOMAIN taken = Reserves
      BY <1>1, <2>1
    <2> HIDE DEF taken
    <2>3. CASE e # c
      <3>1. aBalance'[e] = aBalance[e] BY <1>1, <1>4, <2>2, <2>3
      <3>2. aBalance[e][u] \in Nat BY <1>1
      <3> QED BY <1>11, <3>1, <3>2
    <2>4. CASE e = c
      <3>1. aBalance[c] \in [Accounts -> Nat] /\ u \in Accounts /\ liquidator \in Accounts BY <1>1
      <3>2. taken[c] = [aBalance[c] EXCEPT ![u] = has - seized] BY <2>2, <2>4
      <3>3. \/ aBalance'[c] = [taken[c] EXCEPT ![liquidator] = @ + seized]
            \/ aBalance'[c] = taken[c]
        BY <1>1, <1>4, <2>2
      <3>4. taken[c][u] = has - seized BY <3>1, <3>2
      <3>5. \/ aBalance'[c][u] = has - seized
            \/ aBalance'[c][u] = (has - seized) + seized
        <4>1. DOMAIN taken[c] = Accounts BY <3>1, <3>2
        <4> HIDE DEF has
        <4>2. CASE aBalance'[c] = taken[c] BY <3>4, <4>2
        <4>3. CASE aBalance'[c] = [taken[c] EXCEPT ![liquidator] = @ + seized]
          <5>1. CASE liquidator = u BY <3>1, <3>4, <4>1, <4>3, <5>1
          <5>2. CASE liquidator # u BY <3>1, <3>4, <4>1, <4>3, <5>2
          <5> QED BY <5>1, <5>2
        <4> QED BY <3>3, <4>2, <4>3
      <3>6. aBalance[e][u] = has /\ aBalance'[e][u] = aBalance'[c][u] BY <2>4
      <3> HIDE DEF has
      <3> QED BY ONLY <1>2, <1>5, <1>11, <2>4, <3>5, <3>6
    <2> QED BY <2>3, <2>4
  <1>12. SUFFICES ASSUME NEW v \in Users, NEW e \in Collaterals, NEW f \in Debts,
                         aBalance[e][v] - aBalance'[e][v] > 0,
                         debtBalance'[f][v] < debtBalance[f][v]
                  PROVE  /\ calculateUserAccountData(v, aBalance).healthFactor < WAD
                         /\ 2 * (cash'[f] - cash[f]) <= debtBalanceOf(f, v) + 1
                         /\ InETH(e, aBalance[e][v] - aBalance'[e][v])
                              <= percentMul(InETH(f, (cash'[f] - cash[f]) + 2) + 1,
                                            Config[e].liquidationBonus)
    BY DEF FairStep
  <1>13. v = u /\ f = d BY <1>10, <1>12
  <1>14. e = c /\ aBalance[e][u] - aBalance'[e][u] = seized BY <1>11, <1>12, <1>13
  <1> QED BY <1>4, <1>6, <1>8, <1>9, <1>13, <1>14 DEF userDebt

\* A step that reduces no debt, or touches no collateral, takes nothing against a debt.
LEMMA NothingSeized ==
  ASSUME IInv, IInv',
         \/ \A v \in Users, e \in Debts : debtBalance'[e][v] >= debtBalance[e][v]
         \/ \A v \in Users, e \in Collaterals : aBalance'[e][v] = aBalance[e][v]
  PROVE  FairStep
  <1> SUFFICES ASSUME NEW v \in Users, NEW e \in Collaterals, NEW f \in Debts,
                      aBalance[e][v] - aBalance'[e][v] > 0,
                      debtBalance'[f][v] < debtBalance[f][v]
               PROVE  FALSE
    BY DEF FairStep
  <1>1. /\ aBalance[e][v] \in Nat /\ debtBalance[f][v] \in Nat /\ debtBalance'[f][v] \in Nat
    BY DEF IInv, TypeOK, Reserves, Accounts
  <1> QED BY <1>1

\* A borrower's debt only grows, and everybody else's stays.
LEMMA BorrowSeizesNothing ==
  ASSUME IInv, IInv', NEW caller \in Users, NEW u \in Users, NEW d \in Debts,
         NEW amount \in Nat, borrow(caller, u, d, amount)
  PROVE  FairStep
  <1> DEFINE scaled == rayDiv(amount, accruedReserve(d, FALSE).variableBorrowIndex)
  <1>1. scaled \in Nat BY ScaledNat
  <1>2. debtBalance' = [debtBalance EXCEPT ![d][u] = @ + scaled] BY DEF borrow
  <1>3. debtBalance \in [Debts -> [Users -> Nat]] BY DEF IInv, TypeOK
  <1> HIDE DEF scaled
  <1>4. ASSUME NEW v \in Users, NEW e \in Debts
        PROVE  debtBalance'[e][v] >= debtBalance[e][v]
    <2>1. debtBalance[e][v] \in Nat BY <1>3
    <2>2. CASE e = d /\ v = u BY <1>1, <1>2, <1>3, <2>1, <2>2
    <2>3. CASE e # d \/ v # u
      <3>1. debtBalance'[e][v] = debtBalance[e][v] BY <1>2, <1>3, <2>3
      <3> QED BY <2>1, <3>1
    <2> QED BY <2>2, <2>3
  <1> QED BY <1>4, NothingSeized

\* A repayment takes no collateral: the only aTokens it touches are the
\* treasury's in the reserve repaid.
LEMMA RepaySeizesNothing ==
  ASSUME IInv, IInv', NEW caller \in Users, NEW u \in Users, NEW d \in Debts,
         NEW amount \in Nat, repay(caller, u, d, amount)
  PROVE  FairStep
  <1>1. aBalance' = [aBalance EXCEPT ![d][Treasury] = @ + treasuryMint(d, FALSE)]
    BY DEF repay, treasuryAccrues
  <1>2. /\ aBalance \in [Reserves -> [Accounts -> Nat]] /\ d \in Reserves
        /\ Collaterals \subseteq Reserves /\ Collaterals \cap Debts = {}
    BY StorageAssumption DEF IInv, TypeOK, Reserves
  <1>3. ASSUME NEW v \in Users, NEW e \in Collaterals
        PROVE  aBalance'[e][v] = aBalance[e][v]
    <2>1. e # d /\ e \in Reserves BY <1>2
    <2> QED BY <1>1, <1>2, <2>1
  <1> QED BY <1>3, NothingSeized

\* Every step of the pool.
LEMMA NextFair == IInv /\ IInv' /\ [Next]_vars => FairStep
  <1> SUFFICES ASSUME IInv, IInv', [Next]_vars PROVE FairStep OBVIOUS
  <1>1. /\ \A o \in AmountOf : Amounts[o] \subseteq Nat
        /\ MAX_UINT \in Nat
    BY PoolAssumption, StorageAssumption
  <1>2. /\ Amounts.borrow \subseteq Nat
        /\ Amounts.repay \cup {MAX_UINT} \subseteq Nat
        /\ Amounts.cover \cup {MAX_UINT} \subseteq Nat
    BY <1>1 DEF AmountOf
  <1>3. CASE \E caller, u \in Users, d \in Debts, amount \in Amounts.borrow :
               borrow(caller, u, d, amount)
    BY <1>2, <1>3, BorrowSeizesNothing
  <1>4. CASE \E caller, u \in Users, d \in Debts, amount \in Amounts.repay \cup {MAX_UINT} :
               repay(caller, u, d, amount)
    BY <1>2, <1>4, RepaySeizesNothing
  <1>5. CASE \E liquidator, u \in Users, c \in Collaterals, d \in Debts,
                debtToCover \in Amounts.cover \cup {MAX_UINT}, receiveAToken \in BOOLEAN :
                liquidationCall(liquidator, u, c, d, debtToCover, receiveAToken)
    BY <1>2, <1>5, LiquidationFair
  <1>6. CASE \/ \E u \in Users, d \in Debts, amount \in Amounts.deposit : deposit(u, d, amount)
             \/ \E u \in Users, d \in Debts, amount \in Amounts.withdraw \cup {MAX_UINT} :
                   withdraw(u, d, amount)
             \/ \E d \in Debts, amount \in Amounts.yield : depositYield(d, amount)
             \/ \E u \in Users, c \in Collaterals, share \in Amounts.collateral :
                   depositCollateral(u, c, share)
             \/ \E u \in Users, c \in Collaterals,
                   amount \in Amounts.withdrawCollateral \cup {MAX_UINT} :
                   withdrawCollateral(u, c, amount)
             \/ \E from, to \in Users, r \in Reserves, amount \in Amounts.transfer :
                   transfer(from, to, r, amount)
             \/ \E c \in Collaterals : getYield(c)
             \/ \E u, v \in Users, d \in Debts, amount \in Amounts.delegate :
                   approveDelegation(u, v, d, amount)
             \/ \E u \in Users, r \in Reserves, use \in BOOLEAN :
                   setUserUseReserveAsCollateral(u, r, use)
             \/ \E val \in BOOLEAN : setPause(val)
             \/ \E r \in Reserves, val \in BOOLEAN : setReserveFreeze(r, val)
             \/ AdvanceTime
             \/ \E r \in Reserves : \E p \in Prices[r] : OracleUpdate(r, p)
             \/ \E c \in Collaterals : \E p \in PPS[c] : VaultEarns(c, p)
             \/ UNCHANGED vars
    <2>1. ASSUME NEW u, NEW v, NEW r, NEW x
          PROVE  /\ deposit(u, r, x) => debtBalance' = debtBalance
                 /\ withdraw(u, r, x) => debtBalance' = debtBalance
                 /\ depositYield(r, x) => debtBalance' = debtBalance
                 /\ depositCollateral(u, r, x) => debtBalance' = debtBalance
                 /\ withdrawCollateral(u, r, x) => debtBalance' = debtBalance
                 /\ transfer(u, v, r, x) => debtBalance' = debtBalance
      BY DEF deposit, withdraw, depositYield, depositCollateral, withdrawCollateral, transfer
    <2>2. ASSUME NEW u, NEW v, NEW r, NEW x
          PROVE  /\ getYield(r) => debtBalance' = debtBalance
                 /\ approveDelegation(u, v, r, x) => debtBalance' = debtBalance
                 /\ setUserUseReserveAsCollateral(u, r, x) => debtBalance' = debtBalance
                 /\ setPause(x) => debtBalance' = debtBalance
                 /\ setReserveFreeze(r, x) => debtBalance' = debtBalance
                 /\ AdvanceTime => debtBalance' = debtBalance
                 /\ OracleUpdate(r, x) => debtBalance' = debtBalance
                 /\ VaultEarns(r, x) => debtBalance' = debtBalance
                 /\ UNCHANGED vars => debtBalance' = debtBalance
      BY DEF getYield, approveDelegation, setUserUseReserveAsCollateral, setPause,
             setReserveFreeze, AdvanceTime, OracleUpdate, VaultEarns, vars
    <2>3. debtBalance' = debtBalance BY <1>6, <2>1, <2>2
    <2>4. \A v \in Users, e \in Debts : debtBalance'[e][v] >= debtBalance[e][v]
      BY <2>3 DEF IInv, TypeOK
    <2> QED BY <2>4, NothingSeized
  <1> QED BY <1>3, <1>4, <1>5, <1>6 DEF Next

\* Nobody who is healthy is ever liquidated, nobody loses more than half of a
\* debt at once, and what is seized is worth what is paid and the bonus, up to
\* the remainders of the divisions: for every price, bonus and scale, whichever
\* of the debt, the cover and the collateral limits the call.
THEOREM LiquidationsAreFair == Spec => LiquidationIsFair
  <1>1. IInv /\ IInv' /\ [Next]_vars => [FairStep]_vars BY NextFair
  <1> QED BY <1>1, InductiveInvariant, PTL DEF Spec, LiquidationIsFair
=============================================================================

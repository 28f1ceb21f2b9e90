------------------------- MODULE VariableYieldProofs -------------------------
(***************************************************************************)
(* What the distributor credits in advance is covered by what the vault    *)
(* can send, what it promises is funded, and nobody's claim shrinks but by *)
(* payment.                                                                *)
(***************************************************************************)
EXTENDS VariableYieldDistribution, WadRayMathProofs

\* The inductive form: with the types it needs.
LastSeenBounded ==
  /\ earned \in Nat /\ vaultBalance \in Nat
  /\ incentiveRatio \in Nat
  /\ assetData.lastAvailableRewards \in Nat
  /\ HarvestCoversCredits

\* What updateAssetState leaves as last seen is the amount it was given.
LEMMA LastSeen ==
  ASSUME NEW a, NEW total, NEW last, NEW increased
  PROVE  updateAssetState(a, total, last, increased).lastAvailableRewards = last
  BY DEF updateAssetState

\* Nothing earned, nothing to send; more rewards never lower the incentive.
LEMMA IncentiveAmount ==
  ASSUME incentiveRatio \in Nat, NEW e \in Nat, NEW f \in Nat, e <= f
  PROVE  /\ incentiveOf(0) = 0
         /\ incentiveOf(e) \in Nat /\ incentiveOf(f) \in Nat
         /\ incentiveOf(e) <= incentiveOf(f)
  <1> DEFINE h == PERCENTAGE_FACTOR \div 2
             ratio == incentiveRatio
  <1>1. h \in Nat /\ h < PERCENTAGE_FACTOR BY MathAssumption
  <1>2. percentMul(0, ratio) = h \div PERCENTAGE_FACTOR BY <1>1 DEF percentMul, MulHalfUp
  <1> HIDE DEF h
  <1>3. h \div PERCENTAGE_FACTOR = 0 BY <1>1, MathAssumption
  <1>4. percentMul(e, ratio) \in Nat /\ percentMul(f, ratio) \in Nat BY MathNat
  <1>5. percentMul(e, ratio) <= percentMul(f, ratio) BY RayMulMono
  <1> QED BY <1>2, <1>3, <1>4, <1>5 DEF incentiveOf

\* What is reported is part of what a harvest would send.
LEMMA ReportedIsPart ==
  ASSUME earned \in Nat, vaultBalance \in Nat, incentiveRatio \in Nat
  PROVE  /\ getCurrentTotalIncentiveAmount \in Nat
         /\ incentiveOf(vaultBalance + earned) \in Nat
         /\ getCurrentTotalIncentiveAmount <= incentiveOf(vaultBalance + earned)
  <1> DEFINE f == vaultBalance + earned
  <1>1. f \in Nat /\ earned <= f OBVIOUS
  <1> HIDE DEF f
  <1>2. incentiveOf(earned) \in Nat /\ incentiveOf(f) \in Nat /\ incentiveOf(earned) <= incentiveOf(f)
    BY <1>1, IncentiveAmount
  <1> QED BY <1>2 DEF f, getCurrentTotalIncentiveAmount

\* The steps of the token and of its holders bring the last seen amount up to date.
LEMMA TokenStep ==
  ASSUME LastSeenBounded, UNCHANGED <<earned, vaultBalance, incentiveRatio>>,
         \/ assetData' = assetUpdated(assetData)
         \/ assetData' = assetUpdated(assetUpdated(assetData))
         \/ assetData' = assetData
  PROVE  LastSeenBounded'
  <1>1. /\ getCurrentTotalIncentiveAmount \in Nat
        /\ getCurrentTotalIncentiveAmount <= incentiveOf(vaultBalance + earned)
    BY ReportedIsPart DEF LastSeenBounded
  <1>2. incentiveOf(vaultBalance + earned)' = incentiveOf(vaultBalance + earned)
    BY DEF incentiveOf
  <1>3. \/ assetData'.lastAvailableRewards = getCurrentTotalIncentiveAmount
        \/ assetData' = assetData
    BY LastSeen DEF assetUpdated
  <1> QED BY <1>1, <1>2, <1>3 DEF LastSeenBounded, HarvestCoversCredits

\* A harvest leaves nothing pending, nothing held and nothing seen.
LEMMA HarvestStep ==
  ASSUME LastSeenBounded, transferYield
  PROVE  earned' = 0 /\ vaultBalance' = 0 /\ assetData'.lastAvailableRewards = 0
  <1> DEFINE total == vaultBalance + earned
  <1>1. earned' = 0 /\ vaultBalance' = 0 BY DEF transferYield
  <1>2. CASE incentiveRatio # 0 /\ total # 0 BY <1>1, <1>2, LastSeen DEF transferYield
  <1>3. CASE ~(incentiveRatio # 0 /\ total # 0)
    <2>1. assetData' = assetData BY <1>3 DEF transferYield
    <2>2. incentiveOf(0) = 0 BY IncentiveAmount DEF LastSeenBounded
    <2>3. incentiveOf(total) = 0
      <3>1. CASE total = 0 BY <2>2, <3>1
      <3>2. CASE incentiveRatio = 0 BY <3>2 DEF incentiveOf
      <3> QED BY <1>3, <3>1, <3>2
    <2> QED BY <1>1, <2>1, <2>3 DEF LastSeenBounded, HarvestCoversCredits
  <1> QED BY <1>2, <1>3

\* Two amounts are one amount.
LEMMA Together == ASSUME NEW x \in Nat, NEW y \in Nat PROVE x + y \in Nat
  OBVIOUS

\* Once nothing is seen, any ratio will do.
LEMMA ClearedIsBounded ==
  ASSUME earned' \in Nat, vaultBalance' \in Nat, incentiveRatio' \in Nat,
         assetData'.lastAvailableRewards = 0
  PROVE  LastSeenBounded'
  <1>1. percentMul(vaultBalance' + earned', incentiveRatio') \in Nat
    <2> DEFINE f == vaultBalance' + earned'
    <2>1. f \in Nat BY ONLY earned' \in Nat, vaultBalance' \in Nat, Together
    <2> HIDE DEF f
    <2>2. percentMul(f, incentiveRatio') \in Nat BY <2>1, MathNat
    <2> QED BY <2>2 DEF f
  <1>2. incentiveOf(vaultBalance + earned)' \in Nat BY <1>1 DEF incentiveOf
  <1> QED BY <1>2 DEF LastSeenBounded, HarvestCoversCredits

\* Rewards earned, or paid to the vault, only add to what a harvest would send.
LEMMA RewardsStep ==
  ASSUME LastSeenBounded, earned' \in Nat, vaultBalance' \in Nat,
         vaultBalance + earned <= vaultBalance' + earned',
         UNCHANGED <<incentiveRatio, assetData>>
  PROVE  LastSeenBounded'
  <1> DEFINE e == vaultBalance + earned
             f == vaultBalance' + earned'
  <1>1. e \in Nat /\ f \in Nat /\ e <= f
    <2>1. earned \in Nat /\ vaultBalance \in Nat BY DEF LastSeenBounded
    <2>2. e \in Nat BY <2>1
    <2>3. f \in Nat BY ONLY earned' \in Nat, vaultBalance' \in Nat, Together
    <2> QED BY <2>2, <2>3
  <1> HIDE DEF e, f
  <1>2. incentiveOf(e) \in Nat /\ incentiveOf(f) \in Nat /\ incentiveOf(e) <= incentiveOf(f)
    BY <1>1, IncentiveAmount DEF LastSeenBounded
  <1>3. incentiveOf(vaultBalance + earned)' = incentiveOf(f)
    BY DEF incentiveOf, f
  <1>4. assetData.lastAvailableRewards <= incentiveOf(e)
    BY DEF LastSeenBounded, HarvestCoversCredits, e
  <1> QED BY <1>2, <1>3, <1>4 DEF LastSeenBounded, HarvestCoversCredits

\* Every step keeps the bound.
LEMMA LastSeenStep == LastSeenBounded /\ [Next]_vars => LastSeenBounded'
  <1> SUFFICES ASSUME LastSeenBounded, [Next]_vars PROVE LastSeenBounded' OBVIOUS
  <1>1. CASE registerAsset BY <1>1, TokenStep DEF registerAsset
  <1>2. ASSUME NEW u \in Users, NEW amount \in Stakes, mint(u, amount) \/ burn(u, amount)
        PROVE  LastSeenBounded'
    BY <1>2, TokenStep DEF mint, burn, handleAction
  <1>3. ASSUME NEW from \in Users, NEW to \in Users, NEW amount \in Stakes,
               transfer(from, to, amount)
        PROVE  LastSeenBounded'
    BY <1>3, TokenStep DEF transfer
  <1>4. ASSUME NEW u \in Users, NEW amount \in Claims, claimRewards(u, amount)
        PROVE  LastSeenBounded'
    BY <1>4, TokenStep DEF claimRewards
  <1>5. CASE processYield
    <2>1. /\ earned' = 0 /\ vaultBalance' = 0 /\ assetData'.lastAvailableRewards = 0
          /\ incentiveRatio' = incentiveRatio
      BY <1>5, HarvestStep DEF processYield
    <2>2. earned' \in Nat /\ vaultBalance' \in Nat /\ incentiveRatio' \in Nat
      BY <2>1 DEF LastSeenBounded
    <2> QED BY <2>1, <2>2, ClearedIsBounded
  <1>6. ASSUME NEW ratio \in Ratios, setIncentiveRatio(ratio)
        PROVE  LastSeenBounded'
    <2>1. incentiveRatio' \in Nat BY <1>6, DistributionAssumption DEF setIncentiveRatio
    <2>2. earned' \in Nat /\ vaultBalance' \in Nat /\ assetData'.lastAvailableRewards = 0
      <3>1. CASE incentiveRatio # 0 BY <1>6, <3>1, HarvestStep DEF setIncentiveRatio
      <3>2. CASE incentiveRatio = 0
        BY <1>6, <3>2 
           DEF setIncentiveRatio, LastSeenBounded, HarvestCoversCredits, incentiveOf
      <3> QED BY <3>1, <3>2
    <2> QED BY <2>1, <2>2, ClearedIsBounded
  <1>7. ASSUME NEW fee \in Fees, setTreasuryInfo(fee)
        PROVE  LastSeenBounded'
    BY <1>7, TokenStep DEF setTreasuryInfo
  <1>8. ASSUME NEW amount \in Earnings, RewardsEarned(amount)
        PROVE  LastSeenBounded'
    <2>1. amount \in Nat BY DistributionAssumption
    <2>2. /\ earned' = earned + amount /\ UNCHANGED <<vaultBalance, incentiveRatio, assetData>>
      BY <1>8 DEF RewardsEarned
    <2>3. earned \in Nat /\ vaultBalance \in Nat BY DEF LastSeenBounded
    <2>4. /\ earned' \in Nat /\ vaultBalance' \in Nat
          /\ vaultBalance + earned <= vaultBalance' + earned'
      BY <2>1, <2>2, <2>3
    <2> QED BY <2>2, <2>4, RewardsStep
  <1>9. CASE getReward
    <2>1. /\ vaultBalance' = vaultBalance + earned /\ earned' = 0
          /\ UNCHANGED <<incentiveRatio, assetData>>
      BY <1>9 DEF getReward
    <2>2. /\ earned' \in Nat /\ vaultBalance' \in Nat
          /\ vaultBalance + earned <= vaultBalance' + earned'
      BY <2>1 DEF LastSeenBounded
    <2> QED BY <2>1, <2>2, RewardsStep
  <1>10. CASE UNCHANGED vars BY <1>10, TokenStep DEF vars
  <1> QED BY <1>1, <1>2, <1>3, <1>4, <1>5, <1>6, <1>7, <1>8, <1>9, <1>10 DEF Next

\* The rewards credited in advance never exceed what a harvest would send, whatever
\* the vault earns, whoever has the pool pay it, and however ratio and fee are
\* changed: receivedRewards never refuses the vault, so that a token at a standstill
\* is free again after a harvest.
THEOREM HarvestIsNeverRefused == Spec => []HarvestCoversCredits
  <1>1. Init => LastSeenBounded
    <2> SUFFICES ASSUME Init PROVE LastSeenBounded OBVIOUS
    <2>1. /\ earned = 0 /\ vaultBalance = 0 /\ incentiveRatio = 0
          /\ assetData.lastAvailableRewards = 0
      BY DEF Init
    <2> QED BY <2>1 DEF LastSeenBounded, HarvestCoversCredits, incentiveOf
  <1>2. LastSeenBounded => HarvestCoversCredits BY DEF LastSeenBounded
  <1> QED BY <1>1, <1>2, LastSeenStep, PTL DEF Spec
-----------------------------------------------------------------------------
(***************************************************************************)
(* The rewards the views promise are there.  The balance a view sums up is *)
(* not inductive: what is credited while it is pending (expectedRewards,   *)
(* and the index beyond a user's own) becomes claimable at once when the   *)
(* rewards arrive.  The invariant therefore also bounds all that was ever  *)
(* credited, in units of 1 / RAY, by what is held plus what is pending.    *)
(***************************************************************************)

\* All that a user x with the stake s is credited by the asset a.
Due(a, x, s) == RAY * (x.claimableRewards + x.expectedRewards) + s * (a.index - x.index)

\* The part of it that has arrived: the view, for any asset, user and stake.
Arrived(a, x, s) ==
  x.claimableRewards
    + (IF a.claimableIndex >= x.index
       THEN x.expectedRewards + getRewards(s, a.claimableIndex, x.index) ELSE 0)

IndexesOrdered ==
  /\ assetData.claimableIndex <= assetData.index
  /\ \A u \in Users : userData[u].index <= assetData.index

AllDue == [u \in Users |-> Due(assetData, userData[u], staked[u])]
AllViews == [u \in Users |-> getUnclaimedRewards(u)]

CreditsCovered ==
  SumFunctionOnSet(AllDue, Users) <= RAY * (rewardBalance + assetData.lastAvailableRewards)

ViewsCovered == SumFunctionOnSet(AllViews, Users) <= rewardBalance

FInv == TypeOK /\ LastSeenBounded /\ IndexesOrdered /\ CreditsCovered /\ ViewsCovered

\* Rewards of an index difference: whole units, never more than the exact share.
LEMMA RewardsRoundDown ==
  ASSUME NEW s \in Nat, NEW i \in Nat, NEW j \in Nat, i <= j
  PROVE  /\ getRewards(s, j, i) \in Nat
         /\ RAY * getRewards(s, j, i) <= s * (j - i)
         /\ s * (j - i) \in Nat
         /\ getRewards(s, i, i) = 0
  <1>1. j - i \in Nat OBVIOUS
  <1>2. s * (j - i) \in Nat BY <1>1, ProductNat
  <1> DEFINE p == s * (j - i)
  <1> HIDE DEF p
  <1>3. p \div RAY \in Nat /\ RAY * (p \div RAY) <= p
    <2>1. p \in Nat BY <1>2 DEF p
    <2> QED BY <2>1, MathAssumption, DivBounds
  <1>4. getRewards(s, j, i) = p \div RAY BY DEF getRewards, p
  <1>5. getRewards(s, i, i) = 0
    <2>1. s * (i - i) = 0 OBVIOUS
    <2>2. 0 \div RAY = 0 BY MathAssumption
    <2> QED BY <2>1, <2>2 DEF getRewards
  <1> QED BY <1>2, <1>3, <1>4, <1>5 DEF p

\* A larger index is never worth less.
LEMMA RewardsMono ==
  ASSUME NEW s \in Nat, NEW i \in Nat, NEW j \in Nat, NEW k \in Nat, i <= j, j <= k
  PROVE  getRewards(s, j, i) <= getRewards(s, k, i)
  <1> DEFINE p == s * (j - i)
             q == s * (k - i)
             w == p \div RAY
  <1>1. j - i \in Nat /\ k - i \in Nat /\ j - i <= k - i OBVIOUS
  <1>2. p \in Nat /\ q \in Nat /\ p <= q BY <1>1, ProductNat, ProductMono
  <1>3. getRewards(s, j, i) = w /\ getRewards(s, k, i) = q \div RAY BY DEF getRewards
  <1> HIDE DEF p, q
  <1>4. w \in Nat /\ RAY * w <= p /\ RAY \in Nat \ {0} BY <1>2, MathAssumption, DivBounds
  <1> HIDE DEF w
  <1>5. w * RAY \in Nat /\ w * RAY = RAY * w BY <1>4, ProductNat
  <1>6. w * RAY <= q BY <1>2, <1>4, <1>5
  <1>7. w <= q \div RAY BY ONLY <1>2, <1>4, <1>6, DivLower
  <1> QED BY <1>3, <1>7

\* The asset after an update: the index rises by at most what the increase pays for.
LEMMA AssetStep ==
  ASSUME NEW a \in AssetData, a.claimableIndex <= a.index, NEW total \in Nat, NEW last \in Nat,
         NEW inc \in Nat, NEW n, n = updateAssetState(a, total, last, inc)
  PROVE  /\ n \in AssetData /\ a.index <= n.index /\ n.lastAvailableRewards = last
         /\ a.claimableIndex <= n.claimableIndex /\ n.claimableIndex <= n.index
         /\ total * (n.index - a.index) <= RAY * inc
  <1> DEFINE i == getAssetIndex(a.index, inc, total)
             rise == (inc * RAY) \div total
  <1>1. a.index \in Nat /\ a.lastAvailableRewards \in Nat /\ a.claimableIndex \in Nat
    BY DEF AssetData
  <1>2. /\ i \in Nat /\ a.index <= i /\ total * (i - a.index) <= RAY * inc
        /\ inc = 0 => i = a.index
    <2>1. CASE inc = 0 \/ total = 0
      <3>1. i = a.index BY <2>1 DEF getAssetIndex
      <3>2. i - a.index = 0 /\ total * 0 = 0 BY <1>1, <3>1
      <3>3. RAY * inc \in Nat BY ProductNat, MathAssumption
      <3> QED BY <1>1, <3>1, <3>2, <3>3
    <2>2. CASE inc # 0 /\ total # 0
      <3>1. i = a.index + rise BY <2>2 DEF getAssetIndex
      <3>2. inc * RAY \in Nat /\ inc * RAY = RAY * inc BY ProductNat, MathAssumption
      <3>3. rise \in Nat /\ total * rise <= inc * RAY BY <2>2, <3>2, DivBounds
      <3> HIDE DEF rise
      <3>4. i - a.index = rise BY <1>1, <3>1, <3>3
      <3> QED BY <1>1, <2>2, <3>1, <3>2, <3>3, <3>4
    <2> QED BY <2>1, <2>2
  <1>3. \/ n = a /\ i = a.index /\ last = a.lastAvailableRewards
        \/ /\ ~(i = a.index /\ last = a.lastAvailableRewards)
           /\ n = [index |-> i, lastAvailableRewards |-> last,
                   claimableIndex |-> IF last = 0 THEN i ELSE a.claimableIndex]
    BY DEF updateAssetState
  <1> HIDE DEF i
  <1>4. n.index = i /\ n.lastAvailableRewards = last BY <1>3
  <1>5. n \in AssetData BY <1>1, <1>2, <1>3 DEF AssetData
  <1>6. /\ a.claimableIndex <= n.claimableIndex /\ n.claimableIndex <= n.index
    BY <1>1, <1>2, <1>3
  <1> QED BY <1>2, <1>4, <1>5, <1>6

\* Crediting what is pending makes nothing claimable.
LEMMA NothingArrives ==
  ASSUME NEW a \in AssetData, NEW total, NEW last, NEW inc \in Nat,
         last = a.lastAvailableRewards + inc
  PROVE  updateAssetState(a, total, last, inc).claimableIndex = a.claimableIndex
  <1>1. a.lastAvailableRewards \in Nat BY DEF AssetData
  <1>2. CASE last = 0
    <2>1. inc = 0 /\ last = a.lastAvailableRewards BY <1>1, <1>2
    <2> QED BY <2>1 DEF updateAssetState, getAssetIndex
  <1>3. CASE last # 0 BY <1>3 DEF updateAssetState
  <1> QED BY <1>2, <1>3

\* When the rewards are there, all that was credited is claimable.
LEMMA EverythingArrives ==
  ASSUME NEW a, NEW total, NEW inc, NEW n, n = updateAssetState(a, total, 0, inc)
  PROVE  n = a \/ n.claimableIndex = n.index
  BY DEF updateAssetState

\* A user brought up to date is not credited more than before, keeps the view,
\* and owns what the view says, whatever the stake becomes.
LEMMA UserStep ==
  ASSUME NEW a \in AssetData, NEW n \in AssetData, n.claimableIndex = a.claimableIndex,
         a.claimableIndex <= a.index, a.index <= n.index,
         NEW x \in UserData, x.index <= a.index, NEW s \in Nat, NEW t \in Nat,
         NEW y, y = updateUserAsset(a, x, s, n.index)
  PROVE  /\ y \in UserData /\ y.index = n.index
         /\ Due(n, y, t) <= Due(n, x, s)
         /\ Arrived(n, y, t) = Arrived(a, x, s)
         /\ y.claimableRewards <= Arrived(n, y, t)
  <1> DEFINE new == n.index
             arr == a.claimableIndex
             i == x.index
             c == x.claimableRewards
             e == x.expectedRewards
  <1>1. /\ new \in Nat /\ arr \in Nat /\ i \in Nat /\ c \in Nat /\ e \in Nat
        /\ arr <= new /\ i <= new /\ a.index \in Nat
    BY DEF AssetData, UserData
  <1>2. t * (new - new) = 0 /\ s * (new - new) = 0 /\ RAY \in Nat BY <1>1, MathAssumption
  <1>3. CASE i = new
    <2>1. y = x BY <1>3 DEF updateUserAsset
    <2>2. Due(n, x, t) = RAY * (c + e) + t * (new - new) /\ Due(n, x, s) = RAY * (c + e) + s * (new - new)
      BY <1>3 DEF Due
    <2>3. Due(n, x, t) <= Due(n, x, s)
      <3>1. RAY * (c + e) \in Nat BY <1>1, <1>2, ProductNat
      <3> QED BY <1>2, <2>2, <3>1
    <2>4. arr >= i => getRewards(t, arr, i) = 0 /\ getRewards(s, arr, i) = 0
      <3>1. arr >= i => arr = i BY <1>1, <1>3
      <3> QED BY <1>1, <3>1, RewardsRoundDown
    <2>5. Arrived(n, x, t) = (c + (IF arr >= i THEN e + getRewards(t, arr, i) ELSE 0))
          /\ Arrived(a, x, s) = (c + (IF arr >= i THEN e + getRewards(s, arr, i) ELSE 0))
      BY DEF Arrived
    <2> QED BY <1>1, <1>3, <2>1, <2>3, <2>4, <2>5
  <1>4. CASE i # new /\ arr >= i
    <2> DEFINE g == getRewards(s, arr, i)
               h == getRewards(s, new, arr)
    <2>1. /\ g \in Nat /\ RAY * g <= s * (arr - i) /\ h \in Nat /\ RAY * h <= s * (new - arr)
          /\ arr = new => h = 0
      <3> HIDE DEF new, arr, i
      <3>1. g \in Nat /\ RAY * g <= s * (arr - i) BY ONLY <1>1, <1>4, s \in Nat, RewardsRoundDown
      <3>2. h \in Nat /\ RAY * h <= s * (new - arr) BY ONLY <1>1, s \in Nat, RewardsRoundDown
      <3>3. getRewards(s, new, new) = 0
        BY ONLY <1>1, s \in Nat, RewardsRoundDown
      <3> QED BY <3>1, <3>2, <3>3
    <2>2. y = [index |-> new, claimableRewards |-> c + (e + g), expectedRewards |-> 0 + h]
      BY <1>4 DEF updateUserAsset
    <2>3. Arrived(a, x, s) = c + (e + g) BY <1>4 DEF Arrived
    <2> HIDE DEF g, h
    <2>4. y.index = new /\ y.claimableRewards = c + (e + g) /\ y.expectedRewards = h
      BY <2>1, <2>2
    <2>5. y \in UserData BY <1>1, <2>1, <2>2 DEF UserData
    <2>6. Due(n, y, t) <= Due(n, x, s)
      <3>1. Due(n, y, t) = RAY * (c + (e + g) + h) + t * (new - new)
        BY <2>4 DEF Due
      <3>2. Due(n, x, s) = RAY * (c + e) + s * (new - i) BY DEF Due
      <3>3. s * (new - i) = s * (arr - i) + s * (new - arr) BY <1>1
      <3>4. RAY * (c + (e + g) + h) = RAY * (c + e) + RAY * g + RAY * h BY <1>1, <1>2, <2>1
      <3>5. /\ s * (arr - i) \in Int /\ s * (new - arr) \in Int /\ RAY * (c + e) \in Int
            /\ RAY * g \in Int /\ RAY * h \in Int
        BY <1>1, <1>2, <2>1
      <3> QED BY ONLY <1>2, <2>1, <3>1, <3>2, <3>3, <3>4, <3>5
    <2>7. Arrived(n, y, t) = c + (e + g)
      <3>1. CASE arr >= new
        <4>1. arr = new /\ h = 0 /\ getRewards(t, arr, new) = 0
          <5> HIDE DEF new, arr
          <5>1. arr = new BY <1>1, <3>1
          <5>2. getRewards(t, new, new) = 0 BY ONLY <1>1, t \in Nat, RewardsRoundDown
          <5> QED BY <2>1, <5>1, <5>2
        <4> QED BY <1>1, <2>1, <2>4, <3>1, <4>1 DEF Arrived
      <3>2. CASE ~(arr >= new) BY <1>1, <2>1, <2>4, <3>2 DEF Arrived
      <3> QED BY <3>1, <3>2
    <2> QED BY <1>1, <2>1, <2>3, <2>4, <2>5, <2>6, <2>7
  <1>5. CASE i # new /\ ~(arr >= i)
    <2> DEFINE h == getRewards(s, new, i)
    <2>1. h \in Nat /\ RAY * h <= s * (new - i) /\ ~(arr >= new)
      <3> HIDE DEF new, arr, i
      <3>1. h \in Nat /\ RAY * h <= s * (new - i) BY ONLY <1>1, s \in Nat, RewardsRoundDown
      <3> QED BY <1>1, <1>5, <3>1
    <2>2. y = [index |-> new, claimableRewards |-> c + 0, expectedRewards |-> e + h]
      BY <1>5 DEF updateUserAsset
    <2>3. Arrived(a, x, s) = c + 0 BY <1>5 DEF Arrived
    <2> HIDE DEF h
    <2>4. y.index = new /\ y.claimableRewards = c /\ y.expectedRewards = e + h
      BY <1>1, <2>1, <2>2
    <2>5. y \in UserData BY <1>1, <2>1, <2>2 DEF UserData
    <2>6. Due(n, y, t) <= Due(n, x, s)
      <3>1. Due(n, y, t) = RAY * (c + (e + h)) + t * (new - new) BY <2>4 DEF Due
      <3>2. Due(n, x, s) = RAY * (c + e) + s * (new - i) BY DEF Due
      <3>3. RAY * (c + (e + h)) = RAY * (c + e) + RAY * h BY <1>1, <1>2, <2>1
      <3>4. s * (new - i) \in Int /\ RAY * (c + e) \in Int /\ RAY * h \in Int
        BY <1>1, <1>2, <2>1
      <3> QED BY ONLY <1>2, <2>1, <3>1, <3>2, <3>3, <3>4
    <2>7. Arrived(n, y, t) = c + 0 BY <2>1, <2>4 DEF Arrived
    <2> QED BY <1>1, <2>3, <2>4, <2>5, <2>6, <2>7
  <1> QED BY <1>3, <1>4, <1>5

\* Credits and views are whole numbers.
LEMMA DueNat ==
  ASSUME NEW a \in AssetData, NEW x \in UserData, NEW s \in Nat, x.index <= a.index
  PROVE  Due(a, x, s) \in Nat /\ Arrived(a, x, s) \in Nat
  <1>1. /\ x.index \in Nat /\ x.claimableRewards \in Nat /\ x.expectedRewards \in Nat
        /\ a.index \in Nat /\ a.claimableIndex \in Nat /\ RAY \in Nat
    BY MathAssumption DEF AssetData, UserData
  <1>2. RAY * (x.claimableRewards + x.expectedRewards) \in Nat BY <1>1, ProductNat
  <1>3. s * (a.index - x.index) \in Nat BY <1>1, ProductNat
  <1>4. a.claimableIndex >= x.index => getRewards(s, a.claimableIndex, x.index) \in Nat
    BY <1>1, RewardsRoundDown
  <1> QED BY <1>1, <1>2, <1>3, <1>4 DEF Due, Arrived

\* What users see is the part that has arrived, and both add up.
LEMMA ViewsAreArrived ==
  ASSUME FInv
  PROVE  /\ \A u \in Users : /\ getUnclaimedRewards(u) = Arrived(assetData, userData[u], staked[u])
                             /\ AllViews[u] = Arrived(assetData, userData[u], staked[u])
                             /\ AllViews[u] \in Nat
                             /\ AllDue[u] = Due(assetData, userData[u], staked[u])
                             /\ AllDue[u] \in Nat
                             /\ staked[u] \in Nat
         /\ IsFiniteSet(Users)
         /\ SumFunctionOnSet(AllDue, Users) \in Nat
         /\ SumFunctionOnSet(AllViews, Users) \in Nat
         /\ totalStaked \in Nat
  <1>1. IsFiniteSet(Users) BY DistributionAssumption
  <1>2. ASSUME NEW u \in Users
        PROVE  /\ Due(assetData, userData[u], staked[u]) \in Nat
               /\ Arrived(assetData, userData[u], staked[u]) \in Nat
               /\ staked[u] \in Nat
    <2>1. /\ assetData \in AssetData /\ userData[u] \in UserData /\ staked[u] \in Nat
          /\ userData[u].index <= assetData.index
      BY DEF FInv, TypeOK, IndexesOrdered
    <2> QED BY <2>1, DueNat
  <1>3. \A u \in Users : getUnclaimedRewards(u) = Arrived(assetData, userData[u], staked[u])
    BY DEF getUnclaimedRewards, Arrived
  <1>4. \A u \in Users : /\ AllViews[u] = Arrived(assetData, userData[u], staked[u])
                         /\ AllDue[u] = Due(assetData, userData[u], staked[u])
    BY <1>3 DEF AllViews, AllDue
  <1>5. SumFunctionOnSet(AllDue, Users) \in Nat BY <1>1, <1>2, <1>4, SumNat
  <1>6. SumFunctionOnSet(AllViews, Users) \in Nat BY <1>1, <1>2, <1>4, SumNat
  <1>7. totalStaked \in Nat BY <1>1, <1>2, SumNat DEF totalStaked
  <1> QED BY <1>1, <1>2, <1>3, <1>4, <1>5, <1>6, <1>7

\* The credits against the asset an update leaves: paid for by the increase.
LEMMA UpdatePaysForCredits ==
  ASSUME FInv, NEW last \in Nat, NEW inc \in Nat, NEW n,
         n = updateAssetState(assetData, totalStaked, last, inc)
  PROVE  /\ \A u \in Users : Due(n, userData[u], staked[u]) \in Nat
         /\ SumFunctionOnSet([u \in Users |-> Due(n, userData[u], staked[u])], Users)
              <= RAY * (rewardBalance + (assetData.lastAvailableRewards + inc))
  <1> DEFINE mid == [u \in Users |-> Due(n, userData[u], staked[u])]
             rise == n.index - assetData.index
             gain == [u \in Users |-> rise * staked[u]]
  <1>1. /\ n \in AssetData /\ assetData \in AssetData /\ assetData.index <= n.index
        /\ totalStaked * rise <= RAY * inc
    BY ViewsAreArrived, AssetStep DEF FInv, TypeOK, IndexesOrdered
  <1>2. n.index \in Nat /\ assetData.index \in Nat /\ rise \in Nat BY <1>1 DEF AssetData
  <1>3. ASSUME NEW u \in Users PROVE mid[u] = AllDue[u] + gain[u] /\ gain[u] \in Nat /\ mid[u] \in Nat
    <2> DEFINE d == RAY * (userData[u].claimableRewards + userData[u].expectedRewards)
               i == userData[u].index
               s == staked[u]
    <2>1. userData[u] \in UserData /\ s \in Nat /\ i <= assetData.index
      BY DEF FInv, TypeOK, IndexesOrdered
    <2>2. i \in Nat /\ d \in Nat
      <3>1. /\ userData[u].claimableRewards \in Nat /\ userData[u].expectedRewards \in Nat
            /\ i \in Nat /\ RAY \in Nat
        BY <2>1, MathAssumption DEF UserData
      <3> QED BY <3>1, ProductNat
    <2>3. mid[u] = d + s * (n.index - i) /\ AllDue[u] = d + s * (assetData.index - i)
      BY DEF Due, AllDue
    <2>4. gain[u] = rise * s OBVIOUS
    <2> HIDE DEF d, i, s
    <2>5. s * (n.index - i) = s * (assetData.index - i) + rise * s BY <1>2, <2>1, <2>2
    <2>6. s * (assetData.index - i) \in Nat /\ rise * s \in Nat BY <1>2, <2>1, <2>2, ProductNat
    <2> HIDE DEF rise, mid, gain
    <2> QED BY ONLY <2>2, <2>3, <2>4, <2>5, <2>6
  <1>4. \A u \in Users : AllDue[u] \in Int /\ gain[u] = rise * staked[u] /\ staked[u] \in Int
    BY ViewsAreArrived
  <1>5. IsFiniteSet(Users) BY DistributionAssumption
  <1> HIDE DEF mid, gain
  <1>6. SumFunctionOnSet(gain, Users) = rise * totalStaked
    <2> HIDE DEF rise
    <2> QED BY <1>2, <1>4, <1>5, SumScale DEF totalStaked
  <1>7. SumFunctionOnSet(mid, Users)
          = SumFunctionOnSet(AllDue, Users) + SumFunctionOnSet(gain, Users)
    <2> DEFINE f == AllDue
    <2>1. \A u \in Users : f[u] \in Int /\ gain[u] \in Int /\ mid[u] = f[u] + gain[u] BY <1>3, <1>4
    <2> HIDE DEF f
    <2>2. SumFunctionOnSet(mid, Users) = SumFunctionOnSet(f, Users) + SumFunctionOnSet(gain, Users)
      BY ONLY <1>5, <2>1, SumAdd
    <2> QED BY <2>2 DEF f
  <1>8. SumFunctionOnSet(mid, Users)
          <= RAY * (rewardBalance + (assetData.lastAvailableRewards + inc))
    <2> DEFINE b == rewardBalance
               l == assetData.lastAvailableRewards
               D == SumFunctionOnSet(AllDue, Users)
    <2>1. b \in Nat /\ l \in Nat /\ RAY \in Nat /\ D \in Nat /\ totalStaked \in Nat
      BY <1>1, MathAssumption, ViewsAreArrived DEF FInv, TypeOK, AssetData
    <2>2. D <= RAY * (b + l) BY DEF FInv, CreditsCovered
    <2> HIDE DEF b, l, D, rise
    <2>3. RAY * (b + (l + inc)) = RAY * (b + l) + RAY * inc BY <2>1
    <2>4. RAY * (b + l) \in Nat /\ RAY * inc \in Nat /\ rise * totalStaked = totalStaked * rise
          /\ rise * totalStaked \in Nat
      BY <1>2, <2>1, ProductNat
    <2>5. SumFunctionOnSet(mid, Users) = D + rise * totalStaked BY <1>6, <1>7 DEF D
    <2>6. SumFunctionOnSet(mid, Users) <= RAY * (b + (l + inc))
      BY ONLY <1>1, <2>1, <2>2, <2>3, <2>4, <2>5
    <2> QED BY <2>6 DEF b, l
  <1> QED BY <1>3, <1>8 DEF mid

\* What every step keeps, besides the bound on what was last seen.
Kept == TypeOK' /\ IndexesOrdered' /\ CreditsCovered' /\ ViewsCovered' /\ ClaimsStep

\* Crediting what is pending: nothing arrives by it.
LEMMA PendingCredited ==
  ASSUME FInv, RewardsAvailable
  PROVE  /\ getCurrentTotalIncentiveAmount \in Nat
         /\ getCurrentTotalIncentiveAmount - assetData.lastAvailableRewards \in Nat
         /\ assetUpdated(assetData) \in AssetData
         /\ assetUpdated(assetData).lastAvailableRewards = getCurrentTotalIncentiveAmount
         /\ assetUpdated(assetData).claimableIndex = assetData.claimableIndex
         /\ assetUpdated(assetData).claimableIndex <= assetUpdated(assetData).index
         /\ assetData.index <= assetUpdated(assetData).index
  <1> DEFINE cur == getCurrentTotalIncentiveAmount
             inc == cur - assetData.lastAvailableRewards
             n == assetUpdated(assetData)
  <1>1. cur \in Nat BY ReportedIsPart DEF FInv, TypeOK
  <1>2. /\ assetData \in AssetData /\ assetData.claimableIndex <= assetData.index
        /\ assetData.lastAvailableRewards \in Nat /\ assetData.lastAvailableRewards <= cur
    BY DEF FInv, TypeOK, IndexesOrdered, LastSeenBounded, RewardsAvailable
  <1> HIDE DEF cur
  <1>3. inc \in Nat /\ cur = assetData.lastAvailableRewards + inc BY <1>1, <1>2
  <1>4. n = updateAssetState(assetData, totalStaked, cur, inc) BY DEF assetUpdated, cur
  <1>5. totalStaked \in Nat BY ViewsAreArrived
  <1> HIDE DEF inc, n
  <1>6. n \in AssetData /\ assetData.index <= n.index /\ n.claimableIndex <= n.index
    BY <1>1, <1>2, <1>3, <1>4, <1>5, AssetStep
  <1>7. n.lastAvailableRewards = cur /\ n.claimableIndex = assetData.claimableIndex
    BY <1>2, <1>3, <1>4, LastSeen, NothingArrives
  <1>8. cur - assetData.lastAvailableRewards \in Nat BY <1>3 DEF inc
  <1> QED BY <1>1, <1>6, <1>7, <1>8 DEF cur, n

\* A user nobody touches while the asset is brought up to date.
LEMMA OtherUsers ==
  ASSUME FInv, RewardsAvailable, NEW n, n = assetUpdated(assetData), NEW v \in Users
  PROVE  /\ userData[v].index <= n.index
         /\ Due(n, userData[v], staked[v]) \in Nat
         /\ Arrived(n, userData[v], staked[v]) = Arrived(assetData, userData[v], staked[v])
  <1>1. /\ assetData \in AssetData /\ userData[v] \in UserData /\ staked[v] \in Nat
        /\ userData[v].index <= assetData.index
    BY DEF FInv, TypeOK, IndexesOrdered
  <1>2. /\ n \in AssetData /\ n.claimableIndex = assetData.claimableIndex
        /\ assetData.index <= n.index
    BY PendingCredited
  <1>3. userData[v].index <= n.index BY <1>1, <1>2 DEF AssetData, UserData
  <1>4. Arrived(n, userData[v], staked[v]) = Arrived(assetData, userData[v], staked[v])
    BY <1>2 DEF Arrived
  <1>5. Arrived(assetData, userData[v], staked[v]) \in Nat /\ Due(n, userData[v], staked[v]) \in Nat
    BY <1>1, <1>2, <1>3, DueNat
  <1> QED BY <1>3, <1>4, <1>5

\* A step of the token or of a holder: the asset is brought up to date, every
\* user keeps the view and is credited no more; u is paid claimed out of both.
LEMMA HolderStep ==
  ASSUME FInv, RewardsAvailable, NEW n, n = assetUpdated(assetData), assetData' = n,
         NEW u, NEW claimed \in Nat, u \in Users \/ claimed = 0, claimed <= rewardBalance,
         rewardBalance' = rewardBalance - claimed,
         TypeOK',
         \A v \in Users : /\ userData'[v].index <= n.index
                          /\ Due(n, userData'[v], staked'[v])
                               <= Due(n, userData[v], staked[v])
                                    - (IF v = u THEN RAY * claimed ELSE 0)
                          /\ Arrived(n, userData'[v], staked'[v])
                               = Arrived(assetData, userData[v], staked[v])
                                   - (IF v = u THEN claimed ELSE 0),
         \A v \in Users : paid'[v] = paid[v] + (IF v = u THEN claimed ELSE 0)
  PROVE  Kept
  <1> DEFINE last == getCurrentTotalIncentiveAmount
             inc == last - assetData.lastAvailableRewards
             mid == [v \in Users |-> Due(n, userData[v], staked[v])]
             low == [v \in Users |-> mid[v] - (IF v = u THEN RAY * claimed ELSE 0)]
             due == [v \in Users |-> Due(n, userData'[v], staked'[v])]
             old == AllViews
             new == [v \in Users |-> Arrived(n, userData'[v], staked'[v])]
  <1>1. /\ IsFiniteSet(Users) /\ RAY \in Nat /\ RAY * claimed \in Nat
        /\ rewardBalance \in Nat /\ assetData.lastAvailableRewards \in Nat
        /\ last \in Nat /\ inc \in Nat /\ n \in AssetData /\ n.lastAvailableRewards = last
        /\ n.claimableIndex <= n.index
    <2>1. RAY \in Nat /\ RAY * claimed \in Nat BY MathAssumption, ProductNat
    <2>2. rewardBalance \in Nat /\ assetData.lastAvailableRewards \in Nat
      BY DEF FInv, TypeOK, AssetData
    <2>3. IsFiniteSet(Users) BY DistributionAssumption
    <2> QED BY <2>1, <2>2, <2>3, PendingCredited
  <1>2. userData' \in [Users -> UserData] /\ staked' \in [Users -> Nat] BY DEF TypeOK
  <1>3. IndexesOrdered' BY <1>1 DEF IndexesOrdered
  <1>4. /\ \A v \in Users : mid[v] \in Nat
        /\ SumFunctionOnSet(mid, Users)
             <= RAY * (rewardBalance + (assetData.lastAvailableRewards + inc))
    <2>1. n = updateAssetState(assetData, totalStaked, last, inc) BY DEF assetUpdated
    <2> HIDE DEF last, inc
    <2> QED BY ONLY FInv, <1>1, <2>1, UpdatePaysForCredits
  <1>5. \A v \in Users : /\ due[v] \in Nat /\ new[v] \in Nat
                         /\ due[v] <= low[v]
                         /\ old[v] \in Nat
                         /\ new[v] = old[v] - (IF v = u THEN claimed ELSE 0)
    <2>1. \A v \in Users : due[v] \in Nat /\ new[v] \in Nat BY <1>1, <1>2, DueNat
    <2>2. \A v \in Users : due[v] <= low[v] OBVIOUS
    <2>3. \A v \in Users : old[v] = Arrived(assetData, userData[v], staked[v]) /\ old[v] \in Nat
      BY ViewsAreArrived
    <2> QED BY <2>1, <2>2, <2>3
  <1>6. AllDue' = due BY DEF AllDue
  <1>7. AllViews' = new /\ \A v \in Users : getUnclaimedRewards(v)' = new[v]
    BY DEF AllViews, getUnclaimedRewards, Arrived
  <1> HIDE DEF last, inc, mid, due, old, new
  <1>8. SumFunctionOnSet(low, Users) = SumFunctionOnSet(mid, Users) - RAY * claimed
    <2>1. \A v \in Users : mid[v] \in Int BY <1>4
    <2>2. SumFunctionOnSet(mid, Users) \in Int BY <1>1, <2>1, SumRemove
    <2>3. CASE u \in Users
      <3>1. /\ low[u] = mid[u] - RAY * claimed /\ low[u] \in Int /\ mid[u] \in Int
            /\ \A v \in Users \ {u} : low[v] = mid[v]
        BY <1>1, <2>1, <2>3
      <3> HIDE DEF low
      <3>2. SumFunctionOnSet(low, Users) = SumFunctionOnSet(mid, Users) - mid[u] + low[u]
        BY ONLY <1>1, <2>1, <2>3, <3>1, SumChange
      <3> QED BY ONLY <1>1, <2>2, <3>1, <3>2
    <2>4. CASE u \notin Users
      <3>1. RAY * claimed = 0 BY <1>1, <2>4
      <3>2. \A v \in Users : mid[v] \in Int /\ low[v] = mid[v] BY <1>1, <2>1, <2>4
      <3> HIDE DEF low
      <3>3. SumFunctionOnSet(low, Users) = SumFunctionOnSet(mid, Users)
        BY ONLY <1>1, <3>2, SumEqual
      <3> QED BY ONLY <2>2, <3>1, <3>3
    <2> QED BY <2>3, <2>4
  <1>9. SumFunctionOnSet(new, Users) = SumFunctionOnSet(old, Users) - claimed
    <2>1. \A v \in Users : old[v] \in Int BY <1>5
    <2>2. SumFunctionOnSet(old, Users) \in Int BY <1>1, <2>1, SumRemove
    <2>3. CASE u \in Users
      <3>1. /\ new[u] = old[u] - claimed /\ new[u] \in Int /\ old[u] \in Int
            /\ \A v \in Users \ {u} : new[v] = old[v]
        BY <1>5, <2>3
      <3>2. SumFunctionOnSet(new, Users) = SumFunctionOnSet(old, Users) - old[u] + new[u]
        <4>1. new[u] \in Int /\ \A v \in Users \ {u} : new[v] = old[v] BY <3>1
        <4> QED BY ONLY <1>1, <2>1, <2>3, <4>1, SumChange
      <3> QED BY ONLY <2>2, <3>1, <3>2, claimed \in Nat
    <2>4. CASE u \notin Users
      <3>1. \A v \in Users : old[v] \in Int /\ new[v] = old[v] BY <1>5, <2>4
      <3>2. SumFunctionOnSet(new, Users) = SumFunctionOnSet(old, Users)
        BY ONLY <1>1, <3>1, SumEqual
      <3> QED BY <2>2, <2>4, <3>2
    <2> QED BY <2>3, <2>4
  <1>10. CreditsCovered'
    <2> DEFINE D == SumFunctionOnSet(due, Users)
               M == SumFunctionOnSet(mid, Users)
    <2>1. D <= SumFunctionOnSet(low, Users)
      <3>1. \A v \in Users : due[v] \in Int /\ low[v] \in Int /\ due[v] <= low[v]
        BY <1>1, <1>4, <1>5
      <3> HIDE DEF low
      <3> QED BY ONLY <1>1, <3>1, SumMonotonic
    <2>2. D \in Nat /\ M \in Nat BY <1>1, <1>4, <1>5, SumNat
    <2>3. inc = last - assetData.lastAvailableRewards BY DEF inc
    <2>4. assetData.lastAvailableRewards + inc = last BY <1>1, <2>3
    <2>5. M <= RAY * (rewardBalance + last) BY <1>4, <2>4
    <2>6. D <= M - RAY * claimed BY <1>8, <2>1
    <2>7. RAY * (rewardBalance + last) - RAY * claimed = RAY * (rewardBalance - claimed + last)
      BY <1>1
    <2>8. RAY * (rewardBalance + last) \in Nat BY <1>1, ProductNat
    <2>9. D <= RAY * (rewardBalance - claimed + last)
      <3> HIDE DEF D, M
      <3> QED BY ONLY <1>1, <2>2, <2>5, <2>6, <2>7, <2>8
    <2> QED BY <1>1, <1>6, <2>9 DEF CreditsCovered
  <1>11. ViewsCovered'
    <2>1. SumFunctionOnSet(old, Users) <= rewardBalance BY DEF FInv, ViewsCovered, old
    <2>2. SumFunctionOnSet(old, Users) \in Nat BY <1>1, <1>5, SumNat
    <2>3. SumFunctionOnSet(new, Users) <= rewardBalance - claimed BY <1>1, <1>9, <2>1, <2>2
    <2> QED BY <1>7, <2>3 DEF ViewsCovered
  <1>12. ClaimsStep
    <2>1. ASSUME NEW v \in Users
          PROVE  getUnclaimedRewards(v)' + paid'[v] >= getUnclaimedRewards(v) + paid[v]
      <3>1. getUnclaimedRewards(v) = old[v]
        BY ViewsAreArrived DEF old
      <3>2. paid[v] \in Nat BY DEF FInv, TypeOK
      <3>3. paid'[v] = paid[v] + (IF v = u THEN claimed ELSE 0) OBVIOUS
      <3> QED BY ONLY <1>5, <1>7, <3>1, <3>2, <3>3, v \in Users, claimed \in Nat
    <2> QED BY <2>1 DEF ClaimsStep
  <1> QED BY <1>3, <1>10, <1>11, <1>12 DEF Kept

\* The same for a step that pays nobody.
LEMMA UnpaidStep ==
  ASSUME FInv, RewardsAvailable, NEW n, n = assetUpdated(assetData), assetData' = n,
         TypeOK', UNCHANGED <<rewardBalance, paid>>,
         \A v \in Users : /\ userData'[v].index <= n.index
                          /\ Due(n, userData'[v], staked'[v]) <= Due(n, userData[v], staked[v])
                          /\ Arrived(n, userData'[v], staked'[v])
                               = Arrived(assetData, userData[v], staked[v])
  PROVE  Kept
  <1> DEFINE nobody == Users
             claimed == 0
  <1>1. RAY * claimed = 0 /\ claimed \in Nat BY MathAssumption
  <1>2. /\ claimed <= rewardBalance /\ rewardBalance' = rewardBalance - claimed
    BY DEF FInv, TypeOK
  <1>3. \A v \in Users : paid'[v] = paid[v] + (IF v = nobody THEN claimed ELSE 0)
    BY DEF FInv, TypeOK
  <1>4. ASSUME NEW v \in Users
        PROVE  /\ userData'[v].index <= n.index
               /\ Due(n, userData'[v], staked'[v])
                    <= Due(n, userData[v], staked[v]) - (IF v = nobody THEN RAY * claimed ELSE 0)
               /\ Arrived(n, userData'[v], staked'[v])
                    = Arrived(assetData, userData[v], staked[v]) - (IF v = nobody THEN claimed ELSE 0)
    <2>1. Arrived(assetData, userData[v], staked[v]) \in Nat BY ViewsAreArrived
    <2>2. Due(n, userData[v], staked[v]) \in Nat BY OtherUsers
    <2> QED BY <1>1, <2>1, <2>2
  <1>5. /\ n = assetUpdated(assetData) /\ assetData' = n
        /\ TypeOK'
        /\ nobody \in Users \/ claimed = 0
    OBVIOUS
  <1> HIDE DEF nobody, claimed
  <1> QED BY ONLY FInv, RewardsAvailable, <1>1, <1>2, <1>3, <1>4, <1>5, HolderStep

\* A user of the state, brought up to date or left alone.
LEMMA OneUser ==
  ASSUME FInv, RewardsAvailable, NEW n, n = assetUpdated(assetData), NEW u \in Users, NEW t \in Nat,
         NEW y, y = updateUserAsset(assetData, userData[u], staked[u], n.index)
  PROVE  /\ y \in UserData /\ y.index = n.index
         /\ Due(n, y, t) <= Due(n, userData[u], staked[u])
         /\ Arrived(n, y, t) = Arrived(assetData, userData[u], staked[u])
         /\ y.claimableRewards <= Arrived(n, y, t)
  <1>1. /\ assetData \in AssetData /\ userData[u] \in UserData /\ staked[u] \in Nat
        /\ userData[u].index <= assetData.index /\ assetData.claimableIndex <= assetData.index
    BY DEF FInv, TypeOK, IndexesOrdered
  <1>2. /\ n \in AssetData /\ n.claimableIndex = assetData.claimableIndex
        /\ assetData.index <= n.index
    BY PendingCredited
  <1> QED BY ONLY <1>1, <1>2, t \in Nat, y = updateUserAsset(assetData, userData[u], staked[u], n.index),
              UserStep

\* Registering the asset anew keeps the invariant and every claim.
LEMMA RegisterKept ==
  ASSUME FInv, registerAsset
  PROVE  Kept
  <1>0. RewardsAvailable BY DEF registerAsset
  <1>1. /\ assetData' = assetUpdated(assetData)
        /\ UNCHANGED <<userData, staked, earned, vaultBalance, incentiveRatio, vaultFee,
                       rewardBalance, paid>>
    BY DEF registerAsset
  <1>2. TypeOK'
    <2>1. assetData' \in AssetData BY <1>0, <1>1, PendingCredited
    <2> QED BY <1>1, <2>1 DEF FInv, TypeOK, registerAsset
  <1>3. ASSUME NEW v \in Users
        PROVE  /\ userData'[v].index <= assetData'.index
               /\ Due(assetData', userData'[v], staked'[v]) <= Due(assetData', userData[v], staked[v])
               /\ Arrived(assetData', userData'[v], staked'[v])
                    = Arrived(assetData, userData[v], staked[v])
    BY <1>1, <1>0, OtherUsers
  <1> QED BY ONLY FInv, <1>0, <1>1, <1>2, <1>3, UnpaidStep

\* mint and burn.
LEMMA StakeKept ==
  ASSUME FInv, NEW u \in Users, handleAction(u), NEW b \in Nat,
         staked' = [staked EXCEPT ![u] = b],
         UNCHANGED <<registered, earned, vaultBalance, incentiveRatio, vaultFee, rewardBalance, paid>>
  PROVE  Kept
  <1> DEFINE n == assetUpdated(assetData)
             y == updateUserAsset(assetData, userData[u], staked[u], n.index)
  <1>0. RewardsAvailable BY DEF handleAction
  <1>1. userData \in [Users -> UserData] /\ staked \in [Users -> Nat] BY DEF FInv, TypeOK
  <1>2. assetData' = n /\ userData' = [userData EXCEPT ![u] = y] BY DEF handleAction
  <1>3. n = assetUpdated(assetData) /\ y = updateUserAsset(assetData, userData[u], staked[u], n.index)
    OBVIOUS
  <1>4. n.index \in Nat /\ n \in AssetData BY <1>0, PendingCredited DEF AssetData
  <1> HIDE DEF n, y
  <1>5. /\ y \in UserData /\ y.index = n.index
        /\ Due(n, y, b) <= Due(n, userData[u], staked[u])
        /\ Arrived(n, y, b) = Arrived(assetData, userData[u], staked[u])
    BY ONLY FInv, <1>0, <1>3, u \in Users, b \in Nat, OneUser
  <1>6. /\ userData' \in [Users -> UserData] /\ staked' \in [Users -> Nat]
        /\ userData'[u] = y /\ staked'[u] = b
        /\ \A v \in Users \ {u} : userData'[v] = userData[v] /\ staked'[v] = staked[v]
    BY <1>1, <1>2, <1>5
  <1>7. ASSUME NEW v \in Users
        PROVE  /\ userData'[v].index <= n.index
               /\ Due(n, userData'[v], staked'[v]) <= Due(n, userData[v], staked[v])
               /\ Arrived(n, userData'[v], staked'[v]) = Arrived(assetData, userData[v], staked[v])
    <2>1. CASE v = u BY <1>4, <1>5, <1>6, <2>1
    <2>2. CASE v # u
      <3>1. userData'[v] = userData[v] /\ staked'[v] = staked[v] BY <1>6, <2>2
      <3> QED BY <1>3, <3>1, <1>0, OtherUsers
    <2> QED BY <2>1, <2>2
  <1>8. TypeOK' /\ UNCHANGED <<rewardBalance, paid>> BY <1>2, <1>4, <1>6 DEF FInv, TypeOK
  <1> QED BY ONLY FInv, <1>0, <1>2, <1>3, <1>7, <1>8, UnpaidStep

\* The second notification of a transfer finds nothing new.
LEMMA SecondUpdate ==
  ASSUME FInv, RewardsAvailable, NEW n, n = assetUpdated(assetData)
  PROVE  assetUpdated(n) = n
  <1>1. n.lastAvailableRewards = getCurrentTotalIncentiveAmount /\ n.lastAvailableRewards \in Nat
    BY PendingCredited
  <1>2. getCurrentTotalIncentiveAmount - n.lastAvailableRewards = 0 BY <1>1
  <1> QED BY <1>1, <1>2 DEF assetUpdated, updateAssetState, getAssetIndex

\* A transfer brings both ends up to date and keeps the invariant and every claim.
LEMMA TransferKept ==
  ASSUME FInv, NEW from \in Users, NEW to \in Users, NEW amount \in Nat,
         transfer(from, to, amount)
  PROVE  Kept
  <1> DEFINE n == assetUpdated(assetData)
             y(v) == updateUserAsset(assetData, userData[v], staked[v], n.index)
             m == [userData EXCEPT ![from] = y(from)]
             b == updateUserAsset(n, m[to], staked[to], assetUpdated(n).index)
  <1>0. RewardsAvailable BY DEF transfer
  <1>1. userData \in [Users -> UserData] /\ staked \in [Users -> Nat] BY DEF FInv, TypeOK
  <1>2. assetUpdated(n) = n BY <1>0, SecondUpdate
  <1>3. n.index \in Nat /\ n.claimableIndex = assetData.claimableIndex /\ n \in AssetData
    BY <1>0, PendingCredited DEF AssetData
  <1>4. /\ amount <= staked[from] /\ assetData' = assetUpdated(n)
        /\ userData' = [m EXCEPT ![to] = b]
        /\ staked' = [staked EXCEPT ![from] = @ - amount, ![to] = @ + amount]
        /\ UNCHANGED <<registered, earned, vaultBalance, incentiveRatio, vaultFee, rewardBalance, paid>>
    BY DEF transfer
  <1>5. n = assetUpdated(assetData) OBVIOUS
  <1> HIDE DEF n, b
  <1>6. ASSUME NEW v \in Users, NEW t \in Nat
        PROVE  /\ y(v) \in UserData /\ y(v).index = n.index
               /\ Due(n, y(v), t) <= Due(n, userData[v], staked[v])
               /\ Arrived(n, y(v), t) = Arrived(assetData, userData[v], staked[v])
    <2> DEFINE z == y(v)
    <2>1. z = updateUserAsset(assetData, userData[v], staked[v], n.index) OBVIOUS
    <2> HIDE DEF z
    <2>2. /\ z \in UserData /\ z.index = n.index
          /\ Due(n, z, t) <= Due(n, userData[v], staked[v])
          /\ Arrived(n, z, t) = Arrived(assetData, userData[v], staked[v])
      BY ONLY FInv, <1>0, <1>5, <2>1, v \in Users, t \in Nat, OneUser
    <2> QED BY <2>2 DEF z
  <1>7. \A x, s : updateUserAsset(n, x, s, n.index) = updateUserAsset(assetData, x, s, n.index)
    BY <1>3 DEF updateUserAsset
  <1>8. y(from).index = n.index BY <1>1, <1>6
  <1>9. userData'[from] = y(from) /\ userData'[to] = y(to)
    <2>1. /\ m[from] = y(from) /\ userData'[to] = b
          /\ from # to => m[to] = userData[to] /\ userData'[from] = y(from)
      <3> HIDE DEF y
      <3> QED BY <1>1, <1>4
    <2>2. b = updateUserAsset(n, m[to], staked[to], n.index) BY <1>2 DEF b
    <2>3. CASE from = to
      <3>1. b = updateUserAsset(n, y(from), staked[to], n.index) BY <2>1, <2>2, <2>3
      <3>2. updateUserAsset(n, y(from), staked[to], n.index) = y(from)
        BY <1>8 DEF updateUserAsset
      <3> QED BY <2>1, <2>3, <3>1, <3>2
    <2>4. CASE from # to BY <1>7, <2>1, <2>2, <2>4
    <2> QED BY <2>3, <2>4
  <1>10. /\ staked'[from] \in Nat /\ staked'[to] \in Nat
         /\ \A v \in Users \ {from, to} : userData'[v] = userData[v] /\ staked'[v] = staked[v]
         /\ DOMAIN userData' = Users /\ DOMAIN staked' = Users
         /\ userData' = [v \in Users |-> userData'[v]] /\ staked' = [v \in Users |-> staked'[v]]
    <2> HIDE DEF y
    <2>2. staked[from] \in Nat /\ staked[to] \in Nat BY <1>1
    <2>3. /\ DOMAIN userData' = Users /\ userData' = [v \in Users |-> userData'[v]]
          /\ \A v \in Users \ {from, to} : userData'[v] = userData[v]
      BY ONLY <1>1, <1>4
    <2>4. /\ DOMAIN staked' = Users /\ staked' = [v \in Users |-> staked'[v]]
          /\ \A v \in Users \ {from, to} : staked'[v] = staked[v]
      BY <1>1, <1>4
    <2>5. staked'[from] \in Nat /\ staked'[to] \in Nat
      <3>1. CASE from = to
        <4>1. staked'[to] = staked[to] - amount + amount BY <1>1, <1>4, <3>1
        <4> QED BY <2>2, <3>1, <4>1
      <3>2. CASE from # to
        <4>1. staked'[from] = staked[from] - amount /\ staked'[to] = staked[to] + amount
          BY <1>1, <1>4, <3>2
        <4>2. amount <= staked[from] BY <1>4
        <4> QED BY ONLY <2>2, <4>1, <4>2, amount \in Nat
      <3> QED BY <3>1, <3>2
    <2> QED BY <2>3, <2>4, <2>5
  <1>11. userData' \in [Users -> UserData] /\ staked' \in [Users -> Nat]
    <2>1. y(from) \in UserData /\ y(to) \in UserData BY <1>1, <1>6
    <2>2. \A v \in Users : userData'[v] \in UserData /\ staked'[v] \in Nat
      <3> HIDE DEF y
      <3> QED BY <1>1, <1>9, <1>10, <2>1
    <2> QED BY ONLY <1>10, <2>2
  <1>12. ASSUME NEW v \in Users
         PROVE  /\ userData'[v].index <= n.index
                /\ Due(n, userData'[v], staked'[v]) <= Due(n, userData[v], staked[v])
                /\ Arrived(n, userData'[v], staked'[v]) = Arrived(assetData, userData[v], staked[v])
    <2>1. CASE v \in {from, to}
      <3>1. userData'[v] = y(v) /\ staked'[v] \in Nat BY <1>9, <1>10, <2>1
      <3>2. /\ y(v).index = n.index
            /\ Due(n, y(v), staked'[v]) <= Due(n, userData[v], staked[v])
            /\ Arrived(n, y(v), staked'[v]) = Arrived(assetData, userData[v], staked[v])
        BY <1>6, <3>1
      <3> HIDE DEF y
      <3> QED BY <1>3, <3>1, <3>2
    <2>2. CASE v \notin {from, to}
      <3>1. userData'[v] = userData[v] /\ staked'[v] = staked[v] BY <1>10, <2>2
      <3> QED BY <1>5, <3>1, <1>0, OtherUsers
    <2> QED BY <2>1, <2>2
  <1>13. assetData' = n BY <1>2, <1>4
  <1>14. TypeOK' /\ UNCHANGED <<rewardBalance, paid>>
    <2> HIDE DEF y
    <2> QED BY <1>3, <1>4, <1>11, <1>13 DEF FInv, TypeOK
  <1> QED BY ONLY FInv, <1>0, <1>5, <1>12, <1>13, <1>14, UnpaidStep

\* A claim takes the same amount from the user, from the view and from the balance.
LEMMA ClaimKept ==
  ASSUME FInv, NEW u \in Users, NEW amount \in Nat, claimRewards(u, amount)
  PROVE  Kept
  <1> DEFINE n == assetUpdated(assetData)
             y == updateUserAsset(assetData, userData[u], staked[u], n.index)
             unclaimed == y.claimableRewards
             asked == IF amount > unclaimed THEN unclaimed ELSE amount
             claimed == IF rewardBalance >= asked THEN asked ELSE 0
             z == [y EXCEPT !.claimableRewards = unclaimed - claimed]
  <1>0. RewardsAvailable BY DEF claimRewards
  <1>1. /\ userData \in [Users -> UserData] /\ staked \in [Users -> Nat]
        /\ rewardBalance \in Nat /\ paid \in [Users -> Nat] /\ staked[u] \in Nat
    BY DEF FInv, TypeOK
  <1>2. /\ assetData' = n /\ userData' = [userData EXCEPT ![u] = z]
        /\ rewardBalance' = rewardBalance - claimed
        /\ paid' = [paid EXCEPT ![u] = @ + claimed]
        /\ UNCHANGED <<registered, staked, earned, vaultBalance, incentiveRatio, vaultFee>>
    BY DEF claimRewards
  <1>3. n = assetUpdated(assetData) /\ y = updateUserAsset(assetData, userData[u], staked[u], n.index)
    OBVIOUS
  <1>4. n.index \in Nat /\ n \in AssetData BY <1>0, PendingCredited DEF AssetData
  <1> HIDE DEF n, y
  <1>5. /\ y \in UserData /\ y.index = n.index
        /\ Due(n, y, staked[u]) <= Due(n, userData[u], staked[u])
        /\ Arrived(n, y, staked[u]) = Arrived(assetData, userData[u], staked[u])
    BY ONLY FInv, <1>0, <1>1, <1>3, u \in Users, OneUser
  <1>6. /\ unclaimed \in Nat /\ y.expectedRewards \in Nat
        /\ y = [index |-> y.index, expectedRewards |-> y.expectedRewards,
                claimableRewards |-> unclaimed]
    BY <1>5 DEF UserData
  <1>7. claimed \in Nat /\ claimed <= unclaimed /\ claimed <= rewardBalance
    BY <1>1, <1>6
  <1>8. /\ z.index = n.index /\ z.expectedRewards = y.expectedRewards
        /\ z.claimableRewards = unclaimed - claimed /\ z \in UserData
    <2> HIDE DEF claimed
    <2>1. unclaimed - claimed \in Nat BY <1>6, <1>7
    <2> QED BY <1>4, <1>5, <1>6, <2>1 DEF UserData
  <1> HIDE DEF claimed, z
  <1>9. /\ Due(n, z, staked[u]) <= Due(n, userData[u], staked[u]) - RAY * claimed
        /\ Arrived(n, z, staked[u]) = Arrived(assetData, userData[u], staked[u]) - claimed
    <2> DEFINE e == y.expectedRewards
               d == Due(n, userData[u], staked[u])
               g == getRewards(staked[u], n.claimableIndex, n.index)
               p == staked[u] * (n.index - n.index)
    <2>1. RAY \in Nat /\ p = 0 BY <1>1, <1>4, MathAssumption
    <2>2. Due(n, z, staked[u]) = RAY * (unclaimed - claimed + e) + p BY <1>8 DEF Due
    <2>3. Due(n, y, staked[u]) = RAY * (unclaimed + e) + p BY <1>5 DEF Due
    <2>4. RAY * (unclaimed - claimed + e) = RAY * (unclaimed + e) - RAY * claimed
      BY <1>6, <1>7, <2>1
    <2>5. d \in Nat BY <1>3, <1>0, OtherUsers
    <2>6. Due(n, z, staked[u]) <= d - RAY * claimed
      <3>1. RAY * (unclaimed + e) \in Nat /\ RAY * claimed \in Nat
        BY <1>6, <1>7, <2>1, ProductNat
      <3>2. RAY * (unclaimed + e) + p <= d BY <1>5, <2>3
      <3> HIDE DEF d, e, p
      <3> QED BY ONLY <2>1, <2>2, <2>4, <2>5, <3>1, <3>2
    <2>7. /\ Arrived(n, z, staked[u])
               = unclaimed - claimed + (IF n.claimableIndex >= n.index THEN e + g ELSE 0)
          /\ Arrived(n, y, staked[u])
               = unclaimed + (IF n.claimableIndex >= n.index THEN e + g ELSE 0)
      BY <1>5, <1>8 DEF Arrived
    <2>8. n.claimableIndex >= n.index => g \in Nat
      <3>1. n.claimableIndex \in Nat BY <1>4 DEF AssetData
      <3> QED BY <1>1, <1>4, <3>1, RewardsRoundDown
    <2>9. Arrived(n, z, staked[u]) = Arrived(n, y, staked[u]) - claimed
      <3> HIDE DEF g
      <3> QED BY <1>6, <1>7, <2>7, <2>8
    <2> QED BY <1>5, <2>6, <2>9
  <1>10. ASSUME NEW v \in Users
         PROVE  /\ userData'[v].index <= n.index
                /\ Due(n, userData'[v], staked'[v])
                     <= Due(n, userData[v], staked[v]) - (IF v = u THEN RAY * claimed ELSE 0)
                /\ Arrived(n, userData'[v], staked'[v])
                     = Arrived(assetData, userData[v], staked[v]) - (IF v = u THEN claimed ELSE 0)
    <2>1. CASE v = u BY <1>1, <1>2, <1>4, <1>8, <1>9, <2>1
    <2>2. CASE v # u
      <3>1. userData'[v] = userData[v] /\ staked'[v] = staked[v] BY <1>1, <1>2, <2>2
      <3>2. Arrived(assetData, userData[v], staked[v]) \in Nat BY ViewsAreArrived
      <3>3. /\ userData[v].index <= n.index /\ Due(n, userData[v], staked[v]) \in Nat
            /\ Arrived(n, userData[v], staked[v]) = Arrived(assetData, userData[v], staked[v])
        BY <1>3, <1>0, OtherUsers
      <3> QED BY <2>2, <3>1, <3>2, <3>3
    <2> QED BY <2>1, <2>2
  <1>11. TypeOK'
    <2>1. rewardBalance' \in Nat BY <1>1, <1>2, <1>7
    <2>2. paid' \in [Users -> Nat]
      <3>1. paid[u] + claimed \in Nat BY <1>1, <1>7
      <3> QED BY <1>1, <1>2, <3>1
    <2>3. userData' \in [Users -> UserData] BY <1>1, <1>2, <1>8
    <2> QED BY <1>2, <1>4, <2>1, <2>2, <2>3 DEF FInv, TypeOK
  <1>12. \A v \in Users : paid'[v] = paid[v] + (IF v = u THEN claimed ELSE 0) BY <1>1, <1>2
  <1>13. assetData' = n /\ rewardBalance' = rewardBalance - claimed /\ claimed <= rewardBalance
         /\ (u \in Users \/ claimed = 0)
    BY <1>2, <1>7
  <1> QED BY ONLY FInv, <1>0, <1>3, <1>7, <1>10, <1>11, <1>12, <1>13, HolderStep

\* A harvest: everything credited so far arrives with the reward tokens.
LEMMA HarvestKept ==
  ASSUME FInv, transferYield, UNCHANGED <<registered, userData, staked, vaultFee, paid>>,
         incentiveRatio' \in Nat
  PROVE  Kept
  <1> DEFINE total == vaultBalance + earned
             incentive == incentiveOf(total)
             inc == incentive - assetData.lastAvailableRewards
             n == assetData'
             mid == [v \in Users |-> Due(n, userData[v], staked[v])]
             new == [v \in Users |-> Arrived(n, userData[v], staked[v])]
             scaled == [v \in Users |-> RAY * new[v]]
  <1>1. /\ assetData \in AssetData /\ assetData.lastAvailableRewards \in Nat
        /\ assetData.claimableIndex <= assetData.index
        /\ rewardBalance \in Nat /\ RAY \in Nat \ {0} /\ IsFiniteSet(Users)
        /\ \A v \in Users : /\ userData[v] \in UserData /\ staked[v] \in Nat
                            /\ userData[v].index <= assetData.index /\ paid[v] \in Nat
    BY MathAssumption, DistributionAssumption DEF FInv, TypeOK, IndexesOrdered, AssetData
  <1>2. incentive \in Nat /\ inc \in Nat
    <2>1. incentive \in Nat BY ReportedIsPart DEF FInv, TypeOK
    <2>2. assetData.lastAvailableRewards <= incentive
      BY DEF FInv, LastSeenBounded, HarvestCoversCredits
    <2> QED BY <1>1, <2>1, <2>2
  <1>3. rewardBalance' = rewardBalance + incentive /\ earned' = 0 /\ vaultBalance' = 0
    BY DEF transferYield
  <1>4. (n = assetData /\ incentive = 0) \/ n = updateAssetState(assetData, totalStaked, 0, inc)
    <2>1. CASE incentiveRatio # 0 /\ total # 0 BY <2>1 DEF transferYield
    <2>2. CASE ~(incentiveRatio # 0 /\ total # 0)
      <3>1. n = assetData BY <2>2 DEF transferYield
      <3>2. incentiveOf(0) = 0
        BY IncentiveAmount DEF FInv, LastSeenBounded
      <3>3. incentive = 0 BY <2>2, <3>2 DEF incentiveOf
      <3> QED BY <3>1, <3>3
    <2> QED BY <2>1, <2>2
  <1>5. n.lastAvailableRewards = 0
    <2>1. CASE n = assetData /\ incentive = 0
      BY <1>1, <2>1 DEF FInv, LastSeenBounded, HarvestCoversCredits
    <2>2. CASE n = updateAssetState(assetData, totalStaked, 0, inc) BY <2>2, LastSeen
    <2> QED BY <1>4, <2>1, <2>2
  <1> HIDE DEF incentive
  <1>6. /\ n \in AssetData /\ assetData.index <= n.index
        /\ assetData.claimableIndex <= n.claimableIndex /\ n.claimableIndex <= n.index
        /\ n = assetData \/ n.claimableIndex = n.index
    <2>1. CASE n = assetData BY <1>1, <2>1 DEF AssetData
    <2>2. CASE n = updateAssetState(assetData, totalStaked, 0, inc)
      <3> DEFINE left == 0
      <3>1. totalStaked \in Nat BY ViewsAreArrived
      <3>2. left \in Nat /\ left = 0 /\ n = updateAssetState(assetData, totalStaked, left, inc)
        BY <2>2
      <3> HIDE DEF inc, n, left
      <3>3. /\ n \in AssetData /\ assetData.index <= n.index
            /\ assetData.claimableIndex <= n.claimableIndex /\ n.claimableIndex <= n.index
        BY ONLY <1>1, <1>2, <3>1, <3>2, AssetStep
      <3>4. n = assetData \/ n.claimableIndex = n.index BY ONLY <2>2, EverythingArrives
      <3> QED BY <3>3, <3>4
    <2> QED BY <1>4, <2>1, <2>2
  <1>7. /\ \A v \in Users : mid[v] \in Nat
        /\ SumFunctionOnSet(mid, Users) <= RAY * (rewardBalance + incentive)
    <2>1. CASE n = assetData /\ incentive = 0
      <3>1. mid = AllDue BY <2>1 DEF AllDue
      <3>2. SumFunctionOnSet(AllDue, Users)
              <= RAY * (rewardBalance + assetData.lastAvailableRewards)
        BY DEF FInv, CreditsCovered
      <3>3. assetData.lastAvailableRewards = incentive BY <1>5, <2>1
      <3>4. \A v \in Users : AllDue[v] \in Nat BY ViewsAreArrived
      <3> QED BY ONLY <3>1, <3>2, <3>3, <3>4
    <2>2. CASE n = updateAssetState(assetData, totalStaked, 0, inc)
      <3>1. assetData.lastAvailableRewards + inc = incentive BY <1>1, <1>2
      <3>2. /\ \A v \in Users : Due(n, userData[v], staked[v]) \in Nat
            /\ SumFunctionOnSet(mid, Users)
                 <= RAY * (rewardBalance + (assetData.lastAvailableRewards + inc))
        <4>1. 0 \in Nat OBVIOUS
        <4> HIDE DEF inc, n
        <4> QED BY ONLY FInv, <1>2, <2>2, <4>1, UpdatePaysForCredits
      <3> HIDE DEF inc, n
      <3> QED BY <3>1, <3>2
    <2> QED BY <1>4, <2>1, <2>2
  <1>8. TypeOK'
    <2>1. rewardBalance' \in Nat /\ earned' \in Nat /\ vaultBalance' \in Nat BY <1>1, <1>2, <1>3
    <2> QED BY <1>6, <2>1 DEF FInv, TypeOK
  <1>9. \A v \in Users : userData[v].index \in Nat /\ userData[v].index <= n.index
    BY <1>1, <1>6 DEF AssetData, UserData
  <1>10. IndexesOrdered' BY <1>6, <1>9 DEF IndexesOrdered
  <1>11. CreditsCovered'
    <2>1. AllDue' = mid BY DEF AllDue
    <2>2. rewardBalance' + assetData'.lastAvailableRewards = rewardBalance + incentive
      BY <1>1, <1>2, <1>3, <1>5
    <2> HIDE DEF mid
    <2> QED BY <1>7, <2>1, <2>2 DEF CreditsCovered
  <1>12. /\ AllViews' = new /\ \A v \in Users : getUnclaimedRewards(v)' = new[v]
    BY DEF AllViews, getUnclaimedRewards, Arrived
  <1>13. \A v \in Users : new[v] \in Nat
    <2> HIDE DEF n
    <2> QED BY <1>1, <1>6, <1>9, DueNat
  <1>14. ViewsCovered'
    <2>1. CASE n = assetData
      <3>1. new = AllViews
        BY <2>1 DEF AllViews, getUnclaimedRewards, Arrived
      <3>2. SumFunctionOnSet(AllViews, Users) <= rewardBalance BY DEF FInv, ViewsCovered
      <3>3. SumFunctionOnSet(AllViews, Users) \in Nat BY ViewsAreArrived
      <3> HIDE DEF new
      <3> QED BY <1>1, <1>2, <1>3, <1>12, <3>1, <3>2, <3>3 DEF ViewsCovered
    <2>2. CASE n.claimableIndex = n.index
      <3>1. ASSUME NEW v \in Users PROVE RAY * new[v] <= mid[v]
        <4> DEFINE i == userData[v].index
                   s == staked[v]
                   d == userData[v].claimableRewards
                   e == userData[v].expectedRewards
                   g == getRewards(s, n.index, i)
        <4>1. /\ i \in Nat /\ i <= n.index /\ s \in Nat /\ d \in Nat /\ e \in Nat /\ n.index \in Nat
          BY <1>1, <1>6, <1>9 DEF UserData, AssetData
        <4>2. g \in Nat /\ RAY * g <= s * (n.index - i) /\ s * (n.index - i) \in Nat
          <5> HIDE DEF n, i, s
          <5> QED BY <4>1, RewardsRoundDown
        <4>3. new[v] = d + (e + g) /\ mid[v] = RAY * (d + e) + s * (n.index - i)
          BY <2>2, <4>1 DEF Arrived, Due
        <4>4. RAY * (d + (e + g)) = RAY * (d + e) + RAY * g /\ RAY * (d + e) \in Int /\ RAY * g \in Int
          <5> HIDE DEF d, e, g
          <5> QED BY <1>1, <4>1, <4>2
        <4> HIDE DEF n, d, e, g, s, i, new, mid
        <4> QED BY ONLY <4>2, <4>3, <4>4
      <3>2. \A v \in Users : /\ scaled[v] = RAY * new[v] /\ scaled[v] \in Nat
                             /\ scaled[v] <= mid[v]
        <4> HIDE DEF new, mid
        <4>1. \A v \in Users : RAY * new[v] \in Nat BY <1>1, <1>13, ProductNat
        <4> QED BY <3>1, <4>1
      <3> HIDE DEF new, mid, scaled
      <3>3. SumFunctionOnSet(scaled, Users) <= SumFunctionOnSet(mid, Users)
        <4>1. \A v \in Users : scaled[v] \in Int /\ mid[v] \in Int /\ scaled[v] <= mid[v]
          BY <1>7, <3>2
        <4> QED BY ONLY <1>1, <4>1, SumMonotonic
      <3> DEFINE V == SumFunctionOnSet(new, Users)
                 M == SumFunctionOnSet(mid, Users)
                 B == rewardBalance + incentive
      <3>4. SumFunctionOnSet(scaled, Users) = RAY * V
        <4>1. \A v \in Users : new[v] \in Int /\ scaled[v] = RAY * new[v] BY <1>13, <3>2
        <4>2. RAY \in Int /\ IsFiniteSet(Users) BY <1>1
        <4> QED BY ONLY <4>1, <4>2, SumScale
      <3>5. V \in Nat /\ M \in Nat /\ B \in Nat
        <4>1. V \in Nat BY ONLY <1>1, <1>13, SumNat
        <4>2. M \in Nat BY ONLY <1>1, <1>7, SumNat
        <4> QED BY <1>1, <1>2, <4>1, <4>2
      <3>6. RAY * V <= RAY * B
        <4>1. RAY * V <= M /\ M <= RAY * B BY <1>7, <3>3, <3>4
        <4>2. RAY * V \in Int /\ RAY * B \in Int BY <1>1, <3>5
        <4> HIDE DEF V, M, B
        <4> QED BY <3>5, <4>1, <4>2
      <3>7. V <= B
        <4> HIDE DEF V, M, B
        <4> SUFFICES ASSUME B + 1 <= V PROVE FALSE BY <3>5
        <4>1. RAY * (B + 1) <= RAY * V BY ONLY <1>1, <3>5, B + 1 <= V, ProductMono
        <4>2. RAY * (B + 1) = RAY * B + RAY /\ RAY * B \in Int /\ RAY * V \in Int BY <1>1, <3>5
        <4> QED BY ONLY <1>1, <3>6, <4>1, <4>2
      <3> QED BY <1>3, <1>12, <3>7 DEF ViewsCovered
    <2> QED BY <1>6, <2>1, <2>2
  <1>15. ClaimsStep
    <2>1. ASSUME NEW v \in Users
          PROVE  getUnclaimedRewards(v)' + paid'[v] >= getUnclaimedRewards(v) + paid[v]
      <3> DEFINE i == userData[v].index
                 s == staked[v]
                 d == userData[v].claimableRewards
                 e == userData[v].expectedRewards
                 was == assetData.claimableIndex
                 is == n.claimableIndex
      <3>1. /\ i \in Nat /\ s \in Nat /\ d \in Nat /\ e \in Nat /\ was \in Nat /\ is \in Nat
            /\ was <= is
        BY <1>1, <1>6, <1>9 DEF UserData, AssetData
      <3>2. /\ getUnclaimedRewards(v) = d + (IF was >= i THEN e + getRewards(s, was, i) ELSE 0)
            /\ new[v] = d + (IF is >= i THEN e + getRewards(s, is, i) ELSE 0)
        BY DEF getUnclaimedRewards, Arrived
      <3>3. paid'[v] = paid[v] /\ paid[v] \in Nat BY <1>1
      <3>4. getUnclaimedRewards(v)' = new[v] BY <1>12
      <3> HIDE DEF n, i, s, d, e, was, is, new
      <3>5. /\ was >= i => getRewards(s, was, i) \in Nat /\ getRewards(s, was, i) <= getRewards(s, is, i)
            /\ is >= i => getRewards(s, is, i) \in Nat
        BY <3>1, RewardsRoundDown, RewardsMono
      <3>6. new[v] >= getUnclaimedRewards(v) /\ new[v] \in Nat /\ getUnclaimedRewards(v) \in Nat
        BY ONLY <3>1, <3>2, <3>5
      <3> QED BY ONLY <3>3, <3>4, <3>6
    <2> QED BY <2>1 DEF ClaimsStep
  <1> QED BY <1>8, <1>10, <1>11, <1>14, <1>15 DEF Kept

\* A step that touches neither the distributor's accounts nor the token.
LEMMA AccountsUntouched ==
  ASSUME FInv, UNCHANGED <<assetData, userData, staked, rewardBalance, paid>>, TypeOK'
  PROVE  Kept
  <1>1. IndexesOrdered' BY DEF FInv, IndexesOrdered
  <1>2. CreditsCovered'
    <2>1. AllDue' = AllDue BY DEF AllDue
    <2> QED BY <2>1 DEF FInv, CreditsCovered
  <1>3. \A u \in Users : getUnclaimedRewards(u)' = getUnclaimedRewards(u)
    BY DEF getUnclaimedRewards
  <1>4. ViewsCovered'
    <2>1. AllViews' = AllViews BY <1>3 DEF AllViews
    <2> QED BY <2>1 DEF FInv, ViewsCovered
  <1>5. ClaimsStep
    <2>1. \A u \in Users : getUnclaimedRewards(u) \in Nat /\ paid[u] \in Nat
      BY ViewsAreArrived DEF FInv, TypeOK
    <2> QED BY <1>3, <2>1 DEF ClaimsStep
  <1> QED BY <1>1, <1>2, <1>4, <1>5 DEF Kept

\* Every step of the distributor, the token and the vault.
LEMMA NextKept == FInv /\ [Next]_vars => Kept
  <1> SUFFICES ASSUME FInv, [Next]_vars PROVE Kept OBVIOUS
  <1>1. /\ Stakes \subseteq Nat /\ Claims \subseteq Nat /\ Ratios \subseteq Nat
        /\ Fees \subseteq Nat /\ Earnings \subseteq Nat
    BY DistributionAssumption
  <1>2. CASE registerAsset BY <1>2, RegisterKept
  <1>3. ASSUME NEW u \in Users, NEW amount \in Stakes, mint(u, amount) PROVE Kept
    <2> DEFINE b == staked[u] + amount
    <2>1. b \in Nat BY <1>1 DEF FInv, TypeOK
    <2>2. /\ handleAction(u) /\ staked' = [staked EXCEPT ![u] = b]
          /\ UNCHANGED <<registered, earned, vaultBalance, incentiveRatio, vaultFee, rewardBalance, paid>>
      BY <1>3 DEF mint
    <2> HIDE DEF b
    <2> QED BY <2>1, <2>2, StakeKept
  <1>4. ASSUME NEW u \in Users, NEW amount \in Stakes, burn(u, amount) PROVE Kept
    <2> DEFINE b == staked[u] - amount
    <2>1. b \in Nat
      <3>1. amount <= staked[u] BY <1>4 DEF burn
      <3>2. staked[u] \in Nat /\ amount \in Nat BY <1>1 DEF FInv, TypeOK
      <3> QED BY <3>1, <3>2
    <2>2. /\ handleAction(u) /\ staked' = [staked EXCEPT ![u] = b]
          /\ UNCHANGED <<registered, earned, vaultBalance, incentiveRatio, vaultFee, rewardBalance, paid>>
      BY <1>4 DEF burn
    <2> HIDE DEF b
    <2> QED BY <2>1, <2>2, StakeKept
  <1>5. ASSUME NEW from \in Users, NEW to \in Users, NEW amount \in Stakes,
               transfer(from, to, amount)
        PROVE  Kept
    BY <1>1, <1>5, TransferKept
  <1>6. ASSUME NEW u \in Users, NEW amount \in Claims, claimRewards(u, amount) PROVE Kept
    BY <1>1, <1>6, ClaimKept
  <1>7. CASE processYield
    BY <1>7, HarvestKept DEF processYield, FInv, TypeOK
  <1>8. ASSUME NEW ratio \in Ratios, setIncentiveRatio(ratio) PROVE Kept
    <2>1. incentiveRatio' \in Nat /\ UNCHANGED <<registered, userData, staked, vaultFee, paid>>
      BY <1>1, <1>8 DEF setIncentiveRatio
    <2>2. CASE incentiveRatio # 0 BY <1>8, <2>1, <2>2, HarvestKept DEF setIncentiveRatio
    <2>3. CASE incentiveRatio = 0
      <3>1. UNCHANGED <<assetData, earned, vaultBalance, rewardBalance>> BY <1>8, <2>3 DEF setIncentiveRatio
      <3>2. TypeOK' BY <2>1, <3>1 DEF FInv, TypeOK
      <3> QED BY <2>1, <3>1, <3>2, AccountsUntouched
    <2> QED BY <2>2, <2>3
  <1>9. ASSUME NEW fee \in Fees, setTreasuryInfo(fee) PROVE Kept
    <2>1. TypeOK' BY <1>1, <1>9 DEF FInv, TypeOK, setTreasuryInfo
    <2> QED BY <1>9, <2>1, AccountsUntouched DEF setTreasuryInfo
  <1>10. ASSUME NEW amount \in Earnings, RewardsEarned(amount) PROVE Kept
    <2>1. earned + amount \in Nat BY <1>1 DEF FInv, TypeOK
    <2>2. TypeOK' BY <1>10, <2>1 DEF FInv, TypeOK, RewardsEarned
    <2> QED BY <1>10, <2>2, AccountsUntouched DEF RewardsEarned
  <1>11. CASE getReward
    <2>1. vaultBalance + earned \in Nat BY DEF FInv, TypeOK
    <2>2. TypeOK' BY <1>11, <2>1 DEF FInv, TypeOK, getReward
    <2> QED BY <1>11, <2>2, AccountsUntouched DEF getReward
  <1>12. CASE UNCHANGED vars
    <2>1. TypeOK' BY <1>12 DEF FInv, TypeOK, vars
    <2> QED BY <1>12, <2>1, AccountsUntouched DEF vars
  <1> QED BY <1>2, <1>3, <1>4, <1>5, <1>6, <1>7, <1>8, <1>9, <1>10, <1>11, <1>12 DEF Next

\* The invariant holds when the asset is not yet registered and nobody is credited.
LEMMA InitFInv == Init => FInv
  <1> SUFFICES ASSUME Init PROVE FInv OBVIOUS
  <1>1. TypeOK BY DistributionAssumption DEF Init, TypeOK, AssetData, UserData
  <1>2. LastSeenBounded
    <2>1. /\ earned = 0 /\ vaultBalance = 0 /\ incentiveRatio = 0
          /\ assetData.lastAvailableRewards = 0
      BY DEF Init
    <2> QED BY <2>1 DEF LastSeenBounded, HarvestCoversCredits, incentiveOf
  <1>3. IndexesOrdered BY DEF Init, IndexesOrdered
  <1>4. IsFiniteSet(Users) /\ \A u \in Users : staked[u] \in Nat
    BY <1>1, DistributionAssumption DEF TypeOK
  <1>5. /\ assetData.index = 0 /\ assetData.claimableIndex = 0 /\ rewardBalance = 0
        /\ assetData.lastAvailableRewards = 0
        /\ \A u \in Users : /\ userData[u].index = 0 /\ userData[u].expectedRewards = 0
                            /\ userData[u].claimableRewards = 0
    BY DEF Init
  <1>6. CreditsCovered
    <2>1. \A u \in Users : AllDue[u] = 0
      <3>1. ASSUME NEW u \in Users PROVE AllDue[u] = 0
        <4>1. AllDue[u] = RAY * (0 + 0) + staked[u] * (0 - 0) BY <1>5 DEF AllDue, Due
        <4>2. RAY * (0 + 0) = 0 /\ staked[u] * (0 - 0) = 0 BY <1>4, MathAssumption
        <4> QED BY <4>1, <4>2
      <3> QED BY <3>1
    <2>2. SumFunctionOnSet(AllDue, Users) = 0 BY <1>4, <2>1, SumZero
    <2>3. RAY * (rewardBalance + assetData.lastAvailableRewards) = 0 BY <1>5, MathAssumption
    <2> QED BY <2>2, <2>3 DEF CreditsCovered
  <1>7. ViewsCovered
    <2>1. \A u \in Users : AllViews[u] = 0
      <3>1. ASSUME NEW u \in Users PROVE AllViews[u] = 0
        <4>1. getRewards(staked[u], 0, 0) = 0 BY <1>4, RewardsRoundDown
        <4> QED BY <1>5, <4>1 DEF AllViews, getUnclaimedRewards
      <3> QED BY <3>1
    <2>2. SumFunctionOnSet(AllViews, Users) = 0 BY <1>4, <2>1, SumZero
    <2> QED BY <1>5, <2>2 DEF ViewsCovered
  <1> QED BY <1>1, <1>2, <1>3, <1>6, <1>7 DEF FInv

\* The inductive invariant of the funding holds in every state.
LEMMA FundedInvariant == Spec => []FInv
  <1>1. FInv /\ [Next]_vars => FInv' BY NextKept, LastSeenStep DEF FInv, Kept
  <1> QED BY <1>1, InitFInv, PTL DEF Spec

\* Every record of the distributor keeps its type: no balance, index or reward
\* ever goes below zero.
THEOREM DistributionTypes == Spec => []TypeOK
  <1>1. FInv => TypeOK BY DEF FInv
  <1> QED BY <1>1, FundedInvariant, PTL

\* The reward tokens the distributor holds cover what the views promise to all
\* users together: the balance test of _claimRewards never has to refuse a claim.
THEOREM ViewsAreFunded == Spec => []RewardsFunded
  <1>1. FInv => RewardsFunded BY DEF FInv, ViewsCovered, AllViews, RewardsFunded
  <1> QED BY <1>1, FundedInvariant, PTL

\* Whatever anybody does, nobody's view shrinks but by what that user is paid.
THEOREM NobodyLosesRewards == Spec => ClaimsNeverShrink
  <1>1. FInv /\ [Next]_vars => [ClaimsStep]_vars BY NextKept DEF Kept
  <1> QED BY <1>1, FundedInvariant, PTL DEF Spec, ClaimsNeverShrink
=============================================================================

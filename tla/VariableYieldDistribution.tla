---------------------- MODULE VariableYieldDistribution ----------------------
(***************************************************************************)
(* VariableYieldDistribution with the vault that feeds it (IncentiveVault, *)
(* as ConvexCurveLPVault implements it) and the aToken that notifies it.   *)
(*                                                                         *)
(* A vault keeps a part of its rewards for the holders of its aToken.  The *)
(* distributor credits them while the rewards are still pending in the     *)
(* strategy (expectedRewards) and lets them be claimed once the vault has  *)
(* harvested and sent them (claimableRewards): claimableIndex is the index *)
(* up to which rewards have arrived.                                       *)
(*                                                                         *)
(* What the vault reports is what is pending for it in the strategy; what  *)
(* it sends is what it holds.  A harvest moves the one into the other      *)
(* first, but so may anybody (getReward).                                  *)
(*                                                                         *)
(* One aToken, connected through YieldDistributorAdapter before it is      *)
(* registered; 10^PRECISION of the contract is RAY.                        *)
(***************************************************************************)
EXTENDS WadRayMath, FiniteSets, Functions

CONSTANTS
  Users,       \* holders of the aToken
  InitStakes,  \* balances there may be when the asset is registered
  Stakes,      \* amounts minted, burned, transferred
  Earnings,    \* rewards the strategy may earn at once
  Claims,      \* amounts asked for in a claim
  Ratios,      \* values of setIncentiveRatio
  Fees         \* values of setTreasuryInfo

ASSUME DistributionAssumption ==
  /\ IsFiniteSet(Users)
  /\ InitStakes \subseteq [Users -> Nat]
  /\ Stakes \subseteq Nat /\ Earnings \subseteq Nat /\ Claims \subseteq Nat
  /\ Ratios \subseteq Nat /\ Fees \subseteq Nat

VARIABLES
  registered,      \* assets[asset].yieldAddress is set
  assetData,       \* assets[asset]: index, lastAvailableRewards, claimableIndex
  userData,        \* assets[asset].users
  staked,          \* balances of the aToken
  earned,          \* rewards of the vault pending in the strategy
  vaultBalance,    \* reward tokens the vault itself holds
  incentiveRatio,  \* _incentiveRatio of the vault
  vaultFee,        \* _vaultFee of the vault
  rewardBalance,   \* reward tokens the distributor holds
  paid             \* reward tokens every user has been sent

vars == <<registered, assetData, userData, staked, earned, vaultBalance, incentiveRatio,
          vaultFee, rewardBalance, paid>>

AssetData == [index: Nat, lastAvailableRewards: Nat, claimableIndex: Nat]
UserData == [index: Nat, expectedRewards: Nat, claimableRewards: Nat]

Init ==
  /\ registered = FALSE
  /\ assetData = [index |-> 0, lastAvailableRewards |-> 0, claimableIndex |-> 0]
  /\ userData = [u \in Users |-> [index |-> 0, expectedRewards |-> 0, claimableRewards |-> 0]]
  /\ staked \in InitStakes
  /\ earned = 0
  /\ vaultBalance = 0
  /\ incentiveRatio = 0
  /\ vaultFee = 0
  /\ rewardBalance = 0
  /\ paid = [u \in Users |-> 0]
-----------------------------------------------------------------------------
totalStaked == SumFunctionOnSet(staked, Users)

\* The part of an amount of rewards that is kept for the holders.
incentiveOf(amount) == IF incentiveRatio = 0 THEN 0 ELSE percentMul(amount, incentiveRatio)

\* What the vault reports: of the rewards still pending only.
getCurrentTotalIncentiveAmount == incentiveOf(earned)

getRewards(balance, reserveIndex, userIndex) == (balance * (reserveIndex - userIndex)) \div RAY

\* Rewards that arrive while nobody stakes are credited to nobody.
getAssetIndex(currentIndex, increasedRewards, totalBalance) ==
  IF increasedRewards = 0 \/ totalBalance = 0 THEN currentIndex
  ELSE currentIndex + (increasedRewards * RAY) \div totalBalance

updateAssetState(a, total, lastAvailableRewards, increasedRewards) ==
  LET newIndex == getAssetIndex(a.index, increasedRewards, total)
  IN  IF newIndex = a.index /\ lastAvailableRewards = a.lastAvailableRewards THEN a
      ELSE [index |-> newIndex,
            lastAvailableRewards |-> lastAvailableRewards,
            claimableIndex |-> IF lastAvailableRewards = 0 THEN newIndex ELSE a.claimableIndex]

\* The asset after the pending rewards of the vault are credited.
assetUpdated(a) ==
  updateAssetState(a, totalStaked, getCurrentTotalIncentiveAmount,
                   getCurrentTotalIncentiveAmount - a.lastAvailableRewards)

\* _getAvailableRewardsAmount reverts when the vault has less than it had.
RewardsAvailable == assetData.lastAvailableRewards <= getCurrentTotalIncentiveAmount

\* Mutant: what was expected is not dropped when it becomes claimable.
updateUserAssetTwice(a, u, stakedByUser, newIndex) ==
  IF u.index = newIndex THEN u
  ELSE [index |-> newIndex,
        claimableRewards |-> u.claimableRewards
          + (IF a.claimableIndex >= u.index
             THEN u.expectedRewards + getRewards(stakedByUser, a.claimableIndex, u.index) ELSE 0),
        expectedRewards |-> u.expectedRewards
          + getRewards(stakedByUser, newIndex,
                       IF a.claimableIndex >= u.index THEN a.claimableIndex ELSE u.index)]

\* Mutant: a user who is behind loses what was expected.
updateUserAssetForgets(a, u, stakedByUser, newIndex) ==
  IF u.index = newIndex THEN u
  ELSE [index |-> newIndex,
        claimableRewards |-> u.claimableRewards,
        expectedRewards |-> u.expectedRewards + getRewards(stakedByUser, newIndex, u.index)]

\* The user u with the asset a of before and the index newIndex it was brought
\* to.  A user who is up to date is left alone, even if rewards have arrived since.
updateUserAsset(a, u, stakedByUser, newIndex) ==
  LET arrived == a.claimableIndex >= u.index
      from    == IF arrived THEN a.claimableIndex ELSE u.index
  IN  IF u.index = newIndex THEN u
      ELSE [index |-> newIndex,
            claimableRewards |-> u.claimableRewards
              + (IF arrived THEN u.expectedRewards
                                   + getRewards(stakedByUser, a.claimableIndex, u.index)
                 ELSE 0),
            expectedRewards |-> (IF arrived THEN 0 ELSE u.expectedRewards)
                                  + getRewards(stakedByUser, newIndex, from)]

\* The view behind getRewardsBalance.
getUnclaimedRewards(u) ==
  userData[u].claimableRewards
    + (IF assetData.claimableIndex >= userData[u].index
       THEN userData[u].expectedRewards
              + getRewards(staked[u], assetData.claimableIndex, userData[u].index)
       ELSE 0)
-----------------------------------------------------------------------------
registerAsset ==
  /\ ~registered
  /\ RewardsAvailable
  /\ registered' = TRUE
  /\ assetData' = assetUpdated(assetData)
  /\ UNCHANGED <<userData, staked, earned, vaultBalance, incentiveRatio, vaultFee,
                 rewardBalance, paid>>

\* handleAction for one user, with the balances of before the movement.
handleAction(u) ==
  /\ registered /\ RewardsAvailable
  /\ assetData' = assetUpdated(assetData)
  /\ userData' = [userData EXCEPT ![u] =
                    updateUserAsset(assetData, @, staked[u], assetData'.index)]

mint(u, amount) ==
  /\ amount # 0
  /\ handleAction(u)
  /\ staked' = [staked EXCEPT ![u] = @ + amount]
  /\ UNCHANGED <<registered, earned, vaultBalance, incentiveRatio, vaultFee, rewardBalance, paid>>

\* Mutant: unchecked arithmetic.
burnUnchecked(u, amount) ==
  /\ handleAction(u)
  /\ staked' = [staked EXCEPT ![u] = @ - amount]
  /\ UNCHANGED <<registered, earned, vaultBalance, incentiveRatio, vaultFee, rewardBalance, paid>>

burn(u, amount) ==
  /\ amount # 0
  /\ amount <= staked[u]
  /\ handleAction(u)
  /\ staked' = [staked EXCEPT ![u] = @ - amount]
  /\ UNCHANGED <<registered, earned, vaultBalance, incentiveRatio, vaultFee, rewardBalance, paid>>

\* Two notifications: the second one sees the asset the first one left (and, in a
\* transfer to oneself, where the code makes only one, finds nothing to do).
transfer(from, to, amount) ==
  LET first    == assetUpdated(assetData)
      second   == assetUpdated(first)
      notified == [userData EXCEPT ![from] =
                     updateUserAsset(assetData, @, staked[from], first.index)]
  IN  /\ amount <= staked[from]
      /\ registered /\ RewardsAvailable
      /\ assetData' = second
      /\ userData' = [notified EXCEPT ![to] =
                        updateUserAsset(first, notified[to], staked[to], second.index)]
      /\ staked' = [staked EXCEPT ![from] = @ - amount, ![to] = @ + amount]
      /\ UNCHANGED <<registered, earned, vaultBalance, incentiveRatio, vaultFee, rewardBalance, paid>>

\* Pays what has arrived, or nothing when the distributor holds too little.
claimRewards(u, amount) ==
  LET newAsset      == assetUpdated(assetData)
      updated       == updateUserAsset(assetData, userData[u], staked[u], newAsset.index)
      unclaimed     == updated.claimableRewards
      amountToClaim == IF amount > unclaimed THEN unclaimed ELSE amount
      claimed       == IF rewardBalance >= amountToClaim THEN amountToClaim ELSE 0
  IN  /\ amount # 0
      /\ registered /\ RewardsAvailable
      /\ assetData' = newAsset
      /\ userData' = [userData EXCEPT ![u] =
                        [updated EXCEPT !.claimableRewards = unclaimed - claimed]]
      /\ rewardBalance' = rewardBalance - claimed
      /\ paid' = [paid EXCEPT ![u] = @ + claimed]
      /\ UNCHANGED <<registered, staked, earned, vaultBalance, incentiveRatio, vaultFee>>
-----------------------------------------------------------------------------
(* The vault *)

\* getReward of the Convex pool, then _transferYield of all the vault holds: the
\* incentive goes to the distributor (_sendIncentive, receivedRewards), the fee to
\* the treasury and the rest to the yield manager.  Two roundings up may ask for
\* more than there is.
transferYield ==
  LET yieldAmount == vaultBalance + earned
      incentive   == incentiveOf(yieldAmount)
  IN  /\ incentive + percentMul(yieldAmount, vaultFee) <= yieldAmount
      /\ earned' = 0
      /\ vaultBalance' = 0
      /\ rewardBalance' = rewardBalance + incentive
      /\ IF incentiveRatio # 0 /\ yieldAmount # 0
         THEN /\ registered
              /\ incentive >= assetData.lastAvailableRewards
              /\ assetData' = updateAssetState(assetData, totalStaked, 0,
                                               incentive - assetData.lastAvailableRewards)
         ELSE assetData' = assetData

processYield ==
  /\ transferYield
  /\ UNCHANGED <<registered, userData, staked, incentiveRatio, vaultFee, paid>>

\* Mutant: the rewards of the old ratio stay pending.
setIncentiveRatioOnly(ratio) ==
  /\ vaultFee + ratio <= PERCENTAGE_FACTOR
  /\ incentiveRatio' = ratio
  /\ UNCHANGED <<registered, assetData, userData, staked, earned, vaultBalance, vaultFee,
                 rewardBalance, paid>>

\* _clearRewards first, "so that the changing ratio does not affect asset's
\* cumulative index".
setIncentiveRatio(ratio) ==
  /\ vaultFee + ratio <= PERCENTAGE_FACTOR
  /\ IF incentiveRatio # 0 THEN transferYield
     ELSE UNCHANGED <<assetData, earned, vaultBalance, rewardBalance>>
  /\ incentiveRatio' = ratio
  /\ UNCHANGED <<registered, userData, staked, vaultFee, paid>>

setTreasuryInfo(fee) ==
  /\ 100 * fee <= 30 * PERCENTAGE_FACTOR
  /\ vaultFee' = fee
  /\ UNCHANGED <<registered, assetData, userData, staked, earned, vaultBalance,
                 incentiveRatio, rewardBalance, paid>>

\* The strategy earns for the vault.
RewardsEarned(amount) ==
  /\ earned' = earned + amount
  /\ UNCHANGED <<registered, assetData, userData, staked, vaultBalance, incentiveRatio,
                 vaultFee, rewardBalance, paid>>

\* Anybody may have the pool pay the vault what is pending for it.  Nothing is
\* sent on, and the distributor is not told.
getReward ==
  /\ vaultBalance' = vaultBalance + earned
  /\ earned' = 0
  /\ UNCHANGED <<registered, assetData, userData, staked, incentiveRatio, vaultFee,
                 rewardBalance, paid>>

Next ==
  \/ registerAsset
  \/ \E u \in Users, amount \in Stakes : mint(u, amount) \/ burn(u, amount)
  \/ \E from, to \in Users, amount \in Stakes : transfer(from, to, amount)
  \/ \E u \in Users, amount \in Claims : claimRewards(u, amount)
  \/ processYield
  \/ \E ratio \in Ratios : setIncentiveRatio(ratio)
  \/ \E fee \in Fees : setTreasuryInfo(fee)
  \/ \E amount \in Earnings : RewardsEarned(amount)
  \/ getReward

Spec == Init /\ [][Next]_vars
-----------------------------------------------------------------------------
TypeOK ==
  /\ registered \in BOOLEAN
  /\ assetData \in AssetData
  /\ userData \in [Users -> UserData]
  /\ staked \in [Users -> Nat]
  /\ earned \in Nat
  /\ vaultBalance \in Nat
  /\ incentiveRatio \in Nat
  /\ vaultFee \in Nat
  /\ rewardBalance \in Nat
  /\ paid \in [Users -> Nat]

\* What the views promise to all users together has arrived: the balance test
\* of _claimRewards, which silently pays nothing, never has to bite.
RewardsFunded ==
  SumFunctionOnSet([u \in Users |-> getUnclaimedRewards(u)], Users) <= rewardBalance

\* What was credited in advance never exceeds what a harvest would send, wherever
\* the rewards are by then and whatever the admin sets: receivedRewards does not
\* refuse the vault.  The amount reported may well fall below what was last seen
\* (getReward), and the token then stands still until somebody harvests.
HarvestCoversCredits ==
  assetData.lastAvailableRewards <= incentiveOf(vaultBalance + earned)

ClaimsStep ==
  \A u \in Users :
    getUnclaimedRewards(u)' + paid'[u] >= getUnclaimedRewards(u) + paid[u]

\* Nobody's view shrinks, by whatever call of whomever, but by what is paid out.
ClaimsNeverShrink == [][ClaimsStep]_vars

\* What getRewardsBalance promises, a claim of everything pays.
AllAvailableCanBeTaken ==
  registered /\ RewardsAvailable =>
    \A u \in Users :
      updateUserAsset(assetData, userData[u], staked[u], assetUpdated(assetData).index)
        .claimableRewards >= getUnclaimedRewards(u)
=============================================================================

------------------------ MODULE IncentivesController ------------------------
(***************************************************************************)
(* Rewards that flow at a rate: StakedTokenIncentivesController (with its  *)
(* DistributionManager), the StableYieldDistribution contracts, which hold *)
(* the same code, and YieldDistributorAdapter, which tells the controller  *)
(* which of them follow an aToken.                                         *)
(*                                                                         *)
(* One aToken.  The controller and every stable distributor keep an index  *)
(* of the rewards per token since the start; a user is paid for the growth *)
(* of the index since the user's own, so every movement of the token must  *)
(* be announced, with the balances of before, to each of them.             *)
(***************************************************************************)
EXTENDS Integers, Sequences, FiniteSets, Functions

CONSTANTS
  Users,               \* holders of the aToken
  StableDistributors,  \* the StableYieldDistribution contracts
  Controller,          \* the StakedTokenIncentivesController
  NoAddress,           \* address(0)
  Stakes,              \* amounts minted, burned, transferred
  Emissions,           \* values of configureAssets
  Ends,                \* values of setDistributionEnd
  Claims,              \* amounts asked for in a claim
  Fundings,            \* reward tokens sent to a distributor at once
  PRECISION,           \* 10^27, 10^18 in the controller
  MAX_INDEX            \* 2^104 - 1

ASSUME ControllerAssumption ==
  /\ IsFiniteSet(Users)
  /\ Controller \notin StableDistributors
  /\ NoAddress \notin StableDistributors \cup {Controller}
  /\ Stakes \subseteq Nat /\ Emissions \subseteq Nat /\ Ends \subseteq Nat
  /\ Claims \subseteq Nat /\ Fundings \subseteq Nat
  /\ PRECISION \in Nat \ {0} /\ MAX_INDEX \in Nat

VARIABLES
  now,          \* block.timestamp
  assets,       \* of every distributor, its AssetData of the aToken and the rest of its state
  sDistributors,\* _reserveToSDistributors of the adapter
  sCount,       \* _reserveToSDistributorCount
  staked,       \* balances of the aToken
  claimed,      \* what every distributor reported as claimed, by user
  emitted       \* what its emission has allowed for so far

vars == <<now, assets, sDistributors, sCount, staked, claimed, emitted>>

Distributors == StableDistributors \cup {Controller}

AssetData ==
  [emissionPerSecond: Nat, index: 0..MAX_INDEX, lastUpdateTimestamp: Nat, distributionEnd: Nat,
   users: [Users -> Nat], unclaimed: [Users -> Nat], balance: Nat]

\* After initReservesByHelper: configured and connected before anybody stakes; a
\* distributor that does not follow the token knows nothing of it.
Init ==
  /\ now = 0
  /\ \E n \in 0..Cardinality(StableDistributors) :
       sDistributors \in Injection(1..n, StableDistributors)
  /\ assets \in
       [Distributors ->
          {[emissionPerSecond |-> e, index |-> 0, lastUpdateTimestamp |-> 0,
            distributionEnd |-> end, users |-> [u \in Users |-> 0],
            unclaimed |-> [u \in Users |-> 0], balance |-> 0] :
             e \in Emissions \cup {0}, end \in Ends}]
  /\ \A d \in Distributors :
       assets[d].emissionPerSecond \in
         (IF d \in Range(sDistributors) \cup {Controller} THEN Emissions ELSE {0})
  /\ sCount = Len(sDistributors)
  /\ staked = [u \in Users |-> 0]
  /\ claimed = [d \in Distributors |-> [u \in Users |-> 0]]
  /\ emitted = [d \in Distributors |-> 0]
-----------------------------------------------------------------------------
scaledTotalSupply == SumFunctionOnSet(staked, Users)

getRewards(balance, reserveIndex, userIndex) ==
  (balance * (reserveIndex - userIndex)) \div PRECISION

getAssetIndex(a, total) ==
  IF \/ a.emissionPerSecond = 0
     \/ total = 0
     \/ a.lastUpdateTimestamp = now
     \/ a.lastUpdateTimestamp >= a.distributionEnd
  THEN a.index
  ELSE LET currentTimestamp == IF now > a.distributionEnd THEN a.distributionEnd ELSE now
       IN  a.index + (a.emissionPerSecond * (currentTimestamp - a.lastUpdateTimestamp) * PRECISION)
                       \div total

\* "Index overflow": the update reverts, and the call it is part of.
IndexFits(a, total) == getAssetIndex(a, total) <= MAX_INDEX

updateAssetState(a, total) ==
  [a EXCEPT !.index = getAssetIndex(a, total), !.lastUpdateTimestamp = now]

updateUserAsset(a, u, stakedByUser, total) ==
  LET newIndex == getAssetIndex(a, total)
  IN  [updateAssetState(a, total) EXCEPT
         !.users[u] = newIndex,
         !.unclaimed[u] = @ + getRewards(stakedByUser, newIndex, a.users[u])]

\* getRewardsBalance of distributor d.
getRewardsBalance(d, u) ==
  assets[d].unclaimed[u]
    + getRewards(staked[u], getAssetIndex(assets[d], scaledTotalSupply), assets[d].users[u])
-----------------------------------------------------------------------------
(* The token *)

\* handleAction of a distributor: one whose emission is zero ignores the movement.
notified(a, u, userBalance, total) ==
  IF a.emissionPerSecond = 0 THEN a ELSE updateUserAsset(a, u, userBalance, total)

\* Mutant: the distributors of the list are not told.
handleActionAlone(as, u, userBalance, total) ==
  [as EXCEPT ![Controller] = notified(@, u, userBalance, total)]

\* handleAction of the controller: the listed distributors, then itself.  A
\* second notification of the same movement changes nothing; a call to an
\* address without code reverts.
handleAction(as, u, userBalance, total) ==
  [d \in Distributors |->
     IF d = Controller \/ d \in Range(sDistributors)
     THEN notified(as[d], u, userBalance, total) ELSE as[d]]

Notifiable ==
  /\ NoAddress \notin Range(sDistributors)
  /\ \A d \in Range(sDistributors) \cup {Controller} :
       IndexFits(assets[d], scaledTotalSupply)

mint(u, amount) ==
  /\ amount # 0
  /\ Notifiable
  /\ assets' = handleAction(assets, u, staked[u], scaledTotalSupply)
  /\ staked' = [staked EXCEPT ![u] = @ + amount]
  /\ UNCHANGED <<now, sDistributors, sCount, claimed, emitted>>

burn(u, amount) ==
  /\ amount # 0
  /\ amount <= staked[u]
  /\ Notifiable
  /\ assets' = handleAction(assets, u, staked[u], scaledTotalSupply)
  /\ staked' = [staked EXCEPT ![u] = @ - amount]
  /\ UNCHANGED <<now, sDistributors, sCount, claimed, emitted>>

transfer(from, to, amount) ==
  LET first == handleAction(assets, from, staked[from], scaledTotalSupply)
  IN  /\ amount <= staked[from]
      /\ Notifiable
      /\ assets' = IF from = to THEN first
                   ELSE handleAction(first, to, staked[to], scaledTotalSupply)
      /\ staked' = [[staked EXCEPT ![from] = @ - amount] EXCEPT ![to] = @ + amount]
      /\ UNCHANGED <<now, sDistributors, sCount, claimed, emitted>>

\* claimRewards: the amount is deducted and reported whether or not it can be paid.
claimRewards(d, u, amount) ==
  LET updated       == updateUserAsset(assets[d], u, staked[u], scaledTotalSupply)
      unclaimed     == updated.unclaimed[u]
      amountToClaim == IF amount > unclaimed THEN unclaimed ELSE amount
      transferred   == IF updated.balance >= amountToClaim THEN amountToClaim ELSE 0
  IN  /\ amount # 0
      /\ IndexFits(assets[d], scaledTotalSupply)
      /\ assets' = [assets EXCEPT ![d] =
                      [updated EXCEPT !.unclaimed[u] = unclaimed - amountToClaim,
                                      !.balance = @ - transferred]]
      /\ claimed' = [claimed EXCEPT ![d][u] = @ + amountToClaim]
      /\ UNCHANGED <<now, sDistributors, sCount, staked, emitted>>
-----------------------------------------------------------------------------
(* The emission manager *)

\* Mutant: the new emission applies to the time since the last update.
configureAssetsOnly(d, emission) ==
  /\ IndexFits(assets[d], scaledTotalSupply)
  /\ assets' = [assets EXCEPT ![d].emissionPerSecond = emission]
  /\ UNCHANGED <<now, sDistributors, sCount, staked, claimed, emitted>>

configureAssets(d, emission) ==
  /\ IndexFits(assets[d], scaledTotalSupply)
  /\ assets' = [assets EXCEPT ![d] =
                  [updateAssetState(@, scaledTotalSupply) EXCEPT !.emissionPerSecond = emission]]
  /\ UNCHANGED <<now, sDistributors, sCount, staked, claimed, emitted>>

setDistributionEnd(d, end) ==
  /\ assets' = [assets EXCEPT ![d].distributionEnd = end]
  /\ UNCHANGED <<now, sDistributors, sCount, staked, claimed, emitted>>

addStableYieldDistributor(d) ==
  /\ sDistributors' = Append(sDistributors, d)
  /\ sCount' = sCount + 1
  /\ UNCHANGED <<now, assets, staked, claimed, emitted>>

\* The last counted entry takes the place of the removed one and is zeroed,
\* but stays in the array: later additions go behind it.
removeStableYieldDistributor(index) ==
  /\ index < sCount
  /\ sDistributors' = [sDistributors EXCEPT ![index + 1] = sDistributors[sCount],
                                            ![sCount] = NoAddress]
  /\ sCount' = sCount - 1
  /\ UNCHANGED <<now, assets, staked, claimed, emitted>>
-----------------------------------------------------------------------------
\* Reward tokens are sent to a distributor.
Fund(d, amount) ==
  /\ assets' = [assets EXCEPT ![d].balance = @ + amount]
  /\ UNCHANGED <<now, sDistributors, sCount, staked, claimed, emitted>>

AdvanceTime ==
  /\ now' = now + 1
  /\ emitted' = [d \in Distributors |-> emitted[d] + assets[d].emissionPerSecond]
  /\ UNCHANGED <<assets, sDistributors, sCount, staked, claimed>>

Next ==
  \/ \E u \in Users, amount \in Stakes : mint(u, amount) \/ burn(u, amount)
  \/ \E from, to \in Users, amount \in Stakes : transfer(from, to, amount)
  \/ \E d \in Distributors, u \in Users, amount \in Claims : claimRewards(d, u, amount)
  \/ \E d \in Distributors, emission \in Emissions : configureAssets(d, emission)
  \/ \E d \in Distributors, end \in Ends : setDistributionEnd(d, end)
  \/ \E d \in StableDistributors : addStableYieldDistributor(d)
  \/ \E i \in 1..sCount : removeStableYieldDistributor(i - 1)
  \/ \E d \in Distributors, amount \in Fundings : Fund(d, amount)
  \/ AdvanceTime

Spec == Init /\ [][Next]_vars
-----------------------------------------------------------------------------
TypeOK ==
  /\ now \in Nat
  /\ assets \in [Distributors -> AssetData]
  /\ sDistributors \in Seq(StableDistributors \cup {NoAddress})
  /\ sCount \in 0..Len(sDistributors)
  /\ staked \in [Users -> Nat]
  /\ claimed \in [Distributors -> [Users -> Nat]]
  /\ emitted \in [Distributors -> Nat]

\* All users together never have claimed, or been promised by the view, more
\* than the emission of the distributor has released since the start, however
\* the token moves and the emission, the end and the list change in between.
EmissionBound ==
  \A d \in Distributors :
    SumFunctionOnSet([u \in Users |-> claimed[d][u] + getRewardsBalance(d, u)], Users) <= emitted[d]

\* What a user has or may claim shrinks by no call of anybody; only
\* setDistributionEnd may take back time that has not been accounted for yet.
KeepingStep ==
  \A d \in Distributors :
    assets'[d].distributionEnd = assets[d].distributionEnd =>
      \A u \in Users : claimed'[d][u] + getRewardsBalance(d, u)'
                         >= claimed[d][u] + getRewardsBalance(d, u)
RewardsKept == [][KeepingStep]_vars
=============================================================================

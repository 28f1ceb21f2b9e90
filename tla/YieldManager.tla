---------------------------- MODULE YieldManager ----------------------------
(***************************************************************************)
(* YieldManager: the vaults send it what their strategies earn; it swaps   *)
(* the registered reward tokens to the exchange token, splits that among   *)
(* the reserves suppliers lend to, in proportion to their volume, swaps    *)
(* each part to the asset of its reserve and deposits it as yield.         *)
(*                                                                         *)
(* Swaps are external: prices are one to one, and a swap returns the       *)
(* oracle's amount or, at worst, that amount less the slippage.            *)
(***************************************************************************)
EXTENDS WadRayMath, Sequences, FiniteSetsExt

CONSTANTS
  RewardAssets,   \* tokens the vaults send
  Reserves,       \* the reserves of the pool whose asset is not collateral, in its order
  SwapTypes,      \* of every reward asset, the adapter it is registered with
  Yields,         \* amounts a vault sends at once
  Supplies,       \* aToken supplies a reserve may have
  TOKEN_UNIT,     \* 10 ** decimals
  Slippages       \* values of _slippage

Stables == {Reserves[i] : i \in DOMAIN Reserves}

ASSUME YieldManagerAssumption ==
  /\ Reserves \in Seq(Stables) \ {<<>>}
  /\ Cardinality(Stables) = Len(Reserves)
  /\ RewardAssets \cap Stables = {}
  /\ SwapTypes \in [RewardAssets -> {"UNISWAP", "BALANCER"}]
  /\ Yields \subseteq Nat /\ Supplies \subseteq Nat
  /\ TOKEN_UNIT \in Nat \ {0}
  /\ Slippages \subseteq 0..PERCENTAGE_FACTOR

VARIABLES
  assetsList,     \* _assetsList with _assetsSwapType: every slot written so far
  assetsCount,    \* _assetsCount
  exchangeToken,  \* _exchangeToken
  curvePools,     \* pairs for which a pool is set
  balances,       \* tokens the manager holds
  reserve,        \* of every reserve: supply of its aToken, and whether it lends
  spent           \* exchange tokens assigned to every reserve so far

vars == <<assetsList, assetsCount, exchangeToken, curvePools, balances, reserve, spent>>

Entry == [asset: RewardAssets, swapType: {"UNISWAP", "BALANCER"}]

\* As deployed, before or after the pools are set.
Init ==
  /\ assetsList = <<>>
  /\ assetsCount = 0
  /\ exchangeToken = Reserves[1]
  /\ curvePools \in {{}, {<<Reserves[1], s>> : s \in Stables \ {Reserves[1]}}}
  /\ balances = [a \in RewardAssets \cup Stables |-> 0]
  /\ reserve \in [Stables -> [supply: Supplies, borrowable: {TRUE}]]
  /\ spent = [s \in Stables |-> 0]
-----------------------------------------------------------------------------
(* The administration *)

setExchangeToken(token) ==
  /\ exchangeToken' = token
  /\ UNCHANGED <<assetsList, assetsCount, curvePools, balances, reserve, spent>>

\* Slots behind the count keep what they last held and are written again.
registerAsset(a) ==
  LET entry == [asset |-> a, swapType |-> SwapTypes[a]]
  IN  /\ assetsList' = IF assetsCount < Len(assetsList)
                       THEN [assetsList EXCEPT ![assetsCount + 1] = entry]
                       ELSE Append(assetsList, entry)
      /\ assetsCount' = assetsCount + 1
      /\ UNCHANGED <<exchangeToken, curvePools, balances, reserve, spent>>

\* Mutant: the swap type stays with the slot.
unregisterAssetOnly(index) ==
  /\ index < assetsCount
  /\ IF index = assetsCount - 1 THEN UNCHANGED <<assetsList, assetsCount>>
     ELSE /\ assetsList' = [assetsList EXCEPT ![index + 1].asset = assetsList[assetsCount].asset]
          /\ assetsCount' = assetsCount - 1
  /\ UNCHANGED <<exchangeToken, curvePools, balances, reserve, spent>>

\* The last one takes the place of the removed one; the last one itself is
\* not removed.
unregisterAsset(index) ==
  /\ index < assetsCount
  /\ IF index = assetsCount - 1 THEN UNCHANGED <<assetsList, assetsCount>>
     ELSE /\ assetsList' = [assetsList EXCEPT ![index + 1] = assetsList[assetsCount]]
          /\ assetsCount' = assetsCount - 1
  /\ UNCHANGED <<exchangeToken, curvePools, balances, reserve, spent>>

setCurvePool(tokenIn, tokenOut) ==
  /\ curvePools' = curvePools \cup {<<tokenIn, tokenOut>>}
  /\ UNCHANGED <<assetsList, assetsCount, exchangeToken, balances, reserve, spent>>
-----------------------------------------------------------------------------
(* distributeYield *)

\* getBorrowingAssetAndVolumes: the reserves that lend, the last of them in the
\* order of the pool, and their volume in whole tokens.
borrowingAssets == {s \in Stables : reserve[s].borrowable}
lastAsset == Reserves[Max({i \in DOMAIN Reserves : Reserves[i] \in borrowingAssets})]
volume(s) == reserve[s].supply \div TOKEN_UNIT
totalVolume == SumFunctionOnSet([s \in borrowingAssets |-> volume(s)], borrowingAssets)

\* Mutant: the last one gets its share too, not what is left.
getAssetYieldsByShare(total) ==
  [s \in borrowingAssets |-> (total * volume(s)) \div totalVolume]

\* Mutant: every one gets the same.
getAssetYieldsEqually(total) ==
  LET n == Cardinality(borrowingAssets)
  IN  [s \in borrowingAssets |->
         IF s # lastAsset THEN total \div n ELSE total - (n - 1) * (total \div n)]

\* By percentage of the volume, rounded; the last one gets the rest, which is
\* below zero when the roundings before it used up more than there was.
getAssetYields(total) ==
  LET share == [s \in borrowingAssets |->
                  percentMul(total, (volume(s) * PERCENTAGE_FACTOR) \div totalVolume)]
  IN  [share EXCEPT ![lastAsset] =
         total - SumFunctionOnSet(share, borrowingAssets \ {lastAsset})]

\* What a swap of amount returns when it loses loss; the adapters refuse nothing.
swapExactTokensForTokens(amount, loss) == percentMul(amount, PERCENTAGE_FACTOR - loss)

\* Balances after _convertAssetToExchangeToken of the slots of the window.
Window(offset, count) == {assetsList[i].asset : i \in (offset + 1)..(offset + count)}
converted(assets, loss) ==
  [a \in DOMAIN balances |->
     IF a \in assets THEN 0
     ELSE IF a = exchangeToken
     THEN balances[a] + SumFunctionOnSet(
            [b \in assets |-> swapExactTokensForTokens(balances[b], loss)], assets)
     ELSE balances[a]]

\* Mutant: unchecked arithmetic.
CoveredUnchecked(yields) == TRUE

\* Taking the parts from the whole reverts below zero.
Covered(yields) == \A s \in borrowingAssets : yields[s] >= 0

PoolsSet(yields) ==
  \A s \in borrowingAssets :
    yields[s] # 0 /\ s # exchangeToken => <<exchangeToken, s>> \in curvePools

\* What arrives at the reserve of s.
received(yields, s, loss) ==
  IF s = exchangeToken THEN yields[s] ELSE swapExactTokensForTokens(yields[s], loss)

\* loss is what the market makes of the slippage the caller allows.
distributeYield(offset, count, loss) ==
  LET assets   == Window(offset, count)
      swapped  == converted(assets, loss)
      total    == swapped[exchangeToken]
      yields   == getAssetYields(total)
  IN  /\ offset + count <= Len(assetsList)
      /\ \A a \in assets : balances[a] # 0 => swapExactTokensForTokens(balances[a], loss) # 0
      /\ IF totalVolume = 0
         THEN /\ balances' = swapped
              /\ UNCHANGED <<reserve, spent>>
         ELSE /\ Covered(yields)
              /\ PoolsSet(yields)
              /\ \A s \in borrowingAssets : yields[s] # 0 =>
                   received(yields, s, loss) # 0 /\ reserve[s].supply # 0
              /\ balances' = [swapped EXCEPT ![exchangeToken] =
                                @ - SumFunctionOnSet(yields, borrowingAssets)]
              /\ spent' = [s \in Stables |->
                   spent[s] + IF s \in borrowingAssets THEN yields[s] ELSE 0]
              /\ reserve' = [s \in Stables |->
                   [reserve[s] EXCEPT !.supply =
                      @ + IF s \in borrowingAssets THEN received(yields, s, loss) ELSE 0]]
      /\ UNCHANGED <<assetsList, assetsCount, exchangeToken, curvePools>>
-----------------------------------------------------------------------------
(* Outside *)

\* A vault's processYield.
VaultSends(a, amount) ==
  /\ balances' = [balances EXCEPT ![a] = @ + amount]
  /\ UNCHANGED <<assetsList, assetsCount, exchangeToken, curvePools, reserve, spent>>

\* Suppliers come and go; the configurator opens and closes borrowing.
ReserveChanges(s, supply, borrowable) ==
  /\ reserve' = [reserve EXCEPT ![s] = [supply |-> supply, borrowable |-> borrowable]]
  /\ UNCHANGED <<assetsList, assetsCount, exchangeToken, curvePools, balances, spent>>

Next ==
  \/ \E token \in Stables : setExchangeToken(token)
  \/ \E a \in RewardAssets : registerAsset(a)
  \/ \E i \in 1..assetsCount : unregisterAsset(i - 1)
  \/ \E s, t \in Stables : s # t /\ setCurvePool(s, t)
  \/ \E offset, count \in 0..Len(assetsList), loss \in Slippages :
       distributeYield(offset, count, loss)
  \/ \E a \in RewardAssets, amount \in Yields : VaultSends(a, amount)
  \/ \E s \in Stables, supply \in Supplies, b \in BOOLEAN : ReserveChanges(s, supply, b)

Spec == Init /\ [][Next]_vars
-----------------------------------------------------------------------------
TypeOK ==
  /\ assetsList \in Seq(Entry)
  /\ assetsCount \in 0..Len(assetsList)
  /\ exchangeToken \in Stables
  /\ curvePools \subseteq Stables \X Stables
  /\ balances \in [RewardAssets \cup Stables -> Nat]
  /\ reserve \in [Stables -> [supply: Nat, borrowable: BOOLEAN]]
  /\ spent \in [Stables -> Nat]

\* Whatever is registered and removed in whatever order, a reward token is
\* swapped by the adapter it was registered with.
SwapTypeFollowsAsset ==
  \A i \in DOMAIN assetsList : assetsList[i].swapType = SwapTypes[assetsList[i].asset]

\* A distribution that reaches a reserve leaves no exchange token behind: the
\* parts add up to all that was swapped, with what earlier calls had left.
NothingLeftBehind == [][spent' # spent => balances'[exchangeToken] = 0]_vars

\* Every reserve gets its share of the volume to half a unit, but for the last,
\* which gets what truncated percentages and roundings leave of the others.
FairStep ==
  spent' # spent =>
    LET got   == [s \in Stables |-> spent'[s] - spent[s]]
        total == SumFunctionOnSet(got, Stables)
        n     == Cardinality(borrowingAssets)
    IN  \A s \in borrowingAssets :
          2 * PERCENTAGE_FACTOR * totalVolume * got[s]
            <= 2 * PERCENTAGE_FACTOR * total * volume(s)
                 + (IF s # lastAsset THEN PERCENTAGE_FACTOR * totalVolume
                    ELSE (n - 1) * totalVolume * (2 * total + PERCENTAGE_FACTOR))

FairSplit == [][FairStep]_vars
=============================================================================

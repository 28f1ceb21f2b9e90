----------------------------- MODULE InitHelpers -----------------------------
(***************************************************************************)
(* src/helpers/init-helpers.ts and src/helpers/oracles-helpers.ts: how a   *)
(* deployment creates the reserves of a market, wires their rewards, lends *)
(* the pool admin's power to a helper contract while it sets the risk      *)
(* parameters, and fills the oracles.                                      *)
(*                                                                         *)
(* A reserve is a pair <<symbol, parameters>> of ReservesConfig; listed is *)
(* the set of symbols that have an address, vaults the yield vaults by     *)
(* symbol.                                                                 *)
(***************************************************************************)
EXTENDS ContractsDeployments, MarketParams, SequencesExt

\* chunk(array, size).
Chunk(s, size) ==
    [k \in 1 .. ((Len(s) + size - 1) \div size) |->
        SubSeq(s, (k - 1) * size + 1,
               IF k * size < Len(s) THEN k * size ELSE Len(s))]

\* Reserves without an address are skipped.
Listed(reserves, listed) == SelectSeq(reserves, LAMBDA r : r[1] \in listed)

YieldOf(vaults, sym) == IF sym \in DOMAIN vaults THEN vaults[sym] ELSE ""

\* The reserves as the arguments of batchInitReserve.
InitInputParams(reserves, vaults) ==
    [k \in DOMAIN reserves |->
        [sym |-> reserves[k][1], params |-> reserves[k][2],
         vault |-> YieldOf(vaults, reserves[k][1])]]

\* One strategy contract for each strategy name, deployed for the first reserve
\* that names it.
DeployStrategies(reserves) ==
    LET Name(k) == reserves[k][2].strategy.name
    IN  FlattenSeq([k \in DOMAIN reserves |->
            IF \E j \in 1 .. (k - 1) : Name(j) = Name(k)
            THEN <<>>
            ELSE deployDefaultReserveInterestRateStrategy \o Save(Name(k))])

\* Mutant: the adapter is told first.
VariableRewardsReversed(sym, vaults) ==
    SetVariable(sym) \o RegisterAsset(sym, YieldOf(vaults, sym))

\* The variable distributor of a reserve's rewards: registered with the aToken
\* and the vault, then made known to the adapter.
VariableRewards(sym, vaults) ==
    RegisterAsset(sym, YieldOf(vaults, sym)) \o SetVariable(sym)

\* cvxFRAX_3CRV also earns LDO at a stable rate.
StableRewards(sym) ==
    Load("LDOStableYieldDistribution")
        \o ConfigureAssets("LDOStableYieldDistribution", {sym})
        \o AddStable(sym, "LDOStableYieldDistribution")

RewardedAssets ==
    <<"cvxFRAX_USDC", "cvxMIM_3CRV", "cvxDAI_USDC_USDT_SUSD", "auraDAI_USDC_USDT",
      "cvxTUSD_FRAXBP", "auraBB_A_USD", "auraBB_A3_USD">>

\* The blocks "if (tokenAddresses['...'])" at the end of initReservesByHelper.
WireRewards(listed, vaults) ==
    Load("YieldDistributorAdapter")
        \o (IF "cvxFRAX_3CRV" \in listed
            THEN StableRewards("cvxFRAX_3CRV")
                     \o VariableRewards("cvxFRAX_3CRV", vaults)
            ELSE <<>>)
        \o FlattenSeq([k \in DOMAIN RewardedAssets |->
               IF RewardedAssets[k] \in listed
               THEN VariableRewards(RewardedAssets[k], vaults)
               ELSE <<>>])

initReservesByHelper(config, listed, vaults) ==
    LET reserves == Listed(config, listed)
        batches == Chunk(InitInputParams(reserves, vaults), 4)
    IN  Needs({"StableAndVariableTokensHelper", Provider})
        \o deployGenericStableDebtToken
        \o deployGenericVariableDebtToken
        \o Load("StakedTokenIncentivesController")
        \o deployGenericATokenImpl \o Save("aTokenImpl")
        \o deployCollateralATokenImpl \o Save("aTokenForCollateralImpl")
        \o DeployStrategies(reserves)
        \o Needs({"LendingPoolConfigurator", "LendingPool"})
        \o FlattenSeq([k \in DOMAIN batches |-> BatchInitReserve(batches[k])])
        \o ConfigureAssets("StakedTokenIncentivesController",
                           {reserves[k][1] : k \in DOMAIN reserves})
        \o WireRewards(listed, vaults)

\* The helper contract is made pool admin, sets the parameters of up to twenty
\* reserves in one transaction, and the admin read before gets the role back.  (A
\* reserve that is collateral already would be left out; none is, as the reserves
\* were created a moment ago.)
configureReservesByHelper(config, listed) ==
    LET inputs == InitInputParams(Listed(config, listed), <<>>)
        batches == Chunk(inputs, 20)
    IN  Needs({Provider, "ATokensAndRatesHelper"})
        \o GrantAdmin
        \o FlattenSeq([k \in DOMAIN batches |-> ConfigureReserves(batches[k])])
        \o ReturnAdmin

\* The ownership of the lending rate oracle in "it" goes to a helper contract,
\* which sets the rates of DAI, USDC and USDT, and back to the admin.
setInitialMarketRatesInRatesOracleByHelper(tokens) ==
    Needs({"StableAndVariableTokensHelper"})
        \o LendRates(tokens) \o SetBorrowRates(tokens) \o ReturnRates

\* Prices of the test networks, symbol by symbol; symbols the script's own table
\* of assets does not have end it (the search for the key returns -1).
setInitialAssetPricesInOracle(symbols, assets, listed) ==
    FlattenSeq([k \in DOMAIN symbols |->
        IF symbols[k] \notin assets THEN ThrowUnless("nothing")
        ELSE IF symbols[k] \notin listed THEN <<>>
        ELSE SetAssetPrice(symbols[k])])

=============================================================================

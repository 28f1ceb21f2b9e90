------------------------------ MODULE FullTasks ------------------------------
(***************************************************************************)
(* src/tasks/full and src/tasks/deployments: the tasks the migrations to   *)
(* the main networks run, each as its script.  A task is named as hardhat  *)
(* names it, with "_" for ":" and "-".  Parameters stand for what a task   *)
(* reads of the market's configuration.                                    *)
(***************************************************************************)
EXTENDS InitHelpers

------------------------------------------------------------------------------
\* The addresses provider, the pool and the oracles

full_deploy_address_provider_registry ==
    UnlessConfigured("ProviderRegistry", deployLendingPoolAddressesProviderRegistry)

\* The owner of a registry that exists must be configured; a registry that does
\* not exist is deployed and owned by the deployer.  A configured owner must also
\* be the first signer (lines 67-75; a fork impersonates it): the scripts are
\* taken to be run by that account, the only one that gets past the task.
add_market_to_registry(configured) ==
    (IF "ProviderRegistry" \in configured
     THEN ThrowUnless("ProviderRegistryOwner") ELSE <<>>)
        \o UnlessConfigured("ProviderRegistry", full_deploy_address_provider_registry)
        \o RegisterProvider

full_deploy_address_provider(configured) ==
    deployLendingPoolAddressesProvider
        \o add_market_to_registry(configured)
        \o SetAdmin

full_deploy_lending_pool ==
    Needs({Provider})
        \o UnlessConfigured("LendingPool", deployLendingPool \o Initialize)
        \o Proxy("LENDING_POOL") \o Save("LendingPool")
        \o UnlessConfigured("LendingPoolConfigurator",
                            deployLendingPoolConfigurator \o Initialize)
        \o Proxy("LENDING_POOL_CONFIGURATOR") \o Save("LendingPoolConfigurator")
        \o deployStableAndVariableTokensHelper
        \o deployATokensAndRatesHelper

\* The handle of an oracle: configured, or deployed a moment ago.
Handle(id) == UnlessConfigured(id, Load(id))

\* rated is the set of tokens that get a market rate.
full_deploy_oracles(rated) ==
    Needs({Provider})
        \o CheckPairs
        \o UnlessConfigured("SturdyOracle", deploySturdyOracle \o WatchPairs)
        \o UnlessConfigured("LendingRateOracle",
               deployLendingRateOracle
                   \o setInitialMarketRatesInRatesOracleByHelper(rated))
        \o Handle("SturdyOracle") \o Point("PRICE_ORACLE")
        \o Handle("LendingRateOracle") \o Point("LENDING_RATE_ORACLE")

full_data_provider == Needs({Provider}) \o deploySturdyProtocolDataProvider

full_deploy_incentives_impl ==
    deploySturdyIncentivesController
        \o deploySturdyToken
        \o deployStableYieldDistributionImpl
        \o deployVariableYieldDistributionImpl
        \o deployYieldDistributorAdapter

full_deploy_LDO_stable_yield_distributor ==
    deployLDOStableYieldDistribution
        \o OwnerCall("LDOStableYieldDistribution", {})

full_deploy_variable_yield_distributor == deployVariableYieldDistribution

------------------------------------------------------------------------------
\* Vaults.  Every task deploys one, registers it and sets its fee to ten per
\* cent; most then set the price sources of what the vault makes.

FeeBearingVault(deploy, id) ==
    deploy \o RegisterVault(id) \o SetTreasuryInfo(id, 1000)

\* A vault of Convex or Aura on a pool token, which issues an internal asset; a
\* ratio of 0 stands for the tasks that set no incentive ratio.
PoolVault(deploy, id, lp, ratio, sym) ==
    FeeBearingVault(deploy, id)
        \o AdminCall(id, {lp})
        \o (IF ratio = 0 THEN <<>> ELSE SetIncentiveRatio(id, ratio))
        \o InternalAsset(sym, id)

\* The internal asset and the pool token have one oracle.
PoolSources(sym, lp, oracle) ==
    << Source(sym, sym, oracle), Source(lp, sym, oracle) >>
FeedSource(token) == << Source(token, token, "") >>
SetPrices(sources) == SetAssetSources(sources, Len(sources))

full_deploy_lido_vault ==
    FeeBearingVault(deployLidoVault, "LidoVault") \o AdminCall("LidoVault", {})

\* One token, one source and two flags.
full_deploy_yearn_reth_wsteth_vault ==
    FeeBearingVault(deployYearnRETHWstETHVaultVault, "YearnRETHWstETHVault")
        \o UnlessFeed("yvRETH_WSTETH", deployRETHWstETHLPOracle)
        \o SetAssetSources(
               << Source("yvRETH_WSTETH", "yvRETH_WSTETH", "RETHWstETHLPOracle") >>, 2)

full_deploy_convex_rocket_pool_eth_vault ==
    PoolVault(deployConvexRocketPoolETHVault, "ConvexRocketPoolETHVault",
              "RETH_WSTETH_LP", 0, "cvxRETH_WSTETH")
        \o UnlessFeed("cvxRETH_WSTETH", deployRETHWstETHLPOracle)
        \o SetPrices(<< Source("cvxRETH_WSTETH", "cvxRETH_WSTETH",
                               "RETHWstETHLPOracle") >>)

full_deploy_convex_frax_3crv_vault ==
    PoolVault(deployConvexFRAX3CRVVault, "ConvexFRAX3CRVVault",
              "FRAX_3CRV_LP", 4000, "cvxFRAX_3CRV")
        \o UnlessFeed("cvxFRAX_3CRV", deployFRAX3CRVPOracle)
        \o SetPrices(PoolSources("cvxFRAX_3CRV", "FRAX_3CRV_LP", "FRAX3CRVOracle")
                     \o FeedSource("CRV") \o FeedSource("CVX"))

full_deploy_convex_steth_vault ==
    PoolVault(deployConvexSTETHVault, "ConvexSTETHVault", "STECRV_LP", 0, "cvxSTECRV")
        \o UnlessFeed("cvxSTECRV", deploySTECRVOracle)
        \o SetPrices(PoolSources("cvxSTECRV", "STECRV_LP", "STECRVOracle"))

full_deploy_convex_dola_3crv_vault ==
    PoolVault(deployConvexDOLA3CRVVault, "ConvexDOLA3CRVVault",
              "DOLA_3CRV_LP", 0, "cvxDOLA_3CRV")
        \o UnlessFeed("cvxDOLA_3CRV", deployDOLA3CRVOracle)
        \o SetPrices(PoolSources("cvxDOLA_3CRV", "DOLA_3CRV_LP", "DOLA3CRVOracle"))

\* Mutant: the incentives take all that the treasury leaves.
full_deploy_convex_mim_3crv_vaultGreedy ==
    PoolVault(deployConvexMIM3CRVVault, "ConvexMIM3CRVVault",
              "MIM_3CRV_LP", 9000, "cvxMIM_3CRV")

full_deploy_convex_mim_3crv_vault ==
    PoolVault(deployConvexMIM3CRVVault, "ConvexMIM3CRVVault",
              "MIM_3CRV_LP", 7500, "cvxMIM_3CRV")
        \o UnlessFeed("cvxMIM_3CRV", deployMIM3CRVOracle)
        \o UnlessFeed("MIM", deployMIMOracle)
        \o SetPrices(PoolSources("cvxMIM_3CRV", "MIM_3CRV_LP", "MIM3CRVOracle")
                     \o << Source("MIM", "MIM", "MIMOracle") >>)

full_deploy_convex_dai_usdc_usdt_susd_vault ==
    PoolVault(deployConvexDAIUSDCUSDTSUSDVault, "ConvexDAIUSDCUSDTSUSDVault",
              "DAI_USDC_USDT_SUSD_LP", 7500, "cvxDAI_USDC_USDT_SUSD")
        \o UnlessFeed("cvxDAI_USDC_USDT_SUSD", deployDAIUSDCUSDTSUSDOracle)
        \o SetPrices(PoolSources("cvxDAI_USDC_USDT_SUSD", "DAI_USDC_USDT_SUSD_LP",
                                 "DAIUSDCUSDTSUSDOracle")
                     \o FeedSource("SUSD"))

full_deploy_convex_hbtc_wbtc_vault ==
    PoolVault(deployConvexHBTCWBTCVault, "ConvexHBTCWBTCVault",
              "HBTC_WBTC_LP", 0, "cvxHBTC_WBTC")
        \o UnlessFeed("cvxHBTC_WBTC", deployHBTCWBTCOracle)
        \o SetPrices(PoolSources("cvxHBTC_WBTC", "HBTC_WBTC_LP", "HBTCWBTCOracle"))

full_deploy_convex_iron_bank_vault ==
    PoolVault(deployConvexIronBankVault, "ConvexIronBankVault",
              "IRON_BANK_LP", 7500, "cvxIRON_BANK")
        \o UnlessFeed("cvxIRON_BANK", deployIronBankOracle)
        \o SetPrices(PoolSources("cvxIRON_BANK", "IRON_BANK_LP", "IronBankOracle"))

full_deploy_convex_frax_usdc_vault ==
    PoolVault(deployConvexFRAXUSDCVault, "ConvexFRAXUSDCVault",
              "FRAX_USDC_LP", 7500, "cvxFRAX_USDC")
        \o UnlessFeed("cvxFRAX_USDC", deployFRAXUSDCOracle)
        \o SetPrices(PoolSources("cvxFRAX_USDC", "FRAX_USDC_LP", "FRAXUSDCOracle")
                     \o FeedSource("FRAX"))

full_deploy_aura_dai_usdc_usdt_vault ==
    PoolVault(deployAuraDAIUSDCUSDTVault, "AuraDAIUSDCUSDTVault",
              "BAL_DAI_USDC_USDT_LP", 7500, "auraDAI_USDC_USDT")
        \o UnlessFeed("auraDAI_USDC_USDT", deployBALDAIUSDCUSDTOracle)
        \o SetPrices(PoolSources("auraDAI_USDC_USDT", "BAL_DAI_USDC_USDT_LP",
                                 "BALDAIUSDCUSDTOracle")
                     \o FeedSource("BAL"))

full_deploy_convex_tusd_fraxbp_vault ==
    PoolVault(deployConvexTUSDFRAXBPVault, "ConvexTUSDFRAXBPVault",
              "TUSD_FRAXBP_LP", 7500, "cvxTUSD_FRAXBP")
        \o UnlessFeed("cvxTUSD_FRAXBP", deployTUSDFRAXBPCOracle)
        \o SetPrices(PoolSources("cvxTUSD_FRAXBP", "TUSD_FRAXBP_LP", "TUSDFRAXBPOracle")
                     \o FeedSource("TUSD"))

full_deploy_aura_bb_a_usd_vault ==
    PoolVault(deployAuraBBAUSDVault, "AuraBBAUSDVault",
              "BAL_BB_A_USD_LP", 7500, "auraBB_A_USD")
        \o UnlessFeed("auraBB_A_USD", deployBALBBAUSDOracle)
        \o UnlessFeed("AURA", deployAURAOracle)
        \o SetPrices(PoolSources("auraBB_A_USD", "BAL_BB_A_USD_LP", "BALBBAUSDOracle")
                     \o FeedSource("BAL") \o << Source("AURA", "AURA", "AURAOracle") >>)

full_deploy_aura_bb_a3_usd_vault ==
    PoolVault(deployAuraBBA3USDVault, "AuraBBA3USDVault",
              "BAL_BB_A3_USD_LP", 7500, "auraBB_A3_USD")
        \o UnlessFeed("auraBB_A3_USD", deployBALBBA3USDOracle)
        \o UnlessFeed("AURA", deployAURAOracle)
        \o SetPrices(PoolSources("auraBB_A3_USD", "BAL_BB_A3_USD_LP", "BALBBA3USDOracle")
                     \o FeedSource("BAL") \o << Source("AURA", "AURA", "AURAOracle") >>)

------------------------------------------------------------------------------
\* Vaults of the Fantom market

full_deploy_yearn_vault == FeeBearingVault(deployYearnVault, "YearnVault")

full_deploy_beefy_eth_vault ==
    FeeBearingVault(deployBeefyETHVault, "BeefyETHVault")
        \o SetPrices(FeedSource("mooWETH"))

full_deploy_yearn_weth_vault == FeeBearingVault(deployYearnWETHVault, "YearnWETHVault")

full_deploy_yearn_wbtc_vault == FeeBearingVault(deployYearnWBTCVault, "YearnWBTCVault")

full_deploy_yearn_boo_vault == FeeBearingVault(deployYearnBOOVault, "YearnBOOVault")

full_deploy_tomb_ftm_beefy_vault ==
    FeeBearingVault(deployTombFTMBeefyVault, "TombFtmBeefyVault")
        \o UnlessFeed("TOMB", deployTombOracle)
        \o UnlessFeed("mooTOMB_FTM", deployTombFtmLPOracle)
        \o SetPrices(<< Source("TOMB", "TOMB", "TombOracle"),
                        Source("mooTOMB_FTM", "mooTOMB_FTM", "TombFtmLPOracle") >>)

full_deploy_tomb_mimatic_beefy_vault ==
    FeeBearingVault(deployTombMiMaticBeefyVault, "TombMiMaticBeefyVault")
        \o UnlessFeed("mooTOMB_MIMATIC", deployTombMiMaticLPOracle)
        \o SetPrices(FeedSource("MIMATIC")
                     \o << Source("mooTOMB_MIMATIC", "mooTOMB_MIMATIC",
                                  "TombMiMaticLPOracle") >>)

full_deploy_yearn_fbeets_vault ==
    FeeBearingVault(deployYearnFBeetsVault, "YearnFBEETSVault")
        \o AdminCall("YearnFBEETSVault", {}) \o AdminCall("YearnFBEETSVault", {})
        \o AdminCall("YearnFBEETSVault", {})
        \o UnlessFeed("yvfBEETS", deployFBeetsOracle)
        \o UnlessFeed("BEETS", deployBeetsOracle)
        \o SetPrices(<< Source("yvfBEETS", "yvfBEETS", "FBeetsOracle"),
                        Source("BEETS", "BEETS", "BeetsOracle") >>)

full_deploy_yearn_link_vault ==
    FeeBearingVault(deployYearnLINKVault, "YearnLINKVault")
        \o SetPrices(FeedSource("yvLINK"))

full_deploy_yearn_crv_vault ==
    FeeBearingVault(deployYearnCRVVault, "YearnCRVVault")
        \o SetPrices(FeedSource("yvCRV"))

full_deploy_yearn_spell_vault ==
    FeeBearingVault(deployYearnSPELLVault, "YearnSPELLVault")
        \o SetPrices(FeedSource("yvSPELL"))

full_deploy_based_mimatic_beefy_vault ==
    FeeBearingVault(deployBasedMiMaticBeefyVault, "BasedMiMaticBeefyVault")
        \o UnlessFeed("BASED", deployBasedOracle)
        \o UnlessFeed("mooBASED_MIMATIC", deployBasedMiMaticLPOracle)
        \o SetPrices(<< Source("BASED", "BASED", "BasedOracle"),
                        Source("mooBASED_MIMATIC", "mooBASED_MIMATIC",
                               "BasedMiMaticLPOracle") >>)

full_deploy_beefy_mim2crv_vault ==
    FeeBearingVault(deployBeefyMIM2CRVVault, "BeefyMIM2CRVVault")
        \o UnlessFeed("mooMIM_2CRV", deployMIM2CRVLPOracle)
        \o SetPrices(<< Source("mooMIM_2CRV", "mooMIM_2CRV", "MIM2CRVOracle") >>)

------------------------------------------------------------------------------
\* Reserves

\* Mutant: one vault serves two reserves.
yieldAddressesCrossed(pool) ==
    IF pool = "Sturdy"
    THEN [cvxFRAX_3CRV |-> "ConvexFRAX3CRVVault", cvxMIM_3CRV |-> "ConvexFRAX3CRVVault",
          cvxDAI_USDC_USDT_SUSD |-> "ConvexDAIUSDCUSDTSUSDVault",
          cvxFRAX_USDC |-> "ConvexFRAXUSDCVault",
          cvxTUSD_FRAXBP |-> "ConvexTUSDFRAXBPVault",
          auraBB_A3_USD |-> "AuraBBA3USDVault"]
    ELSE [yvWFTM |-> "YearnVault", yvWETH |-> "YearnVault",
          yvWBTC |-> "YearnWBTCVault", yvBOO |-> "YearnBOOVault",
          mooTOMB_MIMATIC |-> "TombMiMaticBeefyVault",
          mooBASED_MIMATIC |-> "BasedMiMaticBeefyVault",
          yvfBEETS |-> "YearnFBEETSVault", yvLINK |-> "YearnLINKVault",
          yvCRV |-> "YearnCRVVault", yvSPELL |-> "YearnSPELLVault"]

\* The vault that earns the yield of a collateral, by market.
yieldAddresses(pool) ==
    IF pool = "Sturdy"
    THEN [cvxFRAX_3CRV |-> "ConvexFRAX3CRVVault", cvxMIM_3CRV |-> "ConvexMIM3CRVVault",
          cvxDAI_USDC_USDT_SUSD |-> "ConvexDAIUSDCUSDTSUSDVault",
          cvxFRAX_USDC |-> "ConvexFRAXUSDCVault",
          cvxTUSD_FRAXBP |-> "ConvexTUSDFRAXBPVault",
          auraBB_A3_USD |-> "AuraBBA3USDVault"]
    ELSE [yvWFTM |-> "YearnVault", yvWETH |-> "YearnWETHVault",
          yvWBTC |-> "YearnWBTCVault", yvBOO |-> "YearnBOOVault",
          mooTOMB_MIMATIC |-> "TombMiMaticBeefyVault",
          mooBASED_MIMATIC |-> "BasedMiMaticBeefyVault",
          yvfBEETS |-> "YearnFBEETSVault", yvLINK |-> "YearnLINKVault",
          yvCRV |-> "YearnCRVVault", yvSPELL |-> "YearnSPELLVault"]

\* After the reserves: the collateral manager, the slot 0x01 and the providers
\* of the user interface.
InstallManagerAndProviders ==
    UnlessConfigured("LendingPoolCollateralManager", deployLendingPoolCollateralManager)
        \o Point("LENDING_POOL_COLLATERAL_MANAGER")
        \o Load("SturdyProtocolDataProvider") \o Point("0x01")
        \o deployWalletBalancerProvider
        \o deployUiPoolDataProvider
        \o deployUiIncentiveDataProvider

full_initialize_lending_pool(pool, config, listed) ==
    Needs({"StakedTokenIncentivesController", Provider, "SturdyProtocolDataProvider"})
        \o ReadAdmin
        \o Needs(Range(yieldAddresses(pool)))
        \o initReservesByHelper(config, listed, yieldAddresses(pool))
        \o configureReservesByHelper(config, listed)
        \o InstallManagerAndProviders

\* Mutant: one pool token stands behind two internal assets.
reserveExternalAssetsShared(pool) ==
    IF pool = "Sturdy"
    THEN [stETH |-> "Lido", cvxFRAX_3CRV |-> "FRAX_3CRV_LP",
          cvxMIM_3CRV |-> "MIM_3CRV_LP",
          cvxDAI_USDC_USDT_SUSD |-> "DAI_USDC_USDT_SUSD_LP",
          cvxFRAX_USDC |-> "FRAX_3CRV_LP", cvxTUSD_FRAXBP |-> "TUSD_FRAXBP_LP",
          auraBB_A3_USD |-> "BAL_BB_A3_USD_LP"]
    ELSE [yvWFTM |-> "WFTM"]

\* The token of others behind an internal asset, by market.
reserveExternalAssets(pool) ==
    IF pool = "Sturdy"
    THEN [stETH |-> "Lido", cvxFRAX_3CRV |-> "FRAX_3CRV_LP",
          cvxMIM_3CRV |-> "MIM_3CRV_LP",
          cvxDAI_USDC_USDT_SUSD |-> "DAI_USDC_USDT_SUSD_LP",
          cvxFRAX_USDC |-> "FRAX_USDC_LP", cvxTUSD_FRAXBP |-> "TUSD_FRAXBP_LP",
          auraBB_A3_USD |-> "BAL_BB_A3_USD_LP"]
    ELSE [yvWFTM |-> "WFTM", yvWETH |-> "WETH", yvWBTC |-> "WBTC", yvBOO |-> "BOO",
          mooTOMB_MIMATIC |-> "TOMB_MIMATIC_LP", mooBASED_MIMATIC |-> "BASED_MIMATIC_LP",
          yvfBEETS |-> "fBEETS", yvLINK |-> "LINK", yvCRV |-> "CRV", yvSPELL |-> "SPELL"]

\* The vault that takes an external asset in; unlike the reserve's yield address
\* it is the Lido vault for stETH.
acceptableVaults(pool) ==
    IF pool = "Sturdy"
    THEN [sym \in {"stETH"} |-> "LidoVault"] @@ yieldAddresses(pool)
    ELSE yieldAddresses(pool)

\* Every collateral that has an address is made known to the adapter.
AddCollateralAssets(config, listed, externals, vaults) ==
    LET collaterals == SelectSeq(Listed(config, listed),
                                 LAMBDA r : r[2].aTokenImpl = "ATokenForCollateral")
    IN  FlattenSeq([k \in DOMAIN collaterals |->
            LET sym == collaterals[k][1]
            IN  IF sym \in DOMAIN externals
                THEN AddCollateralAsset(externals[sym], sym, vaults[sym])
                ELSE ThrowUnless("nothing")])

full_deploy_collateral_adapter(pool, config, listed) ==
    deployCollateralAdapter
        \o Needs(Range(acceptableVaults(pool)))
        \o AddCollateralAssets(config, listed, reserveExternalAssets(pool),
                               acceptableVaults(pool))

------------------------------------------------------------------------------
\* Around the pool

full_deploy_liquidator(net) ==
    Needs({Provider}) \o (IF net = "ftm" THEN deployFTMLiquidator ELSE deployETHLiquidator)

full_deploy_vault_helper == Needs({Provider}) \o deployVaultHelper \o deployVaultWhitelist

\* Mutant: nobody is made the processor of the yield.
full_deploy_yield_managerUnprocessed ==
    deployYieldManager \o RegisterVault("YieldManager")

full_deploy_yield_manager ==
    deployYieldManager
        \o RegisterVault("YieldManager")
        \o AdminCall("YieldManager", {"USDC"})
        \o AdminCall("YieldManager", {"CRV"}) \o AdminCall("YieldManager", {"CVX"})
        \o AdminCall("YieldManager", {"WETH"}) \o AdminCall("YieldManager", {"BAL"})
        \o AdminCall("YieldManager", {"USDC", "DAI"})
        \o AdminCall("YieldManager", {"USDC", "USDT"})
        \o PointToSigner("YIELD_PROCESSOR")

\* A swapper for the internal asset of a vault.
LevSwapper(vault, deploy, sym, id) ==
    Needs({vault}) \o deploy \o RegisterLevSwapper(sym, id)

\* The last of them, of a Balancer pool.
auraBBA3USDLeverage ==
    LevSwapper("AuraBBA3USDVault", deployAURABBA3USDLevSwap,
               "auraBB_A3_USD", "AURABBA3USDLevSwap")

full_deploy_leverage_swap_manager ==
    Needs({"SturdyOracle", Provider})
        \o deployLeverageSwapManager
        \o LevSwapper("ConvexFRAX3CRVVault", deployFRAX3CRVLevSwap,
                      "cvxFRAX_3CRV", "FRAX3CRVLevSwap")
        \o LevSwapper("ConvexDAIUSDCUSDTSUSDVault", deployDAIUSDCUSDTSUSDLevSwap,
                      "cvxDAI_USDC_USDT_SUSD", "DAIUSDCUSDTSUSDLevSwap")
        \o LevSwapper("ConvexFRAXUSDCVault",
                      deployFRAXUSDCLevSwap \o CopySource("FRAX_USDC_LP", "cvxFRAX_USDC"),
                      "cvxFRAX_USDC", "FRAXUSDCLevSwap")
        \o LevSwapper("ConvexMIM3CRVVault",
                      deployMIM3CRVLevSwap \o CopySource("MIM_3CRV_LP", "cvxMIM_3CRV"),
                      "cvxMIM_3CRV", "MIM3CRVLevSwap")
        \o LevSwapper("ConvexTUSDFRAXBPVault",
                      deployTUSDFRAXBPLevSwap \o CopySource("TUSD_FRAXBP_LP", "cvxTUSD_FRAXBP"),
                      "cvxTUSD_FRAXBP", "TUSDFRAXBPLevSwap")
        \o auraBBA3USDLeverage

\* The reserves whose reward rate the provider computes.
full_deploy_sturdy_apr_data_provider ==
    Needs({Provider, "SturdyProtocolDataProvider"})
        \o deploySturdyAPRDataProvider
        \o Point("APR_PROVIDER")
        \o OwnerCall("SturdyAPRDataProvider", {"cvxFRAX_3CRV"})
        \o OwnerCall("SturdyAPRDataProvider", {"cvxMIM_3CRV"})
        \o OwnerCall("SturdyAPRDataProvider", {"cvxDAI_USDC_USDT_SUSD"})
        \o OwnerCall("SturdyAPRDataProvider", {"cvxFRAX_USDC"})

=============================================================================

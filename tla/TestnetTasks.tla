----------------------------- MODULE TestnetTasks -----------------------------
(***************************************************************************)
(* src/tasks/testnet: the tasks of the migrations to goerli and to the     *)
(* test network of Fantom, where they differ from those of FullTasks.  The *)
(* prices come from one PriceOracle filled with constants.                 *)
(***************************************************************************)
EXTENDS FullTasks

testnet_deploy_address_provider_registry ==
    UnlessConfigured("ProviderRegistry", deployLendingPoolAddressesProviderRegistry)

testnet_deploy_address_provider(configured) ==
    deployLendingPoolAddressesProvider
        \o add_market_to_registry(configured)
        \o SetAdmin

\* The implementation of the configurator is not initialized.
testnet_deploy_lending_pool ==
    Needs({Provider})
        \o UnlessConfigured("LendingPool", deployLendingPool \o Initialize)
        \o Proxy("LENDING_POOL") \o Save("LendingPool")
        \o UnlessConfigured("LendingPoolConfigurator", deployLendingPoolConfigurator)
        \o Proxy("LENDING_POOL_CONFIGURATOR") \o Save("LendingPoolConfigurator")
        \o deployStableAndVariableTokensHelper
        \o deployATokensAndRatesHelper

\* The symbols of MOCK_CHAINLINK_AGGREGATORS_PRICES, in their order.
AllAssetsInitialPrices ==
    <<"DAI", "USDC", "fUSDT", "USDT", "stETH", "WETH", "mooWETH", "yvWFTM", "yvWETH",
      "yvWBTC", "yvBOO", "TOMB", "BASED", "MIMATIC", "mooTOMB_FTM", "mooTOMB_MIMATIC",
      "mooBASED_MIMATIC", "mooMIM_2CRV", "yvLINK", "USD", "BEETS", "yvfBEETS", "yvCRV",
      "yvSPELL", "yvRETH_WSTETH", "cvxRETH_WSTETH", "cvxFRAX_3CRV", "cvxSTECRV",
      "cvxDOLA_3CRV", "cvxMIM_3CRV", "cvxDAI_USDC_USDT_SUSD", "cvxHBTC_WBTC",
      "cvxIRON_BANK", "cvxFRAX_USDC", "auraDAI_USDC_USDT", "cvxTUSD_FRAXBP",
      "auraBB_A_USD", "auraBB_A3_USD">>

\* The symbols of the table of addresses the task passes with the prices.
AssetsWithAddresses ==
    Range(AllAssetsInitialPrices)
        \ {"TOMB", "BASED", "MIMATIC", "BEETS", "auraBB_A_USD", "auraBB_A3_USD"}

testnet_deploy_oracles(rated, listed) ==
    Needs({Provider})
        \o deployPriceOracle
        \o OwnerCall("PriceOracle", {})
        \o setInitialAssetPricesInOracle(AllAssetsInitialPrices, AssetsWithAddresses,
                                         listed \cup {"USD"})
        \o UnlessConfigured("LendingRateOracle",
               deployLendingRateOracle
                   \o setInitialMarketRatesInRatesOracleByHelper(rated))
        \o Load("PriceOracle") \o Point("PRICE_ORACLE")
        \o Handle("LendingRateOracle") \o Point("LENDING_RATE_ORACLE")

testnet_data_provider == Needs({Provider}) \o deploySturdyProtocolDataProvider

testnet_deploy_incentives_impl == deploySturdyIncentivesController \o deploySturdyToken

------------------------------------------------------------------------------
\* Vaults: deployed and registered, and the tokens of some given a price.

PlainVault(deploy, id) == deploy \o RegisterVault(id)

testnet_deploy_lido_vault == PlainVault(deployLidoVault, "LidoVault")
testnet_deploy_yearn_vault == PlainVault(deployYearnVault, "YearnVault")
testnet_deploy_beefy_eth_vault ==
    PlainVault(deployBeefyETHVault, "BeefyETHVault") \o SetAssetPrice("mooWETH")
testnet_deploy_yearn_weth_vault == PlainVault(deployYearnWETHVault, "YearnWETHVault")
testnet_deploy_yearn_wbtc_vault == PlainVault(deployYearnWBTCVault, "YearnWBTCVault")
testnet_deploy_yearn_boo_vault == PlainVault(deployYearnBOOVault, "YearnBOOVault")
testnet_deploy_tomb_ftm_beefy_vault ==
    PlainVault(deployTombFTMBeefyVault, "TombFtmBeefyVault")
        \o SetAssetPrice("TOMB") \o SetAssetPrice("mooTOMB_FTM")
testnet_deploy_tomb_mimatic_beefy_vault ==
    PlainVault(deployTombMiMaticBeefyVault, "TombMiMaticBeefyVault")
        \o SetAssetPrice("MIMATIC") \o SetAssetPrice("mooTOMB_MIMATIC")
testnet_deploy_yearn_fbeets_vault ==
    PlainVault(deployYearnFBeetsVault, "YearnFBEETSVault")
        \o SetAssetPrice("BEETS") \o SetAssetPrice("yvfBEETS")
testnet_deploy_yearn_link_vault ==
    PlainVault(deployYearnLINKVault, "YearnLINKVault") \o SetAssetPrice("yvLINK")
testnet_deploy_yearn_crv_vault ==
    PlainVault(deployYearnCRVVault, "YearnCRVVault") \o SetAssetPrice("yvCRV")
testnet_deploy_yearn_spell_vault ==
    PlainVault(deployYearnSPELLVault, "YearnSPELLVault") \o SetAssetPrice("yvSPELL")
testnet_deploy_based_mimatic_beefy_vault ==
    PlainVault(deployBasedMiMaticBeefyVault, "BasedMiMaticBeefyVault")
        \o SetAssetPrice("BASED") \o SetAssetPrice("mooBASED_MIMATIC")

------------------------------------------------------------------------------
\* Reserves

testnetVaults(pool) ==
    IF pool = "Sturdy"
    THEN <<>>
    ELSE [yvWFTM |-> "YearnVault", yvWETH |-> "YearnWETHVault",
          yvWBTC |-> "YearnWBTCVault", yvBOO |-> "YearnBOOVault",
          mooTOMB_FTM |-> "TombFtmBeefyVault",
          mooTOMB_MIMATIC |-> "TombMiMaticBeefyVault",
          yvFBEETS |-> "YearnFBEETSVault", yvLINK |-> "YearnLINKVault",
          yvCRV |-> "YearnCRVVault", yvSPELL |-> "YearnSPELLVault"]

\* The task passes the admin where initReservesByHelper expects the treasury, so
\* every later argument is one place off: the treasury arrives as the table of
\* yield vaults, and no reserve has one.
testnet_initialize_lending_pool(pool, config, listed) ==
    Needs({"StakedTokenIncentivesController", Provider, "SturdyProtocolDataProvider"})
        \o ReadAdmin
        \o Needs(Range(testnetVaults(pool)))
        \o initReservesByHelper(config, listed, <<>>)
        \o configureReservesByHelper(config, listed)
        \o InstallManagerAndProviders

testnetExternalAssets(pool) ==
    IF pool = "Sturdy"
    THEN [stETH |-> "Lido"]
    ELSE [yvWFTM |-> "WFTM", yvWETH |-> "WETH", yvWBTC |-> "WBTC", yvBOO |-> "BOO",
          mooTOMB_FTM |-> "TOMB_FTM_LP", mooTOMB_MIMATIC |-> "TOMB_MIMATIC_LP",
          yvFBEETS |-> "fBEETS", yvLINK |-> "LINK", yvCRV |-> "CRV", yvSPELL |-> "SPELL"]

testnetAcceptableVaults(pool) ==
    IF pool = "Sturdy" THEN [stETH |-> "LidoVault"] ELSE testnetVaults(pool)

testnet_deploy_collateral_adapter(pool, config, listed) ==
    deployCollateralAdapter
        \o Needs(Range(testnetAcceptableVaults(pool)))
        \o AddCollateralAssets(config, listed, testnetExternalAssets(pool),
                               testnetAcceptableVaults(pool))

=============================================================================

-------------------------- MODULE ContractsDeployments --------------------------
(***************************************************************************)
(* src/helpers/contracts-deployments.ts: every deploy function as the      *)
(* script it runs.  Constructor arguments and the verification on          *)
(* Etherscan, which change neither the file nor the provider, are left     *)
(* out; what is kept is the order of deployment, initialization, slot      *)
(* assignments and records, because the process may stop between any two.  *)
(***************************************************************************)
EXTENDS DeployInstructions

\* A contract recorded under the name of its own kind.
Recorded(kind) == Deployed(kind, kind)

------------------------------------------------------------------------------
\* Libraries.  Each is deployed once and found in the file by later runs.

deployReserveLogicLibrary == UnlessSaved("ReserveLogic", Recorded("ReserveLogic"))
deployGenericLogic == UnlessSaved("GenericLogic", Recorded("GenericLogic"))
deployValidationLogic == UnlessSaved("ValidationLogic", Recorded("ValidationLogic"))
deployUniswapAdapterLibrary == UnlessSaved("UniswapAdapter", Recorded("UniswapAdapter"))
deployCurveswapAdapterLibrary ==
    UnlessSaved("CurveswapAdapter", PointTo("CURVE_ADDRESS_PROVIDER",
        "CurveswapAddressProvider") \o Recorded("CurveswapAdapter"))
deployBalancerswapAdapterLibrary ==
    UnlessSaved("BalancerswapAdapter", Recorded("BalancerswapAdapter"))
deployUniswapAdapter2Library ==
    UnlessSaved("UniswapAdapter2", Recorded("UniswapAdapter2"))
deployCurveswapAdapter2Library ==
    UnlessSaved("CurveswapAdapter2", Recorded("CurveswapAdapter2"))
deployBalancerswapAdapter2Library ==
    UnlessSaved("BalancerswapAdapter2", Recorded("BalancerswapAdapter2"))
deploySturdyLibraries ==
    deployReserveLogicLibrary \o deployGenericLogic \o deployValidationLogic
deployLidoVaultLibraries == deployCurveswapAdapterLibrary
deployYearnRETHWstETHVaultLibraries == deployCurveswapAdapterLibrary
deploySwapAdapterLibraries ==
    deployUniswapAdapterLibrary \o deployCurveswapAdapterLibrary \o
        deployBalancerswapAdapterLibrary
deploySwapAdapter2Libraries ==
    deployUniswapAdapter2Library \o deployCurveswapAdapter2Library \o
        deployBalancerswapAdapter2Library

------------------------------------------------------------------------------
\* The provider, the pool, its tokens and helpers

deployLendingPoolAddressesProvider == Recorded("LendingPoolAddressesProvider")
deployLendingPoolAddressesProviderRegistry ==
    Recorded("LendingPoolAddressesProviderRegistry")
deployLendingPoolConfiguratorImpl ==
    Deployed("LendingPoolConfigurator", "LendingPoolConfiguratorImpl")
deployLendingPoolConfigurator ==
    Deployed("LendingPoolConfigurator", "LendingPoolConfiguratorImpl")
deployLendingPoolImpl ==
    deploySturdyLibraries \o Deployed("LendingPool", "LendingPoolImpl")
deployLendingPool ==
    deploySturdyLibraries \o Deployed("LendingPool", "LendingPoolImpl") \o
        Save("LendingPoolImpl")
deployLendingPoolCollateralManagerImpl ==
    Deployed("LendingPoolCollateralManager", "LendingPoolCollateralManagerImpl")
deployLendingPoolCollateralManager ==
    Deployed("LendingPoolCollateralManager",
        "LendingPoolCollateralManagerImpl") \o
        Save("LendingPoolCollateralManager")
deploySturdyProtocolDataProvider == Recorded("SturdyProtocolDataProvider")
deployDefaultReserveInterestRateStrategy ==
    Recorded("DefaultReserveInterestRateStrategy")
deployStableDebtToken == Recorded("StableDebtToken") \o Initialize
deployVariableDebtToken == Recorded("VariableDebtToken") \o Initialize
deployGenericStableDebtToken == Recorded("StableDebtToken")
deployGenericVariableDebtToken == Recorded("VariableDebtToken")
deployGenericAToken == Recorded("AToken") \o Initialize
deployCollateralAToken == Recorded("ATokenForCollateral") \o Initialize
deployGenericATokenImpl == Recorded("AToken")
deployCollateralATokenImpl == Recorded("ATokenForCollateral")
deployStableAndVariableTokensHelper == Recorded("StableAndVariableTokensHelper")
deployATokensAndRatesHelper == Recorded("ATokensAndRatesHelper")
deployWalletBalancerProvider == Recorded("WalletBalanceProvider")
deployUiPoolDataProvider == Recorded("UiPoolDataProvider")
deployUiIncentiveDataProvider == Recorded("UiIncentiveDataProvider")
\* Mutant: recorded under the name of the collateral manager.
deployCollateralAdapterAsManager ==
    Proxied("CollateralAdapter", "CollateralAdapterImpl", "COLLATERAL_ADAPTER",
        <<>>, "LendingPoolCollateralManager")

deployCollateralAdapter ==
    Proxied("CollateralAdapter", "CollateralAdapterImpl", "COLLATERAL_ADAPTER",
        <<>>, "CollateralAdapter")

------------------------------------------------------------------------------
\* Price and rate oracles

deployPriceOracle == Recorded("PriceOracle")
deployLendingRateOracle == Recorded("LendingRateOracle")
deployMockAggregator == Recorded("MockAggregator")
deploySturdyOracle == Recorded("SturdyOracle")
deployBooOracle == Recorded("BooOracle")
deployTombOracle == Recorded("TombOracle")
deployTombFtmLPOracle == Recorded("TombFtmLPOracle")
deployTombMiMaticLPOracle == Recorded("TombMiMaticLPOracle")
deployFBeetsOracle == Recorded("FBeetsOracle")
deployBeetsOracle == Recorded("BeetsOracle")
deployBasedOracle == Recorded("BasedOracle")
deployBasedMiMaticLPOracle == Recorded("BasedMiMaticLPOracle")
deployMIM2CRVLPOracle == Recorded("MIM2CRVOracle")
deployRETHWstETHLPOracle == Deployed("CrvREthWstETHOracle", "RETHWstETHLPOracle")
deployFRAX3CRVPOracle == Recorded("FRAX3CRVOracle")
deploySTECRVOracle == Recorded("STECRVOracle")
deployDOLA3CRVOracle == Recorded("DOLA3CRVOracle")
deployMIMOracle == Recorded("MIMOracle")
deployMIM3CRVOracle == Recorded("MIM3CRVOracle")
deployDAIUSDCUSDTSUSDOracle == Recorded("DAIUSDCUSDTSUSDOracle")
deployHBTCWBTCOracle == Recorded("HBTCWBTCOracle")
deployIronBankOracle == Recorded("IronBankOracle")
deployFRAXUSDCOracle == Recorded("FRAXUSDCOracle")
deployBALDAIUSDCUSDTOracle == Recorded("BALDAIUSDCUSDTOracle")
deployTUSDFRAXBPCOracle == Recorded("TUSDFRAXBPOracle")
deployBALBBAUSDOracle == Recorded("BALBBAUSDOracle")
deployBALBBA3USDOracle == Recorded("BALBBA3USDOracle")
deployAURAOracle == Recorded("AURAOracle")

------------------------------------------------------------------------------
\* Vaults

deployLidoVaultImpl ==
    deployLidoVaultLibraries \o Deployed("LidoVault", "LidoVaultImpl")
\* Mutant: a vault found in the file is used again, like a library.
deployLidoVaultOnce ==
    UnlessSaved("LidoVault", deployLidoVaultLibraries \o Proxied("LidoVault",
        "LidoVaultImpl", "LIDO_VAULT", PointTo("LIDO", "Lido") \o
        PointTo("STETH_ETH_POOL", "CurveswapLidoPool") \o PointTo("uniswapRouter",
        "UniswapRouter") \o PointTo("WETH", "WETH"), "LidoVault"))

deployLidoVault ==
    deployLidoVaultLibraries \o Proxied("LidoVault", "LidoVaultImpl",
        "LIDO_VAULT", PointTo("LIDO", "Lido") \o PointTo("STETH_ETH_POOL",
        "CurveswapLidoPool") \o PointTo("uniswapRouter", "UniswapRouter") \o
        PointTo("WETH", "WETH"), "LidoVault")
deployYearnRETHWstETHVaultImpl ==
    deployYearnRETHWstETHVaultLibraries \o Deployed("YearnRETHWstETHVault",
        "YearnRETHWstETHVaultImpl")
deployYearnRETHWstETHVaultVault ==
    deployYearnRETHWstETHVaultLibraries \o Proxied("YearnRETHWstETHVault",
        "YearnRETHWstETHVaultImpl", "YEARN_RETH_WSTETH_VAULT",
        PointTo("YVRETH_WSTETH", "YearnRETHWstETHVault") \o
        PointTo("RETH_WSTETH", "RETH_WSTETH_LP") \o PointTo("WSTETH", "WSTETH"),
        "YearnRETHWstETHVault")
deployConvexRocketPoolETHVaultImpl ==
    Deployed("ConvexCurveLPVault", "ConvexRocketPoolETHVaulttImpl")
deployConvexRocketPoolETHVault ==
    Proxied("ConvexCurveLPVault", "ConvexRocketPoolETHVaulttImpl",
        "CONVEX_ROCKET_POOL_ETH_VAULT", PointTo("RETH_WSTETH",
        "RETH_WSTETH_LP") \o PointTo("WSTETH", "WSTETH") \o PointTo("CRV",
        "CRV") \o PointTo("CVX", "CVX"), "ConvexRocketPoolETHVault")
deployConvexFRAX3CRVVaultImpl ==
    Deployed("ConvexCurveLPVault", "ConvexFRAX3CRVVaultImpl")
deployConvexFRAX3CRVVault ==
    Proxied("ConvexCurveLPVault", "ConvexFRAX3CRVVaultImpl",
        "CONVEX_FRAX_3CRV_VAULT", PointTo("CRV", "CRV") \o PointTo("CVX",
        "CVX"), "ConvexFRAX3CRVVault")
deployConvexSTETHVaultImpl == Deployed("ConvexCurveLPVault", "ConvexSTETHVaultImpl")
deployConvexSTETHVault ==
    Proxied("ConvexCurveLPVault", "ConvexSTETHVaultImpl", "CONVEX_STETH_VAULT",
        <<>>, "ConvexSTETHVault")
deployConvexDOLA3CRVVaultImpl ==
    Deployed("ConvexCurveLPVault", "ConvexDOLA3CRVVaultImpl")
deployConvexDOLA3CRVVault ==
    Proxied("ConvexCurveLPVault", "ConvexDOLA3CRVVaultImpl",
        "CONVEX_DOLA_3CRV_VAULT", <<>>, "ConvexDOLA3CRVVault")
deployConvexMIM3CRVVaultImpl == Deployed("ConvexCurveLPVault", "ConvexMIM3CRVVaultImpl")
deployConvexMIM3CRVVault ==
    Proxied("ConvexCurveLPVault", "ConvexMIM3CRVVaultImpl",
        "CONVEX_MIM_3CRV_VAULT", <<>>, "ConvexMIM3CRVVault")
deployConvexDAIUSDCUSDTSUSDVaultImpl ==
    Deployed("ConvexCurveLPVault", "ConvexDAIUSDCUSDTSUSDVaultImpl")
deployConvexDAIUSDCUSDTSUSDVault ==
    Proxied("ConvexCurveLPVault", "ConvexDAIUSDCUSDTSUSDVaultImpl",
        "CONVEX_DAI_USDC_USDT_SUSD_VAULT", <<>>, "ConvexDAIUSDCUSDTSUSDVault")
deployConvexHBTCWBTCVaultImpl ==
    Deployed("ConvexCurveLPVault", "ConvexHBTCWBTCVaultImpl")
deployConvexHBTCWBTCVault ==
    Proxied("ConvexCurveLPVault", "ConvexHBTCWBTCVaultImpl",
        "CONVEX_HBTC_WBTC_VAULT", <<>>, "ConvexHBTCWBTCVault")
deployConvexIronBankVaultImpl ==
    Deployed("ConvexCurveLPVault", "ConvexIronBankVaultImpl")
deployConvexIronBankVault ==
    Proxied("ConvexCurveLPVault", "ConvexIronBankVaultImpl",
        "CONVEX_IRON_BANK_VAULT", <<>>, "ConvexIronBankVault")
deployConvexFRAXUSDCVaultImpl ==
    Deployed("ConvexCurveLPVault", "ConvexFRAXUSDCVaultImpl")
deployConvexFRAXUSDCVault ==
    Proxied("ConvexCurveLPVault", "ConvexFRAXUSDCVaultImpl",
        "CONVEX_FRAX_USDC_VAULT", <<>>, "ConvexFRAXUSDCVault")
deployAuraDAIUSDCUSDTVault ==
    Proxied("AuraBalancerLPVault", "AuraDAIUSDCUSDTVaultImpl",
        "AURA_DAI_USDC_USDT_VAULT", <<>>, "AuraDAIUSDCUSDTVault")
deployConvexTUSDFRAXBPVaultImpl ==
    Deployed("ConvexCurveLPVault2", "ConvexTUSDFRAXBPVaultImpl")
deployConvexTUSDFRAXBPVault ==
    Proxied("ConvexCurveLPVault2", "ConvexTUSDFRAXBPVaultImpl",
        "CONVEX_TUSD_FRAXBP_VAULT", <<>>, "ConvexTUSDFRAXBPVault")
deployAuraBBAUSDVault ==
    Proxied("AuraBalancerLPVault", "AuraBBAUSDVaultImpl", "AURA_BB_A_USD_VAULT",
        <<>>, "AuraBBAUSDVault")
deployAuraBBA3USDVaultImpl == Deployed("AuraBalancerLPVault", "AuraBBA3USDVaultImpl")
deployAuraBBA3USDVault ==
    Proxied("AuraBalancerLPVault", "AuraBBA3USDVaultImpl",
        "AURA_BB_A3_USD_VAULT", <<>>, "AuraBBA3USDVault")
deployYearnVaultImpl == Deployed("YearnVault", "YearnVaultImpl")
deployYearnVault ==
    ProxiedUnsealed("YearnVault", "YearnVaultImpl", "YEARN_VAULT",
        PointTo("YVWFTM", "YearnVaultFTM") \o PointTo("uniswapRouter",
        "UniswapRouter") \o PointTo("WFTM", "WFTM"), "YearnVault")
deployYearnWETHVaultImpl == Deployed("YearnWETHVault", "YearnWETHVaultImpl")
deployYearnWETHVault ==
    ProxiedUnsealed("YearnWETHVault", "YearnWETHVaultImpl", "YEARN_WETH_VAULT",
        PointTo("YVWETH", "YearnWETHVaultFTM") \o PointTo("WETH", "WETH"),
        "YearnWETHVault")
deployYearnWBTCVaultImpl == Deployed("YearnWBTCVault", "YearnWBTCVaultImpl")
deployYearnWBTCVault ==
    ProxiedUnsealed("YearnWBTCVault", "YearnWBTCVaultImpl", "YEARN_WBTC_VAULT",
        PointTo("YVWBTC", "YearnWBTCVaultFTM") \o PointTo("WBTC", "WBTC"),
        "YearnWBTCVault")
deployYearnBOOVaultImpl == Deployed("YearnBOOVault", "YearnBOOVaultImpl")
deployYearnBOOVault ==
    ProxiedUnsealed("YearnBOOVault", "YearnBOOVaultImpl", "YEARN_BOO_VAULT",
        PointTo("YVBOO", "YearnBOOVaultFTM") \o PointTo("BOO", "BOO"),
        "YearnBOOVault")
deployTombFTMBeefyVaultImpl == Deployed("TombFtmBeefyVault", "TombFtmBeefyVaultImpl")
deployTombFTMBeefyVault ==
    ProxiedUnsealed("TombFtmBeefyVault", "TombFtmBeefyVaultImpl",
        "BEEFY_TOMB_FTM_VAULT", PointTo("mooTombTOMB-FTM",
        "BeefyVaultTOMB_FTM") \o PointTo("TOMB_FTM_LP", "TOMB_FTM_LP") \o
        PointTo("TOMB", "TOMB"), "TombFtmBeefyVault")
deployTombMiMaticBeefyVaultImpl ==
    Deployed("TombMimaticBeefyVault", "TombMiMaticBeefyVaultImpl")
deployTombMiMaticBeefyVault ==
    ProxiedUnsealed("TombMimaticBeefyVault", "TombMiMaticBeefyVaultImpl",
        "BEEFY_TOMB_MIMATIC_VAULT", PointTo("mooTombTOMB-MIMATIC",
        "BeefyVaultTOMB_MIMATIC") \o PointTo("TOMB_MIMATIC_LP",
        "TOMB_MIMATIC_LP") \o PointTo("MIMATIC", "MIMATIC") \o PointTo("USDC",
        "USDC") \o PointTo("tombSwapRouter", "TombSwapRouter"),
        "TombMiMaticBeefyVault")
deployBasedMiMaticBeefyVaultImpl ==
    Deployed("BasedMimaticBeefyVault", "BasedMiMaticBeefyVaultImpl")
deployBasedMiMaticBeefyVault ==
    ProxiedUnsealed("BasedMimaticBeefyVault", "BasedMiMaticBeefyVaultImpl",
        "BEEFY_BASED_MIMATIC_VAULT", PointTo("mooTombBASED-MIMATIC",
        "BeefyVaultBASED_MIMATIC") \o PointTo("BASED_MIMATIC_LP",
        "BASED_MIMATIC_LP") \o PointTo("BASED", "BASED"),
        "BasedMiMaticBeefyVault")
deployBeefyMIM2CRVVaultImpl == Deployed("BeefyMIM2CRVVault", "BeefyMIM2CRVVaultImpl")
deployBeefyMIM2CRVVault ==
    ProxiedUnsealed("BeefyMIM2CRVVault", "BeefyMIM2CRVVaultImpl",
        "BEEFY_MIM2CRV_VAULT", PointTo("MOOMIM2CRV", "BeefyMIM2CRVVault") \o
        PointTo("MIM_2CRV_LP", "MIM_2CRV_LP"), "BeefyMIM2CRVVault")
deployYearnFBeetsVaultImpl == Deployed("YearnFBEETSVault", "YearnFBEETSVaultImpl")
deployYearnFBeetsVault ==
    ProxiedUnsealed("YearnFBEETSVault", "YearnFBEETSVaultImpl",
        "YEARN_FBEETS_VAULT", PointTo("YVFBEETS", "YearnFBEETSVaultFTM") \o
        PointTo("fBEETS", "fBEETS") \o PointTo("BEETS", "BEETS"),
        "YearnFBEETSVault")
deployYearnLINKVaultImpl == Deployed("YearnLINKVault", "YearnLINKVaultImpl")
deployYearnLINKVault ==
    ProxiedUnsealed("YearnLINKVault", "YearnLINKVaultImpl", "YEARN_LINK_VAULT",
        PointTo("YVLINK", "YearnLINKVaultFTM") \o PointTo("LINK", "LINK"),
        "YearnLINKVault")
deployBeefyETHVault ==
    ProxiedUnsealed("BeefyETHVault", "BeefyETHVaultImpl", "BEEFY_ETH_VAULT",
        PointTo("MOOWETH", "BeefyETHVault") \o PointTo("WETH", "WETH"),
        "BeefyETHVault")
deployYearnCRVVaultImpl == Deployed("YearnCRVVault", "YearnCRVVaultImpl")
deployYearnCRVVault ==
    ProxiedUnsealed("YearnCRVVault", "YearnCRVVaultImpl", "YEARN_CRV_VAULT",
        PointTo("YVCRV", "YearnCRVVaultFTM") \o PointTo("CRV", "CRV"),
        "YearnCRVVault")
deployYearnSPELLVaultImpl == Deployed("YearnSPELLVault", "YearnSPELLVaultImpl")
deployYearnSPELLVault ==
    ProxiedUnsealed("YearnSPELLVault", "YearnSPELLVaultImpl",
        "YEARN_SPELL_VAULT", PointTo("YVSPELL", "YearnSPELLVaultFTM") \o
        PointTo("SPELL", "SPELL"), "YearnSPELLVault")

deployStaticAToken(symbol) ==
    Deployed("StaticAToken", symbol \o "StaticATokenImpl") \o Initialize
        \o Recorded("InitializableAdminUpgradeabilityProxy")
        \o Save(symbol \o "StaticAToken")
deployERC4626Vault(assetSymbol) ==
    Deployed("ERC4626Vault", "ERC4626Vault" \o assetSymbol)
deployStableStructuredVault(assetSymbol) ==
    deploySwapAdapter2Libraries
        \o Proxied("StableStructuredVault", assetSymbol \o "StructuredVaultImpl",
                   assetSymbol \o "_STRUCTURED_VAULT", <<>>,
                   assetSymbol \o "StructuredVault")

------------------------------------------------------------------------------
\* Incentives and yield distribution

deploySturdyIncentivesControllerImpl ==
    Deployed("StakedTokenIncentivesController",
        "StakedTokenIncentivesControllerImpl")
deploySturdyIncentivesController ==
    Proxied("StakedTokenIncentivesController",
        "StakedTokenIncentivesControllerImpl", "INCENTIVE_CONTROLLER", <<>>,
        "StakedTokenIncentivesController")
deploySturdyTokenImpl == Deployed("SturdyToken", "SturdyTokenImpl")
deploySturdyToken ==
    ProxiedUnsealed("SturdyToken", "SturdyTokenImpl", "INCENTIVE_TOKEN", <<>>,
        "SturdyToken")
deployStableYieldDistributionImpl ==
    Deployed("StableYieldDistribution", "StableYieldDistributionImpl") \o
        Initialize
deployLDOStableYieldDistribution ==
    Load("StableYieldDistributionImpl") \o
        Proxy("LDO_STABLE_YIELD_DISTRIBUTOR") \o
        Save("LDOStableYieldDistribution")
deployYieldDistributorAdapter ==
    Recorded("YieldDistributorAdapter") \o Point("YIELD_DISTRIBUTOR_ADAPTER")
deployVariableYieldDistributionImpl ==
    Deployed("VariableYieldDistribution", "VariableYieldDistributionImpl") \o
        Initialize
deployVariableYieldDistribution ==
    Load("VariableYieldDistributionImpl") \o Proxy("VR_YIELD_DISTRIBUTOR") \o
        Save("VariableYieldDistribution")

------------------------------------------------------------------------------
\* Yield manager, leverage, liquidators and periphery

deployFTMLiquidator ==
    Recorded("FTMLiquidator") \o PointTo("AAVE_LENDING_POOL", "AavePool")
deployETHLiquidator == deploySwapAdapterLibraries \o Recorded("ETHLiquidator")
deployVaultHelper == Recorded("DeployVaultHelper")
deployYieldManagerImpl ==
    deploySwapAdapterLibraries \o Deployed("YieldManager", "YieldManagerImpl")
deployYieldManager ==
    deploySwapAdapterLibraries \o Proxied("YieldManager", "YieldManagerImpl",
        "YIELD_MANAGER", <<>>, "YieldManager")
deployLeverageSwapManagerImpl ==
    Deployed("LeverageSwapManager", "LeverageSwapManagerImpl")
deployLeverageSwapManager ==
    Proxied("LeverageSwapManager", "LeverageSwapManagerImpl",
        "LEVERAGE_SWAP_MANAGER", <<>>, "LeverageSwapManager")
deployFRAX3CRVLevSwap == deploySwapAdapter2Libraries \o Recorded("FRAX3CRVLevSwap")
deployDAIUSDCUSDTSUSDLevSwap ==
    deploySwapAdapter2Libraries \o Recorded("DAIUSDCUSDTSUSDLevSwap")
deployMIM3CRVLevSwap == deploySwapAdapter2Libraries \o Recorded("MIM3CRVLevSwap")
deployFRAXUSDCLevSwap == deploySwapAdapter2Libraries \o Recorded("FRAXUSDCLevSwap")
deployTUSDFRAXBPLevSwap == deploySwapAdapter2Libraries \o Recorded("TUSDFRAXBPLevSwap")
deployAURABBAUSDLevSwap == deploySwapAdapter2Libraries \o Recorded("AURABBAUSDLevSwap")
deployAURABBA3USDLevSwap ==
    deploySwapAdapter2Libraries \o Recorded("AURABBA3USDLevSwap")
deploySturdyAPRDataProvider == Recorded("SturdyAPRDataProvider")
deployVaultWhitelist == Recorded("VaultWhitelist")
deployERC4626Router == Recorded("ERC4626Router")

------------------------------------------------------------------------------
\* Mocks of test networks

deployMintableERC20 == Recorded("MintableERC20")
deployMintableDelegationERC20 == Recorded("MintableDelegationERC20")
deployMockStableDebtToken == Recorded("MockStableDebtToken") \o Initialize
deployWETHMocked == Deployed("WETH9Mocked", "WETHMocked")
deployMockVariableDebtToken == Recorded("MockVariableDebtToken") \o Initialize
deployMockAToken == Recorded("MockAToken") \o Initialize
deployMockDai == Deployed("Dai", "DAIToken")
deployMockUSDC == Deployed("Usdc", "USDCToken")
deployMockUSDT == Deployed("Usdt", "USDTToken")
deployMockyvWFTM == Recorded("MockyvWFTM")
deployMockyvWETH == Recorded("MockyvWETH")
deployMockyvWBTC == Recorded("MockyvWBTC")
deployMockyvBOO == Recorded("MockyvBOO")
deployMockWETHForFTM == Recorded("MockWETHForFTM")
deployMockWBTCForFTM == Recorded("MockWBTCForFTM")
deployMockBOOForFTM == Recorded("MockBOOForFTM")
deployMockMooTOMBFTM == Recorded("MockMooTOMBFTM")
deployMockMooTOMBMIMATIC == Recorded("MockMooTOMBMIMATIC")
deployMockMooBASEDMIMATIC == Recorded("MockMooBASEDMIMATIC")
deployInitializableAdminUpgradeabilityProxy ==
    Recorded("InitializableAdminUpgradeabilityProxy")
deployMockYearnVault(id) == Deployed("MockYearnVault", id)
deployMockBeefyVault(id) == Deployed("MockBeefyVault", id)

=============================================================================

----------------------------- MODULE ContractsGetters -----------------------------
(***************************************************************************)
(* src/helpers/contracts-getters.ts: under which name of                   *)
(* deployed-contracts.json each getter looks for a contract, and which     *)
(* contract's interface it then puts on the address it finds.  A getter is *)
(* a pair <<name, kind>>; nothing but these two strings keeps a script     *)
(* from calling one contract through the interface of another.             *)
(***************************************************************************)

\* The getters whose name in the file is the name of the contract.
OwnName(kinds) == {<<k, k>> : k \in kinds}

\* The provider, the configurator, tokens and the rate oracle.
ProviderAndTokenGetters ==
    OwnName({"LendingPoolAddressesProvider", "LendingPoolConfigurator",
             "PriceOracle", "StaticAToken", "AToken", "ATokenForCollateral",
             "StableDebtToken", "VariableDebtToken", "MintableERC20",
             "SwapinERC20", "IERC20Detailed", "SturdyProtocolDataProvider",
             "DefaultReserveInterestRateStrategy", "LendingRateOracle"})

\* Registry, helpers, mocks and the implementations of the pool.
HelperGetters ==
    OwnName({"LendingPoolAddressesProviderRegistry", "ReserveLogic",
             "StableAndVariableTokensHelper", "ATokensAndRatesHelper",
             "MockAToken", "MockVariableDebtToken", "MockStableDebtToken",
             "LendingPoolCollateralManager"})
        \cup {<<"WETHMocked", "WETH9Mocked">>, <<"LendingPoolImpl", "LendingPool">>,
         <<"LendingPoolConfiguratorImpl", "LendingPoolConfigurator">>,
         <<"LendingPoolCollateralManagerImpl", "LendingPoolCollateralManager">>}

\* Price oracles and the pool.
OracleGetters ==
    OwnName({"SturdyOracle", "BooOracle", "TombOracle", "TombFtmLPOracle",
             "TombMiMaticLPOracle", "BasedOracle", "BasedMiMaticLPOracle",
             "LendingPool"})

\* Vaults of the Ethereum market.
EthereumVaultGetters ==
    OwnName({"LidoVault", "YearnRETHWstETHVault"})
        \cup {<<"LidoVaultImpl", "LidoVault">>,
         <<"YearnRETHWstETHVaultImpl", "YearnRETHWstETHVault">>,
         <<"ConvexRocketPoolETHVaulttImpl", "ConvexCurveLPVault">>,
         <<"ConvexRocketPoolETHVault", "ConvexCurveLPVault">>,
         <<"ConvexFRAX3CRVVault", "ConvexCurveLPVault">>,
         <<"ConvexSTETHVault", "ConvexCurveLPVault">>,
         <<"ConvexDOLA3CRVVault", "ConvexCurveLPVault">>,
         <<"ConvexMIM3CRVVault", "ConvexCurveLPVault">>,
         <<"ConvexDAIUSDCUSDTSUSDVault", "ConvexCurveLPVault">>,
         <<"ConvexHBTCWBTCVault", "ConvexCurveLPVault">>,
         <<"ConvexIronBankVault", "ConvexCurveLPVault">>,
         <<"ConvexFRAXUSDCVault", "ConvexCurveLPVault">>,
         <<"AuraDAIUSDCUSDTVault", "AuraBalancerLPVault">>,
         <<"ConvexTUSDFRAXBPVault", "ConvexCurveLPVault2">>,
         <<"AuraBBAUSDVault", "AuraBalancerLPVault">>,
         <<"AuraBBA3USDVault", "AuraBalancerLPVault">>}

\* The first Yearn vaults of the Fantom market.
YearnVaultGetters ==
    OwnName({"YearnVault", "YearnWETHVault", "YearnWBTCVault", "YearnBOOVault"})
        \cup {<<"YearnVaultImpl", "YearnVault">>,
         <<"YearnWETHVaultImpl", "YearnWETHVault">>,
         <<"YearnWBTCVaultImpl", "YearnWBTCVault">>,
         <<"YearnBOOVaultImpl", "YearnBOOVault">>}

\* The other vaults of the Fantom market.
FantomVaultGetters ==
    OwnName({"TombFtmBeefyVault", "BeefyMIM2CRVVault", "YearnFBEETSVault",
             "YearnLINKVault", "BeefyETHVault", "YearnCRVVault",
             "YearnSPELLVault"})
        \cup {<<"TombFtmBeefyVaultImpl", "TombFtmBeefyVault">>,
         <<"TombMiMaticBeefyVaultImpl", "TombMimaticBeefyVault">>,
         <<"TombMiMaticBeefyVault", "TombMimaticBeefyVault">>,
         <<"BasedMiMaticBeefyVaultImpl", "BasedMimaticBeefyVault">>,
         <<"BasedMiMaticBeefyVault", "BasedMimaticBeefyVault">>,
         <<"BeefyMIM2CRVVaultImpl", "BeefyMIM2CRVVault">>,
         <<"YearnFBEETSVaultImpl", "YearnFBEETSVault">>,
         <<"YearnLINKVaultImpl", "YearnLINKVault">>,
         <<"YearnCRVVaultImpl", "YearnCRVVault">>,
         <<"YearnSPELLVaultImpl", "YearnSPELLVault">>}

\* Data providers, incentives and yield distribution.
IncentiveGetters ==
    OwnName({"WalletBalanceProvider", "UiPoolDataProvider",
             "UiIncentiveDataProvider", "StakedTokenIncentivesController",
             "SturdyToken", "VariableYieldDistribution",
             "YieldDistributorAdapter", "CollateralAdapter"})
        \cup {<<"StakedTokenIncentivesControllerImpl", "StakedTokenIncentivesController">>,
         <<"SturdyTokenImpl", "SturdyToken">>,
         <<"StableYieldDistributionImpl", "StableYieldDistribution">>,
         <<"LDOStableYieldDistribution", "StableYieldDistribution">>,
         <<"VariableYieldDistributionImpl", "VariableYieldDistribution">>}

\* Mocks, token implementations, liquidators and late oracles.
MockGetters ==
    OwnName({"MockyvWFTM", "MockyvWETH", "MockyvWBTC", "MockyvBOO",
             "MockMooTOMBFTM", "MockMooTOMBMIMATIC", "MockMooBASEDMIMATIC",
             "MockWBTCForFTM", "AToken", "ATokenForCollateral",
             "FTMLiquidator", "ETHLiquidator", "DeployVaultHelper",
             "BeetsOracle", "FBeetsOracle"})
        \cup {<<"RETHWstETHLPOracle", "CrvREthWstETHOracle">>}

\* Yield manager, libraries, leverage and ERC4626.
PeripheryGetters ==
    OwnName({"YieldManager", "UniswapAdapter", "CurveswapAdapter",
             "BalancerswapAdapter", "UniswapAdapter2", "CurveswapAdapter2",
             "BalancerswapAdapter2", "LeverageSwapManager",
             "SturdyAPRDataProvider", "ValidationLogic", "GenericLogic",
             "ReserveLogic", "VaultWhitelist", "ERC4626Router"})
        \cup {<<"ERC4626VaultUSDC", "ERC4626Vault">>,
         <<"USDCStructuredVault", "StableStructuredVault">>}

Getters ==
    UNION {ProviderAndTokenGetters, HelperGetters, OracleGetters,
           EthereumVaultGetters, YearnVaultGetters, FantomVaultGetters,
           IncentiveGetters, MockGetters, PeripheryGetters}

=============================================================================

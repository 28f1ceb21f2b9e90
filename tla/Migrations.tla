------------------------------ MODULE Migrations ------------------------------
(***************************************************************************)
(* src/tasks/migrations: the scripts an operator starts.  A migration runs *)
(* the tasks of FullTasks or TestnetTasks one after the other; it does not *)
(* look at what an earlier run left behind.  The migrations are modelled   *)
(* without the flag skipRegistry.                                          *)
(***************************************************************************)
EXTENDS TestnetTasks

S == INSTANCE SturdyMarket
F == INSTANCE FantomMarket

------------------------------------------------------------------------------
\* The task that initializes the pool, also run by itself

SturdyInitialize(net) ==
    full_initialize_lending_pool("Sturdy", S!ReservesConfig, S!ReserveAddresses(net))
FantomInitialize(net) ==
    full_initialize_lending_pool("Fantom", F!ReservesConfig, F!ReserveAddresses(net))
SturdyTestnetInitialize(net) ==
    testnet_initialize_lending_pool("Sturdy", S!ReservesConfig, S!ReserveAddresses(net))
FantomTestnetInitialize(net) ==
    testnet_initialize_lending_pool("Fantom", F!ReservesConfig, F!ReserveAddresses(net))

------------------------------------------------------------------------------
\* Whole deployments

sturdy_mainnet(net) ==
    FlattenSeq(
      << full_deploy_address_provider(S!Configured(net)),
         full_deploy_lending_pool,
         full_deploy_oracles({"DAI", "USDC", "USDT"}),
         full_data_provider,
         full_deploy_incentives_impl,
         full_deploy_LDO_stable_yield_distributor,
         full_deploy_variable_yield_distributor,
         full_deploy_lido_vault,
         full_deploy_convex_frax_3crv_vault,
         full_deploy_convex_mim_3crv_vault,
         full_deploy_convex_dai_usdc_usdt_susd_vault,
         full_deploy_convex_frax_usdc_vault,
         full_deploy_convex_tusd_fraxbp_vault,
         full_deploy_aura_bb_a3_usd_vault,
         SturdyInitialize(net),
         full_deploy_collateral_adapter("Sturdy", S!ReservesConfig,
                                        S!ReserveAddresses(net)),
         full_deploy_vault_helper,
         full_deploy_yield_manager,
         full_deploy_leverage_swap_manager,
         full_deploy_sturdy_apr_data_provider >>)

\* The vault tasks for mooWETH, mooTOMB_FTM and mooMIM_2CRV end the migration: the
\* market no longer lists these tokens.
sturdy_ftm(net) ==
    FlattenSeq(
      << full_deploy_address_provider(F!Configured(net)),
         full_deploy_lending_pool,
         full_deploy_oracles({"DAI", "USDC", "fUSDT"}),
         full_data_provider,
         full_deploy_incentives_impl,
         full_deploy_yearn_vault,
         full_deploy_beefy_eth_vault,
         full_deploy_yearn_weth_vault,
         full_deploy_yearn_wbtc_vault,
         full_deploy_yearn_boo_vault,
         full_deploy_tomb_ftm_beefy_vault,
         full_deploy_tomb_mimatic_beefy_vault,
         full_deploy_yearn_fbeets_vault,
         full_deploy_yearn_link_vault,
         full_deploy_yearn_crv_vault,
         full_deploy_yearn_spell_vault,
         full_deploy_based_mimatic_beefy_vault,
         full_deploy_beefy_mim2crv_vault,
         FantomInitialize(net),
         full_deploy_collateral_adapter("Fantom", F!ReservesConfig,
                                        F!ReserveAddresses(net)),
         full_deploy_liquidator(net),
         full_deploy_vault_helper >>)

\* On the test networks the oracles end the migration: the table of addresses
\* has no entry for TOMB.
sturdy_testnet(net) ==
    FlattenSeq(
      << testnet_deploy_address_provider(S!Configured(net)),
         testnet_deploy_lending_pool,
         testnet_deploy_oracles({"DAI", "USDC", "USDT"}, S!ReserveAddresses(net)),
         testnet_data_provider,
         testnet_deploy_incentives_impl,
         testnet_deploy_lido_vault,
         SturdyTestnetInitialize(net),
         testnet_deploy_collateral_adapter("Sturdy", S!ReservesConfig,
                                           S!ReserveAddresses(net)) >>)

sturdy_ftm_testnet(net) ==
    FlattenSeq(
      << testnet_deploy_address_provider(F!Configured(net)),
         testnet_deploy_lending_pool,
         testnet_deploy_oracles({"DAI", "USDC", "fUSDT"}, F!ReserveAddresses(net)),
         testnet_data_provider,
         testnet_deploy_incentives_impl,
         testnet_deploy_yearn_vault,
         testnet_deploy_beefy_eth_vault,
         testnet_deploy_yearn_weth_vault,
         testnet_deploy_yearn_wbtc_vault,
         testnet_deploy_yearn_boo_vault,
         testnet_deploy_tomb_ftm_beefy_vault,
         testnet_deploy_tomb_mimatic_beefy_vault,
         testnet_deploy_yearn_fbeets_vault,
         testnet_deploy_yearn_link_vault,
         testnet_deploy_yearn_crv_vault,
         testnet_deploy_yearn_spell_vault,
         testnet_deploy_based_mimatic_beefy_vault,
         FantomTestnetInitialize(net),
         testnet_deploy_collateral_adapter("Fantom", F!ReservesConfig,
                                           F!ReserveAddresses(net)) >>)

------------------------------------------------------------------------------
\* The tasks of a migration that failed, run one by one without those that fail

FantomTasks(net) ==
    FlattenSeq(
      << full_deploy_yearn_weth_vault, full_deploy_yearn_wbtc_vault,
         full_deploy_yearn_boo_vault, full_deploy_tomb_mimatic_beefy_vault,
         full_deploy_yearn_fbeets_vault, full_deploy_yearn_link_vault,
         full_deploy_yearn_crv_vault, full_deploy_yearn_spell_vault,
         full_deploy_based_mimatic_beefy_vault,
         full_deploy_LDO_stable_yield_distributor,
         full_deploy_variable_yield_distributor,
         FantomInitialize(net),
         full_deploy_collateral_adapter("Fantom", F!ReservesConfig,
                                        F!ReserveAddresses(net)),
         full_deploy_liquidator(net), full_deploy_vault_helper >>)

SturdyTestnetTasks(net) ==
    FlattenSeq(
      << testnet_data_provider, testnet_deploy_incentives_impl,
         testnet_deploy_lido_vault, deployYieldDistributorAdapter,
         SturdyTestnetInitialize(net),
         testnet_deploy_collateral_adapter("Sturdy", S!ReservesConfig,
                                           S!ReserveAddresses(net)) >>)

FantomTestnetTasks(net) ==
    FlattenSeq(
      << testnet_data_provider, testnet_deploy_incentives_impl,
         testnet_deploy_yearn_vault, testnet_deploy_beefy_eth_vault,
         testnet_deploy_yearn_weth_vault, testnet_deploy_yearn_wbtc_vault,
         testnet_deploy_yearn_boo_vault,
         testnet_deploy_yearn_fbeets_vault, testnet_deploy_yearn_link_vault,
         testnet_deploy_yearn_crv_vault, testnet_deploy_yearn_spell_vault,
         testnet_deploy_based_mimatic_beefy_vault,
         deployYieldDistributorAdapter,
         FantomTestnetInitialize(net),
         testnet_deploy_collateral_adapter("Fantom", F!ReservesConfig,
                                           F!ReserveAddresses(net)) >>)

------------------------------------------------------------------------------
\* Scripts for one contract

sturdy_incentiveControllerImpl == deploySturdyIncentivesControllerImpl
sturdy_incentiveTokenImpl == deploySturdyTokenImpl
sturdy_lendingPoolCollateralImpl == deployLendingPoolCollateralManagerImpl
sturdy_lendingPoolConfigImpl == deployLendingPoolConfiguratorImpl
sturdy_lendingPoolImpl == deployLendingPoolImpl
sturdy_lidoVaultImpl == deployLidoVaultImpl

\* A token of the test networks, and a million of it for the deployer.
sturdy_testnet_dai == deployMockDai \o CallIt
sturdy_testnet_usdc == deployMockUSDC \o CallIt
sturdy_testnet_usdt == deployMockUSDT \o CallIt

deploy_atoken_wrapper(symbol) == deployStaticAToken(symbol)

------------------------------------------------------------------------------
\* Tasks no migration runs; an operator starts them on a finished deployment.

OtherVaults ==
    FlattenSeq(
      << full_deploy_convex_rocket_pool_eth_vault,
         full_deploy_convex_steth_vault,
         full_deploy_convex_dola_3crv_vault,
         full_deploy_convex_hbtc_wbtc_vault,
         full_deploy_convex_iron_bank_vault,
         full_deploy_aura_dai_usdc_usdt_vault,
         full_deploy_aura_bb_a_usd_vault,
         full_deploy_liquidator("main") >>)

Implementations ==
    FlattenSeq(
      << sturdy_incentiveControllerImpl, sturdy_incentiveTokenImpl,
         sturdy_lendingPoolCollateralImpl, sturdy_lendingPoolConfigImpl,
         sturdy_lendingPoolImpl, sturdy_lidoVaultImpl,
         deployYearnRETHWstETHVaultImpl, deployConvexRocketPoolETHVaultImpl,
         deployConvexFRAX3CRVVaultImpl, deployConvexSTETHVaultImpl,
         deployConvexDOLA3CRVVaultImpl, deployConvexMIM3CRVVaultImpl,
         deployConvexDAIUSDCUSDTSUSDVaultImpl, deployConvexHBTCWBTCVaultImpl,
         deployConvexIronBankVaultImpl, deployConvexFRAXUSDCVaultImpl,
         deployConvexTUSDFRAXBPVaultImpl, deployAuraBBA3USDVaultImpl,
         deployYieldManagerImpl, deployLeverageSwapManagerImpl,
         deployYearnVaultImpl, deployYearnWETHVaultImpl, deployYearnWBTCVaultImpl,
         deployYearnBOOVaultImpl, deployTombFTMBeefyVaultImpl,
         deployTombMiMaticBeefyVaultImpl, deployBasedMiMaticBeefyVaultImpl,
         deployBeefyMIM2CRVVaultImpl, deployYearnFBeetsVaultImpl,
         deployYearnLINKVaultImpl, deployYearnCRVVaultImpl, deployYearnSPELLVaultImpl >>)

\* What the test suites and the console deploy.
SingleContracts ==
    FlattenSeq(
      << deployStableDebtToken, deployVariableDebtToken, deployGenericAToken,
         deployCollateralAToken, deployMockAggregator, deployBooOracle,
         deployAURABBAUSDLevSwap, deployERC4626Router, deployERC4626Vault("USDC"),
         deployStableStructuredVault("USDC"), deploy_atoken_wrapper("aUSDC"),
         deployInitializableAdminUpgradeabilityProxy >>)

Mocks ==
    FlattenSeq(
      << sturdy_testnet_dai, sturdy_testnet_usdc, sturdy_testnet_usdt,
         deployMintableERC20, deployMintableDelegationERC20,
         deployMockStableDebtToken, deployWETHMocked, deployMockVariableDebtToken,
         deployMockAToken, deployMockyvWFTM, deployMockyvWETH, deployMockyvWBTC,
         deployMockyvBOO, deployMockWETHForFTM, deployMockWBTCForFTM,
         deployMockBOOForFTM, deployMockMooTOMBFTM, deployMockMooTOMBMIMATIC,
         deployMockMooBASEDMIMATIC, deployMockYearnVault("MockYearnVault"),
         deployMockBeefyVault("MockBeefyVault") >>)

=============================================================================

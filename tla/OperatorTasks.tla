---------------------------- MODULE OperatorTasks ----------------------------
(***************************************************************************)
(* What is started on a deployment that exists: the set-up of the test     *)
(* suites (make-suite.ts), the verification of the contracts with a block  *)
(* explorer (verify:general) and the task that adds one asset              *)
(* (external:deploy-new-asset).  All three find the system through         *)
(* deployed-contracts.json, written by scripts that know nothing of them.  *)
(***************************************************************************)
EXTENDS Migrations

\* A getter that is handed the configured address, if there is one.
HandleOf(key, id) == UnlessConfigured(key, Load(id))

Loads(ids) == FlattenSeq([k \in DOMAIN ids |-> Load(ids[k])])

------------------------------------------------------------------------------
\* initializeMakeSuite of the Ethereum suite

\* The keys of the configuration the suite reads; an address that is not
\* configured is undefined, which shows only when a handle is made of it.
suiteAddresses ==
    {"Lido", "FRAX_3CRV_LP", "WETH", "CRV", "CVX", "BAL", "AURA", "TUSD", "FRAX",
     "MIM", "MIM_3CRV_LP", "DAI_USDC_USDT_SUSD_LP", "FRAX_USDC_LP",
     "TUSD_FRAXBP_LP", "BAL_BB_A3_USD_LP"}

\* Vaults whose internal asset the suite uses.
suiteVaults ==
    <<"ConvexFRAX3CRVVault", "ConvexMIM3CRVVault", "ConvexDAIUSDCUSDTSUSDVault",
      "ConvexFRAXUSDCVault", "ConvexTUSDFRAXBPVault", "AuraBBA3USDVault">>

\* The handles of the contracts; the vaults are asked for their internal assets.
suiteContracts ==
    Loads(<<"LendingPool", "LidoVault">> \o suiteVaults)
        \o Needs({suiteVaults[k] : k \in DOMAIN suiteVaults})
        \o Loads(<<"StakedTokenIncentivesController", "YieldManager",
                   "LeverageSwapManager", "VariableYieldDistribution",
                   "LendingPoolConfigurator", Provider, "SturdyAPRDataProvider">>)

\* The registry on a fork, and the data provider.
suiteRegistry ==
    HandleOf("ProviderRegistry", "LendingPoolAddressesProviderRegistry")
        \o Load("SturdyProtocolDataProvider")

\* Mutant: a pool token that lost its market is still looked for.
suiteTokensOutdated == MustList({"DAI", "USDC", "USDT", "stETH", "cvxSTECRV"})

\* The aTokens and tokens the suite cannot do without.
suiteTokens ==
    MustList({"DAI", "stETH", "cvxFRAX_3CRV", "cvxMIM_3CRV",
              "cvxDAI_USDC_USDT_SUSD", "cvxFRAX_USDC", "cvxTUSD_FRAXBP",
              "auraBB_A3_USD"})
        \o MustList({"DAI", "USDC", "USDT"})

\* The handles of the tokens, and of the reward token.
suiteInstances == Load("SturdyToken") \o UseTokens(suiteAddresses)

initializeMakeSuite ==
    suiteContracts \o suiteRegistry \o suiteTokens \o suiteInstances

------------------------------------------------------------------------------
\* initializeMakeSuite of the Fantom suite

fantomSuiteAddresses ==
    {"YearnVaultFTM", "YearnWETHVaultFTM", "YearnWBTCVaultFTM", "YearnBOOVaultFTM",
     "BeefyVaultTOMB_FTM", "BeefyVaultTOMB_MIMATIC", "BeefyVaultBASED_MIMATIC",
     "YearnFBEETSVaultFTM", "YearnLINKVaultFTM", "YearnCRVVaultFTM",
     "YearnSPELLVaultFTM", "WFTM", "WETH", "WBTC", "BOO", "TOMB_FTM_LP",
     "TOMB_MIMATIC_LP", "BASED_MIMATIC_LP", "fBEETS", "BEETS", "LINK", "CRV",
     "SPELL"}

fantomSuiteContracts ==
    Loads(<<"LendingPool", "YearnVault", "BeefyETHVault", "YearnWETHVault",
            "YearnWBTCVault", "YearnBOOVault", "TombFtmBeefyVault",
            "TombMiMaticBeefyVault", "BasedMiMaticBeefyVault", "YearnFBEETSVault",
            "YearnLINKVault", "YearnCRVVault", "YearnSPELLVault",
            "StakedTokenIncentivesController", "LendingPoolConfigurator", Provider>>)

\* On a fork the registry of the Ethereum configuration is asked for, which has
\* none on Fantom, and the oracle is the provider's.
fantomSuiteRegistry ==
    Loads(<<"LendingPoolAddressesProviderRegistry", "SturdyProtocolDataProvider">>)

fantomSuiteTokens ==
    MustList({"DAI", "USDC", "fUSDT", "yvWFTM", "yvWETH", "yvWBTC", "yvBOO",
              "mooTOMB_FTM", "mooTOMB_MIMATIC", "mooBASED_MIMATIC", "yvfBEETS",
              "yvLINK", "yvCRV", "yvSPELL"})
        \o MustList({"DAI", "USDC", "fUSDT"})

fantomSuiteInstances == Load("SturdyToken") \o UseTokens(fantomSuiteAddresses)

initializeFantomMakeSuite ==
    fantomSuiteContracts \o fantomSuiteRegistry
        \o fantomSuiteTokens \o fantomSuiteInstances

------------------------------------------------------------------------------
\* verify:general --all

\* The handles are taken first: of the provider, its registry and the oracle.
verifyHandles ==
    Load(Provider)
        \o HandleOf("ProviderRegistry", "LendingPoolAddressesProviderRegistry")
        \o Load("SturdyOracle")

\* Implementations, found under the names their deployment gave them.
verifyImplementations ==
    Loads(<<"LendingPoolImpl", "StakedTokenIncentivesControllerImpl",
            "SturdyTokenImpl", "WalletBalanceProvider", "UiPoolDataProvider",
            "UiIncentiveDataProvider">>)
        \o HandleOf("LendingPoolConfigurator", "LendingPoolConfiguratorImpl")
        \o HandleOf("LendingPoolCollateralManager", "LendingPoolCollateralManagerImpl")
        \o Load("SturdyProtocolDataProvider")
        \o VerifyContract(Provider, Provider)
        \o CheckPairs
        \o VerifyContract("SturdyOracle", "SturdyOracle")
        \o VerifyContract("LendingPoolAddressesProviderRegistry",
                          "LendingPoolAddressesProviderRegistry")
        \o VerifyContract("LendingPoolImpl", "LendingPool")
        \o VerifyContract("LendingPoolConfiguratorImpl", "LendingPoolConfigurator")
        \o VerifyContract("LendingPoolCollateralManagerImpl",
                          "LendingPoolCollateralManager")
        \o VerifyContract("StakedTokenIncentivesControllerImpl",
                          "StakedTokenIncentivesController")
        \o VerifyContract("SturdyTokenImpl", "SturdyToken")
        \o VerifyContract("SturdyProtocolDataProvider", "SturdyProtocolDataProvider")
        \o VerifyContract("WalletBalanceProvider", "WalletBalanceProvider")
        \o VerifyContract("UiPoolDataProvider", "UiPoolDataProvider")
        \o VerifyContract("UiIncentiveDataProvider", "UiIncentiveDataProvider")

verifyProxies ==
    VerifyProxy("LENDING_POOL") \o VerifyProxy("LENDING_POOL_CONFIGURATOR")
        \o VerifyProxy("INCENTIVE_CONTROLLER") \o VerifyProxy("INCENTIVE_TOKEN")

\* The vaults of the two markets, each with the slot the task names.
verifyVaults(pool) ==
    IF pool = "Sturdy"
    THEN VerifyContract("LidoVaultImpl", "LidoVault") \o VerifyProxy("LIDO_VAULT")
    ELSE VerifyContract("YearnVaultImpl", "YearnVault")
             \o VerifyContract("YearnWETHVaultImpl", "YearnWETHVault")
             \o VerifyContract("YearnWBTCVaultImpl", "YearnWBTCVault")
             \o VerifyProxy("YEARN_VAULT") \o VerifyProxy("YEARN_WETH_VAULT")
             \o VerifyProxy("YEARN_WBTC_VAULT")

verify_general(pool) ==
    verifyHandles \o verifyImplementations \o verifyProxies \o verifyVaults(pool)

------------------------------------------------------------------------------
\* verify:tokens

\* Proxies and strategy of a token are the pool's own; the implementations are
\* found by name.  The task hands over the aToken where it means the debt tokens.
verifyToken ==
    VerifyContract("AToken", "AToken")
        \o VerifyContract("ATokenForCollateral", "ATokenForCollateral")
        \o VerifyContract("AToken", "StableDebtToken")
        \o VerifyContract("AToken", "VariableDebtToken")

\* All listed tokens; one without parameters ends the task.
verify_tokens(config, assets) ==
    Load(Provider)
        \o (IF assets \subseteq {config[k][1] : k \in DOMAIN config}
            THEN <<>> ELSE ThrowUnless("nothing"))
        \o FlattenSeq([k \in DOMAIN config |->
               IF config[k][1] \in assets THEN verifyToken ELSE <<>>])

------------------------------------------------------------------------------
\* external:get-param-for-new-vault: strategy and vault implementation of an asset
\* that is to be added are deployed, and the arguments printed with which the
\* deployVaultHelper contract is then to be called.

\* The strategy, recorded under its name in the market.
newVaultStrategy(reserve) ==
    UseTokens({reserve[1]})
        \o Needs({Provider, "StakedTokenIncentivesController", "ATokensAndRatesHelper"})
        \o deployDefaultReserveInterestRateStrategy \o Save(reserve[2].strategy.name)
        \o Needs({reserve[2].aTokenImpl})

get_param_for_new_vault(reserve) ==
    newVaultStrategy(reserve)
        \o deployAuraBBA3USDVaultImpl \o Initialize
        \o Needs({"StableDebtToken", "VariableDebtToken"})

------------------------------------------------------------------------------
\* external:deploy-new-asset

\* The new reserve: the symbol must be prepared in the market; its strategy, the
\* reserve itself, its incentives.
newReserve(reserve, vault) ==
    UseTokens({reserve[1]})
        \o Needs({Provider, "LendingPool", "StakedTokenIncentivesController"})
        \o deployDefaultReserveInterestRateStrategy \o Save(reserve[2].strategy.name)
        \o Needs({"LendingPoolConfigurator", "StableDebtToken", "VariableDebtToken",
                  reserve[2].aTokenImpl})
        \o BatchInitReserve(<<[sym |-> reserve[1], params |-> reserve[2],
                               vault |-> vault]>>)
        \o ConfigureAssets("StakedTokenIncentivesController", {reserve[1]})

deploy_new_asset(reserve, vault, external) ==
    newReserve(reserve, vault)
        \o Needs({"ATokensAndRatesHelper"})
        \o ReadAdmin \o GrantAdmin
        \o ConfigureReserves(<<[sym |-> reserve[1], params |-> reserve[2], vault |-> ""]>>)
        \o ReturnAdmin
        \o AddCollateralAsset(external, reserve[1], vault)

\* The vault of a token the Ethereum market is prepared for but has no address of,
\* and then its reserve.  (Between the two the operator writes the address of the
\* internal asset into the configuration; here it is kept in memory.)
NewAsset ==
    full_deploy_aura_dai_usdc_usdt_vault
        \o deploy_new_asset(<<"auraDAI_USDC_USDT", S!strategyAURADAI_USDC_USDT>>,
                            "AuraDAIUSDCUSDTVault", "BAL_DAI_USDC_USDT_LP")

Verifications ==
    verify_general("Sturdy") \o verify_tokens(S!ReservesConfig, S!ReserveAssets("main"))
NewVaultParameters ==
    get_param_for_new_vault(<<"auraBB_A3_USD", S!strategyAURABB_A3_USD>>)

=============================================================================

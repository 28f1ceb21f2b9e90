----------------------------- MODULE FantomMarket -----------------------------
(***************************************************************************)
(* src/markets/ftm: the configuration of the Fantom market, in the same    *)
(* form as that of the Ethereum market.                                    *)
(***************************************************************************)
EXTENDS MarketParams

------------------------------------------------------------------------------
\* Interest rate strategies: name, optimal utilisation and second slope in per
\* cent, capacity in millions of tokens (0: unlimited).

rateStrategyStableTwo == RateStrategy("rateStrategyStableTwo", 90, 20, 0)
rateStrategyStableThree == RateStrategy("rateStrategyStableThree", 90, 20, 0)
rateStrategyYVWFTM == RateStrategy("rateStrategyYVWFTM", 45, 0, 20)
rateStrategyMOOWETH == RateStrategy("rateStrategyMOOWETH", 45, 0, 0)
rateStrategyYVWETH == RateStrategy("rateStrategyYVWETH", 45, 0, 0)
rateStrategyYVWBTC == RateStrategy("rateStrategyYVWBTC", 45, 0, 0)
rateStrategyYVBOO == RateStrategy("rateStrategyYVBOO", 45, 0, 0)
rateStrategyMOOTOMB_FTM == RateStrategy("rateStrategyMOOTOMB_FTM", 45, 0, 0)
rateStrategyMOOTOMB_MIMATIC ==
    RateStrategy("rateStrategyMOOTOMB_MIMATIC", 45, 0, 0)
rateStrategyMOOMIM_2CRV == RateStrategy("rateStrategyMOOMIM_2CRV", 45, 0, 0)
rateStrategyYVFBEETS == RateStrategy("rateStrategyYVFBEETS", 45, 0, 8)
rateStrategyYVLINK == RateStrategy("rateStrategyYVLINK", 45, 0, 0)
rateStrategyYVCRV == RateStrategy("rateStrategyYVCRV", 45, 0, 0)
rateStrategyYVSPELL == RateStrategy("rateStrategyYVSPELL", 45, 0, 0)
rateStrategyMOOBASED_MIMATIC ==
    RateStrategy("rateStrategyMOOBASED_MIMATIC", 45, 0, 0)

------------------------------------------------------------------------------
\* Parameters of the reserves: what may be borrowed, and at which loan to value,
\* liquidation threshold and bonus a collateral counts.

strategyDAI == Lent(rateStrategyStableTwo, 18, 1000, 10)
strategyUSDC == Lent(rateStrategyStableThree, 6, 1000, 10)
strategyUSDT == Lent(rateStrategyStableThree, 6, 1000, 10)
strategyYVWFTM == Collateral(rateStrategyYVWFTM, 18, 7000, 7500, 10750)
strategyMOOWETH == Collateral(rateStrategyMOOWETH, 18, 7000, 7500, 10750)
strategyYVWETH == Collateral(rateStrategyYVWETH, 18, 0, 7500, 10750)
strategyYVWBTC == Collateral(rateStrategyYVWBTC, 8, 0, 7500, 10750)
strategyYVBOO == Collateral(rateStrategyYVBOO, 18, 6000, 7000, 11000)
strategyMOOTOMB_FTM ==
    Collateral(rateStrategyMOOTOMB_FTM, 18, 7000, 7500, 10750)
strategyMOOTOMB_MIMATIC ==
    Collateral(rateStrategyMOOTOMB_MIMATIC, 18, 0, 7500, 10750)
strategyMOOMIM_2CRV == Collateral(rateStrategyMOOMIM_2CRV, 18, 0, 7500, 10750)
strategyYVFBEETS == Collateral(rateStrategyYVFBEETS, 18, 0, 7000, 11000)
strategyYVLINK == Collateral(rateStrategyYVLINK, 18, 0, 7500, 10700)
strategyYVCRV == Collateral(rateStrategyYVCRV, 18, 6000, 7000, 11000)
strategyYVSPELL == Collateral(rateStrategyYVSPELL, 18, 6000, 7000, 11000)
strategyMOOBASED_MIMATIC ==
    Collateral(rateStrategyMOOBASED_MIMATIC, 18, 0, 7500, 10750)

------------------------------------------------------------------------------
\* The reserves in the order in which they are created.
ReservesConfig ==
    <<<<"DAI", strategyDAI>>, <<"USDC", strategyUSDC>>,
      <<"fUSDT", strategyUSDT>>, <<"yvWFTM", strategyYVWFTM>>,
      <<"mooWETH", strategyMOOWETH>>, <<"yvWETH", strategyYVWETH>>,
      <<"yvWBTC", strategyYVWBTC>>, <<"yvBOO", strategyYVBOO>>,
      <<"mooTOMB_FTM", strategyMOOTOMB_FTM>>,
      <<"mooTOMB_MIMATIC", strategyMOOTOMB_MIMATIC>>,
      <<"mooBASED_MIMATIC", strategyMOOBASED_MIMATIC>>,
      <<"mooMIM_2CRV", strategyMOOMIM_2CRV>>,
      <<"yvfBEETS", strategyYVFBEETS>>, <<"yvLINK", strategyYVLINK>>,
      <<"yvCRV", strategyYVCRV>>, <<"yvSPELL", strategyYVSPELL>>>>

\* The reserves the market lists on a network ...
ReserveAssets(net) ==
    CASE net = "ftm" ->
           {"DAI", "USDC", "fUSDT", "yvWFTM", "yvWETH", "yvWBTC", "yvBOO",
            "mooTOMB_MIMATIC", "yvfBEETS", "yvLINK", "yvCRV", "yvSPELL",
            "mooBASED_MIMATIC"}
      [] net = "tenderlyFTM" ->
           {"DAI", "USDC", "yvWFTM", "fUSDT", "yvWETH", "yvWBTC", "yvBOO",
            "mooTOMB_MIMATIC", "yvfBEETS", "yvLINK", "yvCRV", "yvSPELL",
            "mooBASED_MIMATIC"}
      [] OTHER ->
           {"DAI", "USDC", "fUSDT", "yvWFTM", "mooWETH", "yvWETH", "yvWBTC",
            "yvBOO", "mooTOMB_MIMATIC", "mooMIM_2CRV", "yvfBEETS", "yvLINK",
            "yvCRV", "yvSPELL", "mooBASED_MIMATIC"}

\* ... and those for which it has an address before anything is deployed: tokens
\* of others, and internal assets of an earlier deployment.
ReserveAddresses(net) ==
    CASE net = "ftm" ->
           {"DAI", "USDC", "fUSDT", "yvWFTM", "yvWETH", "yvWBTC", "yvBOO",
            "mooTOMB_MIMATIC", "yvfBEETS", "yvLINK", "yvCRV", "yvSPELL",
            "mooBASED_MIMATIC"}
      [] net = "tenderlyFTM" ->
           {"DAI", "USDC", "yvWFTM", "fUSDT", "yvWETH", "yvWBTC", "yvBOO",
            "mooTOMB_MIMATIC", "yvfBEETS", "yvLINK", "yvCRV", "yvSPELL",
            "mooBASED_MIMATIC"}
      [] OTHER ->
           {"DAI", "USDC", "fUSDT", "yvWFTM", "mooWETH", "yvWETH", "yvWBTC",
            "yvBOO", "mooTOMB_MIMATIC", "yvfBEETS", "yvLINK", "yvCRV",
            "yvSPELL", "mooBASED_MIMATIC"}

\* Tokens the vaults hold or trade.
UnderlyingTokens(net) ==
    {"BOO", "TOMB", "MIMATIC", "BASED", "TOMB_FTM_LP",
 "TOMB_MIMATIC_LP", "BASED_MIMATIC_LP", "fBEETS", "BEETS", "LINK",
 "CRV", "SPELL"}
        \cup (IF net # "ftm_test"
              THEN {"MIM_2CRV_LP"}
              ELSE {})

\* The Yearn and Beefy vaults behind the vaults.
StrategyVaults(net) ==
    {"YearnVaultFTM", "YearnWETHVaultFTM", "YearnWBTCVaultFTM",
 "YearnBOOVaultFTM", "BeefyVaultTOMB_FTM", "BeefyVaultTOMB_MIMATIC",
 "BeefyVaultBASED_MIMATIC", "YearnFBEETSVaultFTM",
 "YearnLINKVaultFTM", "BeefyETHVault", "YearnCRVVaultFTM",
 "YearnSPELLVaultFTM"}
        \cup (IF net # "ftm_test"
              THEN {"BeefyMIM2CRVVault"}
              ELSE {})

\* Contracts of other protocols.
Venues(net) ==
    {"UniswapRouter"}
        \cup (IF net # "ftm_test"
              THEN {"TombSwapRouter", "AavePool"}
              ELSE {})

\* Contracts of an earlier deployment that a new one takes over.
DeployedBefore(net) ==
    (IF net # "ftm"
              THEN {"ProviderRegistry", "LendingRateOracle",
                    "LendingPoolCollateralManager", "LendingPoolConfigurator",
                    "LendingPool"}
              ELSE {})
        \cup (IF net = "ftm_test"
              THEN {"ProviderRegistryOwner"}
              ELSE {})
        \cup (IF net = "tenderlyFTM"
              THEN {"SturdyOracle"}
              ELSE {})

\* Wrapped tokens.
WrappedTokens(net) ==
    {"WFTM", "WETH", "WBTC"}

\* The symbols the table of price feeds has on a network ...
FeedKeys(net) ==
    CASE net = "ftm" \/ net = "tenderlyFTM" ->
           {"DAI", "USDC", "fUSDT", "yvWFTM", "yvWETH", "yvWBTC", "yvBOO",
            "TOMB", "MIMATIC", "BASED", "mooTOMB_FTM", "mooTOMB_MIMATIC",
            "yvfBEETS", "BEETS", "yvLINK", "yvCRV", "yvSPELL",
            "mooBASED_MIMATIC"}
      [] OTHER ->
           {}

\* ... and those that have a feed.
Feeds(net) ==
    CASE net = "ftm" \/ net = "tenderlyFTM" ->
           {"DAI", "USDC", "fUSDT", "yvWFTM", "yvWETH", "yvWBTC", "yvBOO",
            "TOMB", "MIMATIC", "BASED", "mooTOMB_FTM", "mooTOMB_MIMATIC",
            "yvfBEETS", "BEETS", "yvLINK", "yvCRV", "yvSPELL",
            "mooBASED_MIMATIC"}
      [] OTHER ->
           {}

\* The keys of the configuration that give an address on a network.
Configured(net) ==
    ReserveAddresses(net) \cup UnderlyingTokens(net) \cup
        StrategyVaults(net) \cup
        Venues(net) \cup
        DeployedBefore(net) \cup
        WrappedTokens(net)

=============================================================================

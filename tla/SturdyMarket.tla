----------------------------- MODULE SturdyMarket -----------------------------
(***************************************************************************)
(* src/markets/sturdy: the configuration of the Ethereum market as the     *)
(* deployment scripts read it, on the networks a migration exists for.     *)
(* Of an address only whether the configuration has one is kept.           *)
(***************************************************************************)
EXTENDS MarketParams

------------------------------------------------------------------------------
\* Interest rate strategies: name, optimal utilisation and second slope in per
\* cent, capacity in millions of tokens (0: unlimited).

rateStrategyStableTwo == RateStrategy("rateStrategyStableTwo", 80, 60, 0)
rateStrategySTETH == RateStrategy("rateStrategySTETH", 45, 0, 0)
rateStrategyYVRETH_WSTETH == RateStrategy("rateStrategyYVRETH_WSTETH", 45, 0, 0)
rateStrategyCVXRETH_WSTETH ==
    RateStrategy("rateStrategyCVXRETH_WSTETH", 45, 0, 0)
rateStrategyCVXFRAX_3CRV == RateStrategy("rateStrategyCVXFRAX_3CRV", 45, 0, 0)
rateStrategyCVXSTECRV == RateStrategy("rateStrategyCVXSTECRV", 45, 0, 0)
rateStrategyCVXDOLA_3CRV == RateStrategy("rateStrategyCVXDOLA_3CRV", 45, 0, 0)
rateStrategyCVXMIM_3CRV == RateStrategy("rateStrategyCVXMIM_3CRV", 45, 0, 0)
rateStrategyCVXDAI_USDC_USDT_SUSD ==
    RateStrategy("rateStrategyCVXDAI_USDC_USDT_SUSD", 45, 0, 0)
rateStrategyCVXHBTC_WBTC == RateStrategy("rateStrategyCVXHBTC_WBTC", 45, 0, 0)
rateStrategyCVXIRON_BANK == RateStrategy("rateStrategyCVXIRON_BANK", 45, 0, 0)
rateStrategyCVXFRAX_USDC == RateStrategy("rateStrategyCVXFRAX_USDC", 45, 0, 0)
rateStrategyAURADAI_USDC_USDT ==
    RateStrategy("rateStrategyAURADAI_USDC_USDT", 45, 0, 0)
rateStrategyCVXTUSD_FRAXBP ==
    RateStrategy("rateStrategyCVXTUSD_FRAXBP", 45, 0, 0)
rateStrategyAURABB_A_USD == RateStrategy("rateStrategyAURABB_A_USD", 45, 0, 0)
rateStrategyAURABB_A3_USD == RateStrategy("rateStrategyAURABB_A3_USD", 45, 0, 0)

------------------------------------------------------------------------------
\* Parameters of the reserves: what may be borrowed, and at which loan to value,
\* liquidation threshold and bonus a collateral counts.

strategyDAI == Lent(rateStrategyStableTwo, 18, 1000, 10)
strategyUSDC == Lent(rateStrategyStableTwo, 6, 1000, 10)
strategyUSDT == Lent(rateStrategyStableTwo, 6, 1000, 10)
strategySTETH == Collateral(rateStrategySTETH, 18, 7000, 7500, 10750)
strategyYVRETH_WSTETH ==
    Collateral(rateStrategyYVRETH_WSTETH, 18, 7000, 7500, 10750)
strategyCVXRETH_WSTETH ==
    Collateral(rateStrategyCVXRETH_WSTETH, 18, 9000, 9300, 10200)
strategyCVXFRAX_3CRV ==
    Collateral(rateStrategyCVXFRAX_3CRV, 18, 9000, 9300, 10200)
strategyCVXSTECRV == Collateral(rateStrategyCVXSTECRV, 18, 9000, 9300, 10200)
strategyCVXDOLA_3CRV ==
    Collateral(rateStrategyCVXDOLA_3CRV, 18, 9000, 9300, 10200)
strategyCVXMIM_3CRV ==
    Collateral(rateStrategyCVXMIM_3CRV, 18, 8300, 8500, 10600)
strategyCVXDAI_USDC_USDT_SUSD ==
    Collateral(rateStrategyCVXDAI_USDC_USDT_SUSD, 18, 9000, 9300, 10200)
strategyCVXHBTC_WBTC ==
    Collateral(rateStrategyCVXHBTC_WBTC, 18, 9000, 9300, 10200)
strategyCVXIRON_BANK ==
    Collateral(rateStrategyCVXIRON_BANK, 18, 9000, 9300, 10200)
strategyCVXFRAX_USDC ==
    Collateral(rateStrategyCVXFRAX_USDC, 18, 9000, 9300, 10200)
strategyAURADAI_USDC_USDT ==
    Collateral(rateStrategyAURADAI_USDC_USDT, 18, 9000, 9300, 10200)
strategyCVXTUSD_FRAXBP ==
    Collateral(rateStrategyCVXTUSD_FRAXBP, 18, 9000, 9300, 10200)
strategyAURABB_A_USD ==
    Collateral(rateStrategyAURABB_A_USD, 18, 9000, 9300, 10200)
strategyAURABB_A3_USD ==
    Collateral(rateStrategyAURABB_A3_USD, 18, 9000, 9300, 10200)

------------------------------------------------------------------------------
\* The reserves in the order in which they are created.
ReservesConfig ==
    <<<<"DAI", strategyDAI>>, <<"USDC", strategyUSDC>>,
      <<"USDT", strategyUSDT>>, <<"stETH", strategySTETH>>,
      <<"yvRETH_WSTETH", strategyYVRETH_WSTETH>>,
      <<"cvxRETH_WSTETH", strategyCVXRETH_WSTETH>>,
      <<"cvxFRAX_3CRV", strategyCVXFRAX_3CRV>>,
      <<"cvxSTECRV", strategyCVXSTECRV>>,
      <<"cvxDOLA_3CRV", strategyCVXDOLA_3CRV>>,
      <<"cvxMIM_3CRV", strategyCVXMIM_3CRV>>,
      <<"cvxDAI_USDC_USDT_SUSD", strategyCVXDAI_USDC_USDT_SUSD>>,
      <<"cvxHBTC_WBTC", strategyCVXHBTC_WBTC>>,
      <<"cvxIRON_BANK", strategyCVXIRON_BANK>>,
      <<"cvxFRAX_USDC", strategyCVXFRAX_USDC>>,
      <<"auraDAI_USDC_USDT", strategyAURADAI_USDC_USDT>>,
      <<"cvxTUSD_FRAXBP", strategyCVXTUSD_FRAXBP>>,
      <<"auraBB_A_USD", strategyAURABB_A_USD>>,
      <<"auraBB_A3_USD", strategyAURABB_A3_USD>>>>

\* The reserves the market lists on a network ...
ReserveAssets(net) ==
    CASE net = "main" \/ net = "tenderly" ->
           {"DAI", "USDC", "USDT", "stETH", "cvxFRAX_3CRV", "cvxMIM_3CRV",
            "cvxDAI_USDC_USDT_SUSD", "cvxFRAX_USDC", "auraDAI_USDC_USDT",
            "cvxTUSD_FRAXBP", "auraBB_A_USD", "auraBB_A3_USD"}
      [] OTHER ->
           {"DAI", "USDC", "stETH"}

\* ... and those for which it has an address before anything is deployed: tokens
\* of others, and internal assets of an earlier deployment.
ReserveAddresses(net) ==
    CASE net = "main" \/ net = "tenderly" ->
           {"DAI", "USDC", "USDT", "stETH", "cvxFRAX_3CRV", "cvxMIM_3CRV",
            "cvxDAI_USDC_USDT_SUSD", "cvxFRAX_USDC", "cvxTUSD_FRAXBP",
            "auraBB_A3_USD"}
      [] OTHER ->
           {"DAI", "USDC", "stETH"}

\* Tokens the vaults earn or trade.
RewardTokens(net) ==
    {"Lido"}
        \cup (IF net # "goerli"
              THEN {"WSTETH", "CRV", "CVX", "BAL", "SNX", "TUSD", "SUSD", "AURA",
                    "FRAX", "MIM"}
              ELSE {})

\* Pool tokens of Curve and Balancer.
LPTokens(net) ==
    (IF net # "goerli"
              THEN {"RETH_WSTETH_LP", "FRAX_3CRV_LP", "BAL_DAI_USDC_USDT_LP",
                    "STECRV_LP", "DOLA_3CRV_LP", "MIM_3CRV_LP",
                    "DAI_USDC_USDT_SUSD_LP", "HBTC_WBTC_LP", "IRON_BANK_LP",
                    "FRAX_USDC_LP", "TUSD_FRAXBP_LP", "BAL_BB_A_USD_LP",
                    "BAL_BB_A3_USD_LP"}
              ELSE {})

\* Contracts of other protocols.
Venues(net) ==
    {"CurveswapLidoPool", "UniswapRouter", "CurveswapAddressProvider"}
        \cup (IF net # "goerli"
              THEN {"YearnRETHWstETHVault", "AavePool"}
              ELSE {})

\* Contracts of an earlier deployment that a new one takes over.
DeployedBefore(net) ==
    (IF net = "goerli"
              THEN {"ProviderRegistry", "ProviderRegistryOwner",
                    "LendingRateOracle", "LendingPoolCollateralManager",
                    "LendingPoolConfigurator", "LendingPool"}
              ELSE {})

\* The wrapped native token.
WrappedEther(net) ==
    {"WETH"}

\* The symbols the table of price feeds has on a network ...
FeedKeys(net) ==
    CASE net = "main" ->
           {"DAI", "USDC", "USDT", "stETH", "cvxFRAX_3CRV", "cvxMIM_3CRV",
            "cvxDAI_USDC_USDT_SUSD", "cvxFRAX_USDC", "auraDAI_USDC_USDT",
            "cvxTUSD_FRAXBP", "auraBB_A_USD", "auraBB_A3_USD", "USD", "CRV",
            "CVX", "BAL", "SNX", "FRAX", "TUSD", "SUSD", "AURA", "MIM"}
      [] net = "tenderly" ->
           {"DAI", "USDC", "USDT", "stETH", "cvxFRAX_3CRV", "cvxMIM_3CRV",
            "cvxDAI_USDC_USDT_SUSD", "auraDAI_USDC_USDT", "cvxFRAX_USDC",
            "cvxTUSD_FRAXBP", "auraBB_A_USD", "auraBB_A3_USD", "USD", "CRV",
            "CVX", "BAL", "SNX", "FRAX", "TUSD", "SUSD", "AURA", "MIM"}
      [] OTHER ->
           {"DAI", "USDC", "stETH", "USD"}

\* ... and those that have a feed.
Feeds(net) ==
    CASE net = "main" ->
           {"DAI", "USDC", "USDT", "stETH", "USD", "CRV", "CVX", "BAL",
            "SNX", "FRAX", "TUSD", "SUSD"}
      [] net = "tenderly" ->
           {"DAI", "USDC", "USDT", "stETH", "cvxFRAX_3CRV", "cvxMIM_3CRV",
            "cvxDAI_USDC_USDT_SUSD", "cvxFRAX_USDC", "cvxTUSD_FRAXBP",
            "USD", "CRV", "CVX", "BAL", "SNX", "FRAX", "TUSD", "SUSD"}
      [] OTHER ->
           {}

\* The keys of the configuration that give an address on a network.
Configured(net) ==
    ReserveAddresses(net) \cup RewardTokens(net) \cup
        LPTokens(net) \cup
        Venues(net) \cup
        DeployedBefore(net) \cup
        WrappedEther(net)

=============================================================================

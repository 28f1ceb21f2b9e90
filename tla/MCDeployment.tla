----------------------------- MODULE MCDeployment -----------------------------
(***************************************************************************)
(* The migrations of src/tasks/migrations on the networks they are run on. *)
(***************************************************************************)
EXTENDS DeploymentProperties

M == INSTANCE OperatorTasks
Sturdy == INSTANCE SturdyMarket
Fantom == INSTANCE FantomMarket

MCPrograms == {"main", "tenderly", "goerli", "ftm", "tenderlyFTM", "ftm_test"}
MCComplete == {"main", "tenderly"}

\* One definition for each script, so that TLC evaluates it once.
MainWhole == M!sturdy_mainnet("main")
MainInitialize == M!SturdyInitialize("main")
OtherVaults == M!OtherVaults
Implementations == M!Implementations
SingleContracts == M!SingleContracts
Mocks == M!Mocks
YearnRETH == M!full_deploy_yearn_reth_wsteth_vault
MainSuite == M!initializeMakeSuite
MainVerification == M!Verifications
NewVaultParameters == M!NewVaultParameters
NewAsset == M!NewAsset
FtmSuite == M!initializeFantomMakeSuite
FtmVerification == M!verify_general("Fantom")
TenderlyWhole == M!sturdy_mainnet("tenderly")
TenderlyInitialize == M!SturdyInitialize("tenderly")
GoerliWhole == M!sturdy_testnet("goerli")
GoerliRest == M!SturdyTestnetTasks("goerli")
GoerliInitialize == M!SturdyTestnetInitialize("goerli")
FtmWhole == M!sturdy_ftm("ftm")
FtmRest == M!FantomTasks("ftm")
FtmInitialize == M!FantomInitialize("ftm")
TenderlyFTMWhole == M!sturdy_ftm("tenderlyFTM")
TenderlyFTMInitialize == M!FantomInitialize("tenderlyFTM")
FtmTestWhole == M!sturdy_ftm_testnet("ftm_test")
FtmTestRest == M!FantomTestnetTasks("ftm_test")
FtmTestInitialize == M!FantomTestnetInitialize("ftm_test")

MCScripts ==
    [main |-> [whole |-> MainWhole, initialize |-> MainInitialize,
               vaults |-> OtherVaults, reth |-> YearnRETH,
               implementations |-> Implementations, single |-> SingleContracts,
               mocks |-> Mocks, suite |-> MainSuite,
               verification |-> MainVerification, newAsset |-> NewAsset,
               newVault |-> NewVaultParameters],
     tenderly |-> [whole |-> TenderlyWhole, initialize |-> TenderlyInitialize],
     goerli |-> [whole |-> GoerliWhole, initialize |-> GoerliInitialize,
                 rest |-> GoerliRest],
     ftm |-> [whole |-> FtmWhole, initialize |-> FtmInitialize, rest |-> FtmRest,
             suite |-> FtmSuite, verification |-> FtmVerification],
     tenderlyFTM |-> [whole |-> TenderlyFTMWhole, initialize |-> TenderlyFTMInitialize],
     ftm_test |-> [whole |-> FtmTestWhole, initialize |-> FtmTestInitialize,
                   rest |-> FtmTestRest]]

SturdyConfig(net) ==
    [configured |-> Sturdy!Configured(net) \cup {"USD"}, feeds |-> Sturdy!Feeds(net),
     feedKeys |-> Sturdy!FeedKeys(net), reserveAssets |-> Sturdy!ReserveAssets(net)]
FantomConfig(net) ==
    [configured |-> Fantom!Configured(net) \cup {"USD"}, feeds |-> Fantom!Feeds(net),
     feedKeys |-> Fantom!FeedKeys(net), reserveAssets |-> Fantom!ReserveAssets(net)]

MainConfig == SturdyConfig("main")
TenderlyConfig == SturdyConfig("tenderly")
GoerliConfig == SturdyConfig("goerli")
FtmConfig == FantomConfig("ftm")
TenderlyFTMConfig == FantomConfig("tenderlyFTM")
FtmTestConfig == FantomConfig("ftm_test")

MCConfig ==
    [main |-> MainConfig, tenderly |-> TenderlyConfig, goerli |-> GoerliConfig,
     ftm |-> FtmConfig, tenderlyFTM |-> TenderlyFTMConfig, ftm_test |-> FtmTestConfig]

=============================================================================

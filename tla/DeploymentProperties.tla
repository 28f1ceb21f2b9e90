------------------------- MODULE DeploymentProperties -------------------------
(***************************************************************************)
(* What a deployment must have achieved, at its end and when it stopped in *)
(* between.                                                                *)
(***************************************************************************)
EXTENDS Deployment, ContractsGetters

\* The programs whose migration deploys the Ethereum market completely.
CONSTANT Complete
ASSUME CompleteAssumption == Complete \subseteq Programs

------------------------------------------------------------------------------
Statuses == {"running", "crashed", "failed", "done"}
IsContract(c) == DOMAIN c = {"kind", "run", "at"} /\ c.run \in 0 .. MaxRuns /\ c.at \in Nat

\* Contracts were deployed by a run that has begun, names lead to contracts, and
\* the roles are held by accounts that exist.
TypeOK ==
    /\ program \in Programs /\ run \in 1 .. MaxRuns
    /\ mode \in STRING /\ pc \in Nat \ {0}
    /\ instruction = InstructionAt(Scripts[program][mode], pc)
    /\ status \in Statuses
    /\ disturbances \in 0 .. MaxDisturbances
    /\ \A name \in DOMAIN db : IsContract(db[name]) /\ db[name].run <= run
    /\ IsContract(it)
    /\ chain.admin \in {"none", "signer", "helper"}
    /\ chain.rateOwner \in {"none", "signer", "helper"}
    /\ chain.vaults \subseteq DOMAIN chain.cuts

Named(name) == name \in DOMAIN db

\* The system on the chain was begun by the run that is going on, which is a
\* migration and not a part of one.
Fresh ==
    /\ mode = "whole" /\ Named("LendingPoolAddressesProvider")
    /\ db["LendingPoolAddressesProvider"].run = run

Deployed == status = "done" /\ mode = "whole" /\ program \in Complete

------------------------------------------------------------------------------
\* A script reaches a contract through a name of deployed-contracts.json and the
\* interface its getter puts on it; both are strings written by hand in two
\* files.  Whatever has been deployed, by whatever runs, the contract under a
\* name is of the kind the getter of that name expects, and a vault registered
\* with the pool can be found again: exactly one name leads to it, which no other
\* vault has taken.
GettersFindTheirKind ==
    /\ \A g \in Getters : Named(g[1]) => db[g[1]].kind = g[2]
    /\ Fresh => \A v \in chain.vaults :
                    Cardinality({name \in DOMAIN db : db[name] = v}) = 1

\* Nothing the provider names, and no vault that takes part in the system, is
\* left over from an earlier run: a second run must not wire an old contract into
\* the new system although the file still lists it.
NoLeftovers ==
    LET Current(c) == c.run = 0 \/ c.run >= db["LendingPoolAddressesProvider"].run
    IN  Named("LendingPoolAddressesProvider") =>
            /\ \A s \in DOMAIN chain.slots : Current(chain.slots[s].at)
            /\ \A v \in chain.vaults : Current(v)
            /\ \A t \in DOMAIN chain.reserves : Current(chain.reserves[t].yield)
            /\ \A t \in DOMAIN chain.accepted : Current(chain.accepted[t].vault)

\* The slots the contracts of the Ethereum market read from the provider.
SlotsRead ==
    {"LENDING_POOL", "LENDING_POOL_CONFIGURATOR", "LENDING_POOL_COLLATERAL_MANAGER",
     "PRICE_ORACLE", "LENDING_RATE_ORACLE", "COLLATERAL_ADAPTER", "LIDO",
     "STETH_ETH_POOL", "WETH", "VR_YIELD_DISTRIBUTOR", "YIELD_DISTRIBUTOR_ADAPTER",
     "YIELD_MANAGER", "YIELD_PROCESSOR", "LEVERAGE_SWAP_MANAGER", "APR_PROVIDER",
     "CURVE_ADDRESS_PROVIDER"}

\* A finished migration has set every slot the contracts read, and no
\* implementation behind a proxy is left to be initialized by a stranger.  Two
\* exceptions: deployCurveswapAdapterLibrary sets CURVE_ADDRESS_PROVIDER only when
\* it deploys the library, which a migration started again finds in the file; and
\* the incentive token's implementation is left open.
SlotsSet ==
    Deployed =>
        /\ SlotsRead \ DOMAIN chain.slots
               \subseteq (IF run = 1 THEN {} ELSE {"CURVE_ADDRESS_PROVIDER"})
        /\ \A s \in DOMAIN chain.slots \ {"INCENTIVE_TOKEN"} :
               chain.slots[s].impl # chain.slots[s].at => chain.slots[s].impl \in chain.sealed

AdminReturned == status = "done" => chain.admin = "signer"

\* The helper contracts that act as pool admin and as owner of the rate oracle
\* have given both roles back to the deployer when a script ends well.
PowerReturned == AdminReturned /\ (status = "done" => chain.rateOwner # "helper")

\* From the moment a reserve exists the oracle has a source for its token, and
\* the token is the one its vault issued and not one of an earlier deployment
\* that the configuration still names; leverage too is offered on tokens of this
\* pool only.
ReservesWired ==
    /\ Fresh /\ program \in Complete =>
           \A t \in DOMAIN chain.reserves :
               /\ t \in DOMAIN chain.prices
               /\ chain.reserves[t].yield \in DOMAIN chain.issued =>
                      chain.issued[chain.reserves[t].yield] = t
    /\ DOMAIN chain.swappers \subseteq DOMAIN chain.reserves

\* Treasury fee and incentive ratio of a vault are set by two calls, of which only
\* the second looks at the other; together they leave part of the yield to the
\* lenders, after every transaction of every script.
CutsLeaveYield ==
    \A v \in DOMAIN chain.cuts : chain.cuts[v].fee + chain.cuts[v].incentive < 10000

\* The adapter sends users to the variable distributor only for tokens that are
\* registered there, with the vault that earns the reserve's yield, at any moment
\* between the two transactions.
DistributorsKnowTheirAssets ==
    \A t \in chain.variable :
        /\ t \in DOMAIN chain.rewards
        /\ chain.rewards[t] = chain.reserves[t].yield

\* Every collateral can be deposited through the adapter, into the vault that the
\* reserve takes its yield from; stETH has no yield vault and goes to Lido's.
CollateralAccepted ==
    Deployed =>
        \A t \in DOMAIN chain.reserves :
            chain.reserves[t].params.collateralEnabled =>
                \E x \in DOMAIN chain.accepted :
                    /\ chain.accepted[x].internal = t
                    /\ chain.accepted[x].vault =
                           IF chain.reserves[t].yield = Zero THEN db["LidoVault"]
                           ELSE chain.reserves[t].yield

\* What is started on a finished deployment finds it: the test suite comes to its
\* first test, the task that adds an asset to its end, and the verification is
\* handed contracts of the kind it submits the source of, and proxies where it
\* takes the contract in a slot of the provider for one.  The exception is
\* verify:tokens, which submits the debt tokens with the address of the aToken.
TasksFindTheSystem ==
    mode \in {"suite", "verification", "newAsset", "newVault"} /\ program \in Complete =>
        /\ status # "failed"
        /\ instruction.op = "verify" /\ instruction.args[1] # "AToken" =>
               db[instruction.args[1]].kind = instruction.args[2]
        /\ instruction.op = "verifyProxy" =>
               /\ instruction.args[1] \in DOMAIN chain.slots
               /\ chain.slots[instruction.args[1]].at # chain.slots[instruction.args[1]].impl

\* A migration to the Ethereum market that crashes anywhere, or that a deposit
\* made fail, completes when it is started again from the beginning.
MigrationCompletes ==
    (run = 1 /\ program \in Complete)
        ~> ((mode = "whole" /\ status = "done") \/ mode = "initialize")

------------------------------------------------------------------------------
\* Every migration of the repository ends well when nothing disturbs it.
MigrationsFinish == mode = "whole" /\ disturbances = 0 => status # "failed"

=============================================================================

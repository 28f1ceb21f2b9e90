# A TLA+ model of the Sturdy lending protocol

Sturdy is a fork of Aave v2 in which collateral is put to work in yield
strategies: borrowers deposit collateral through vaults, the vaults stake it,
and what it earns goes to the suppliers of the lent assets, to holders of the
collateral's aToken and to the treasury. The repository holds three programs,
and this directory models all of them: the contracts (`src/contracts`), the
TypeScript that deploys, initializes and verifies them (`src/helpers`,
`src/markets`, `src/tasks`), and the scenario tests, which carry a second
implementation of the interest logic (`src/test-suites/*/helpers`). It consists
of TLA+ modules, TLC configurations, and proofs checked by TLAPS.
`PROJECT.json` maps every definition to the lines it models and lists runs,
theorems, hazards and findings.

## 1. The system

### 1.1 Inventory

| Component | State | Operations | Interacts with |
|---|---|---|---|
| `LendingPool` + libraries | reserves (indexes, rates, time stamp), user bitmaps, pause flag | deposit, withdraw(From), borrow, repay, depositYield, getYield, setUserUseReserveAsCollateral, liquidationCall, finalizeTransfer, setPause | tokens (mint/burn), oracle (prices), vaults (deposit/withdraw for a user), configurator |
| `LendingPoolCollateralManager` | none of its own (delegatecall) | liquidationCall | tokens, vault (`withdrawOnLiquidation`) |
| `AToken`, `ATokenForCollateral`, `VariableDebtToken`, `StableDebtToken` | scaled balances, supplies, delegation allowances | mint, burn, transfer, mintToTreasury, approveDelegation | pool (callback `finalizeTransfer`), incentives controller (`handleAction`) |
| `DefaultReserveInterestRateStrategy` | immutable parameters, capacity | calculateInterestRates | read by the pool |
| `LendingPoolConfigurator`, `ReserveConfiguration` | the configuration word of every reserve, the list of reserves | initReserve, enable/disable borrowing and collateral, (de)activate, (un)freeze, factors, strategies | pool, tokens |
| Vaults (`GeneralVault`, `IncentiveVault`, one contract per strategy) | treasury fee, incentive ratio | depositCollateral, withdrawCollateral, processYield, withdrawOnLiquidation | pool, external strategy, yield manager, distributors |
| `VaultWhitelist` | allowed users and contracts per vault | add/remove | vaults |
| `YieldManager` | list of reward tokens, exchange token, curve pools | registerAsset, unregisterAsset, setExchangeToken, setCurvePool, distributeYield | exchanges, `depositYield` of the pool |
| `VariableYieldDistribution` | index of rewards per aToken, expected and claimable rewards per user | registerAsset, handleAction, receivedRewards, claimRewards | aTokens, vaults |
| `StakedTokenIncentivesController`, `DistributionManager`, `StableYieldDistribution`, `YieldDistributorAdapter` | emission, index and user indexes per aToken; list of distributors | handleAction, claimRewards, configureAssets, setDistributionEnd, add/removeStableYieldDistributor | aTokens |
| `StructuredVault`, `ERC4626Vault`, `StaticAToken` | shares over positions in the pool | deposit, withdraw, enter/exitPosition, processYield | pool, leverage swaps |
| `GeneralLevSwap2` and leverage swaps, liquidators | none between calls | enter/exitPositionWithFlashloan, liquidation | pool, vaults, flash loans, exchanges |
| Oracles, address registries, proxies, data providers | feeds, addresses | views, setters | read by the others |
| Deployment helpers (`contracts-deployments`, `contracts-getters`, `init-helpers`, `oracles-helpers`) | `deployed-contracts.json`; what the process keeps in memory | deploy and save, look up by name, initialize and configure reserves | chain, market configuration |
| Markets (`markets/sturdy`, `markets/ftm`) | tables of addresses, feeds, reserves, strategies per network | (data; vault tasks overwrite addresses in memory) | read by the tasks |
| Tasks and migrations (`tasks/full`, `tasks/testnet`, `tasks/migrations`) | none beyond the above | one task per step, several hundred transactions for a market | helpers, markets, chain |
| Operator tasks (`tasks/verifications`, `tasks/helpers`, `initializeMakeSuite`) | none | verify, add an asset, print the parameters of a vault, set up the suite | file of addresses, chain, block explorer |
| Scenario tests (`scenario-engine`, `actions`, `calculations`) | the story, data read before the transaction, the prediction | one action per operation of the pool | pool, data provider, block time |

### 1.2 What is hard about it

Every external call is atomic: the hard part is the order of the calls of
many parties, with time, prices and earnings passing in between.

* A value is read through a view that is normalized to *now* in one place and
  through a stored index in another: `repay` decides that a debt is gone from
  the view and burns at the stored index.
* Every conversion rounds, half up, between scaled and plain amounts and
  between shares and assets.
* One movement of an aToken calls back into the pool (health test), into the
  incentives controller, into each stable distributor and into the variable
  one, which looks at the vault: any of them can stop the movement.
* Rewards are credited when the vault *could* send them and are claimable only
  once it *has* sent them.
* Long sequences of legal administrative calls (ratios, ends of
  distributions, flags, lists with swap-and-pop removal) meet users in the middle.

Off the chain it is the other way round: nothing is atomic.

* A migration is several hundred awaits in one process. It can die at any of
  them, or a transaction can be refused; the chain and the file stay as they
  are, the memory is gone, and the operator starts again, in whole or in part.
* A reserve is open to everybody from the transaction that creates it, and is
  configured by a later one, which a deposit in between makes revert.
* Contracts are found by names in a file that outlives the runs, tokens by
  symbols in tables that tasks overwrite in memory; both are written by hand in
  two or more places.
* Two helper contracts are given the pool admin's role and the rate oracle for
  a while.
* A test predicts the state after a transaction from what it read before it,
  while time passes between read, transaction and second read.

The list `hazards` of `PROJECT.json` puts each of these at its line, with the
properties that would catch it going wrong.

### 1.3 What makes each part correct

* Pool: no debt without the bit that makes it count; suppliers' claims covered
  by liquidity and debt; an operation leaves its account healthy; a liquidation
  takes no more than it should; brakes hold; nobody's position changes by the
  calls of others.
* Configurator: a call changes its aspect of a reserve and nothing else, the
  terms stay sound, ids lead back to their reserve, funds are not locked in
  an inactive reserve, but where the test for emptiness is deceived (section 5).
* Distributors: never promise more than was sent or emitted, never lose what
  was promised, never take as sent more than a harvest can send.
* Yield manager: spends all it swaps, in proportion to the volumes, each
  token by its own adapter.
* Deployment: whatever happened before, the system a migration leaves is wired
  to itself and to nothing older, every power is given back, every collateral
  can be deposited and priced, and a migration that was interrupted can be completed.
* Operator tasks find what a migration leaves behind.
* Scenario tests: the prediction and the pool agree, and an expected refusal is
  a refusal whatever was played before.

## 2. Modules

| Module | Models | |
|---|---|---|
| `WadRayMath` | `WadRayMath`, `PercentageMath`, `MathUtils` | operators |
| `ReserveLogic` | `ReserveLogic`, `DefaultReserveInterestRateStrategy` | operators over a `ReserveData` record |
| `LendingPoolStorage` | storage of the pool and its tokens; balances, `GenericLogic` | state and views |
| `LendingPool` | `LendingPool`, `LendingPoolCollateralManager`, `ValidationLogic`, the tokens | actions |
| `LendingPoolProperties` | | what the pool promises |
| `VariableYieldDistribution` | the contract of that name, the reward side of `ConvexCurveLPVault` and `IncentiveVault`, the fee of `GeneralVault` | component |
| `IncentivesController` | `StakedTokenIncentivesController`, `DistributionManager`, `StableYieldDistribution`, `YieldDistributorAdapter` | component |
| `YieldManager` | the contract of that name; swaps external | component |
| `LendingPoolConfigurator` | the contract of that name, `ReserveConfiguration`, `_addReserveToList` | component |
| `ReserveTerms` | | abstract specification that `LendingPoolConfigurator` implements |
| `DeployInstructions` | `contracts-helpers`, the calls a script makes | operators: an instruction is a record |
| `ContractsDeployments`, `ContractsGetters` | the files of those names | one operator per deploy function; the names and kinds of the getters |
| `MarketParams`, `SturdyMarket`, `FantomMarket` | `markets/` | tables |
| `InitHelpers` | `init-helpers`, `oracles-helpers` | operators |
| `FullTasks`, `TestnetTasks`, `Migrations` | the tasks of those directories | one operator per task: a sequence of instructions |
| `OperatorTasks` | verification, new asset, new vault, `initializeMakeSuite` | the same |
| `Deployment` | the process, the file, the chain, the operator | actions |
| `DeploymentProperties` | | what a deployment promises |
| `TestMath`, `TestCalculations`, `FantomTestCalculations` | `utils/math`, `utils/calculations` of both suites | operators |
| `TestHarness`, `TestActions`, `FantomTestActions` | `utils/helpers`, `actions` of both suites | state and operators over `LendingPool` |
| `ScenarioEngine`, `ScenarioProperties` | `scenario-engine` of both suites | actions; what the tests promise |
| `MC*` | | instances for TLC |
| `WadRayMathProofs`, `SumProofs` | | lemmas about the arithmetic and about sums |
| `LendingPoolProofs`, `VariableYieldProofs`, `IncentivesProofs`, `YieldManagerProofs`, `ConfiguratorProofs`, `DeploymentProofs` | | theorems |

`LendingPool` EXTENDS `LendingPoolStorage` EXTENDS `ReserveLogic` EXTENDS
`WadRayMath`; the other components take their arithmetic from `WadRayMath` too.
`ScenarioEngine` composes the tests with the pool: `TestHarness` EXTENDS
`LendingPool`, and a transaction of a test is an action of the pool.
`Deployment` is a machine for any scripts; `MCDeployment` gives it the scripts
of the repository.

### 2.1 LendingPool

A reserve is a *debt asset* (an `AToken` and a `VariableDebtToken`, rates and
indexes) or a *collateral* (an internal asset of a vault, an
`ATokenForCollateral`, no rates), as in every market configuration of the
repository; the configurator excludes an asset that is both
(`LentOrCollateral`). `reserve` holds the accruing part of `ReserveData`,
`usingAsCollateral` and `borrowing` are the two halves of the user bitmap, as
sets; `aBalance`/`aSupply` and `debtBalance`/`debtSupply` are the balances and
supplies the tokens store (scaled), `cash` the underlying an aToken holds.

An action is one external call with everything it makes the tokens and the
collateral manager do, enabled exactly when the call does not revert. Its
guards are the `require`s, the underflows of checked arithmetic, the divisions
by zero and the zero amounts that `mint` and `burn` refuse. `deposit` and
`withdraw` are those of a debt asset; `depositCollateral`,
`withdrawCollateral` and `getYield` are the calls that the vault of a
collateral makes. `AdvanceTime`, `OracleUpdate` and `VaultEarns` are the
environment. Stable borrowing is dead in this version (the stable loan size is
never set) and left out. Guards that only refuse and read nothing modelled
(the freshness test of the oracle, the vault's slippage test after a
liquidation, the sender's own balance) are left out: a call they refuse is a
call that is not made.

### 2.2 VariableYieldDistribution

One aToken with its vault. The rewards of the vault are in two places: `earned`
is what is pending for it in the external strategy, `vaultBalance` what it already
holds. It *reports* the incentive out of the first (`getCurrentTotalIncentiveAmount`)
and *sends* the incentive out of both, because a harvest has the strategy pay
first. Anybody can have the strategy pay the vault (`getReward`): the report then
falls, below what the distributor has last seen if a movement came between, and
every movement of the aToken is refused until somebody harvests or as much is
earned again. `RewardsAvailable` is that guard.
Every `mint`, `burn` and `transfer` notifies the distributor with the balances
of before; `processYield` and `setIncentiveRatio` harvest; the fee and the
ratio have their own setters. What the code calls `10 ** PRECISION` is `RAY`.

### 2.3 IncentivesController

One aToken, the controller and any number of `StableYieldDistribution`
contracts behind the adapter's array. Both hold the same index code, so
`assets` has one record per distributor. `emitted` and `claimed` are history:
what the emission has released, what claims have reported.

### 2.4 YieldManager

The list with its count (slots behind the count keep their content), the
exchange token, the curve pools and the balances. `distributeYield` is the
whole call: swap a window of reward tokens, split by volume, swap each part,
deposit each as yield. A swap returns the oracle's amount or less by the
slippage.

### 2.5 LendingPoolConfigurator

The configuration of a reserve is the set of the bits set in the 256 bit word;
getters and setters are the masks and shifts of `ReserveConfiguration`.
`MarketChanges` is what deposits, loans and repayments make of a reserve, with the
flags and the factor they are subject to, and `depositYield` what a yield does.
`market` says how much of a reserve's deposits is there; `rated` whether its
strategy has a rate (`setReserveInterestRateStrategyAddress` may give it one
without, under which the pool calculates none and keeps the old one); `earning`
whether the stored liquidity rate is above zero. These are the two things
`_checkNoLiquidity` looks at. Where everything is lent, a strategy with a rate and a
factor below 100 % is taken to leave suppliers a rate above zero: rates are in rays,
and the smallest share, one ten thousandth, of one per cent is 10^21 of them. Loans
at the stable rate are left out. `ReserveTerms` is the same administration with a
record instead of a word; `ImplementsTerms` says that the word implements it.

### 2.6 Deployment

A script is a sequence of instructions, each one transaction or one access to
the file: `new`, `save`, `load`, `proxy`, `init`, `configure` and so on. A task
is the concatenation of what its helpers do, so that the modules read like the
TypeScript: `full_deploy_lido_vault`, `deployCollateralAdapter`,
`initReservesByHelper`. An instruction names what it needs: names that must be
in the file, tokens that must have an address, and whether the caller must be
the pool admin. `Deployment` executes one instruction per step, or throws when
the instruction cannot be executed (`CanRun`): then the process ends, as an
awaited call that rejects ends a task.

`db` is `deployed-contracts.json`, a function from names to contracts; a
contract is its kind, the run and the instruction that made it. `chain` is the
system that one addresses provider leads to: slots, vaults and their cuts,
price sources, reserves, rewards, collateral, leverage, and who holds the two
roles. `it`, `tokenAddresses` and `adminRead` are the memory of the process: the
contract last deployed, the internal assets' addresses that vault tasks write
into `ReserveAssets`, the admin that `8-initialize` reads. `Crash` ends the
process between two awaits, `DepositEarly` is a user who finds an open reserve,
`RerunWhole` and `RerunInitialize` are the operator, `RunOther` the tasks no
migration runs (other vaults, new implementations, mocks, the rest of a
migration that failed, verification, the test suite, a new asset or vault).

Taken as given: an empty string handed to ethers as an address is the zero address;
transactions sent without `waitForTx` take effect in the order they are sent; an
operator who edits the market file between the vault task and `deploy-new-asset`
enters the address the vault issued. Scripts are sent by the registry's configured
owner, the only account that `add-market-to-registry` (lines 67-75) lets pass where
the registry is configured; forks impersonate it. Fork and tenderly variants that
read the tables of another network are that network.

### 2.7 Scenario tests

An action of a story goes through the phases of `executeAction`: the data before
is read, the transaction is mined or throws, the data after is read, the
prediction is calculated and compared. Time passes before the transaction
(every block has a new time stamp) and, where a borrow travels in time, before
the second read. Both suites are modelled; where `test-ftm` has a copy of a
calculation, the operator refers to the original (`Copy!`). `Stories` are the
kinds of story the JSON files tell, played in any order: more than any file
does, so a prediction that only holds because of a file's order is found.
A story that throws ends, and the next one begins, as mocha does it.

## 3. Runs

| Run | Instance | Shows |
|---|---|---|
| `pool_interest` | two users, one collateral, one debt asset with rates, 9 steps | no hidden debt, supplies are sums, solvency, monotonic indexes, bystanders unaffected, fair liquidations |
| `pool_collateral` | two courses of 8 steps: a vault that earns and two prices; delegation, time, pause and freeze | collateral stays backed, operations leave accounts healthy, emptied collateral is unmarked, the brakes hold |
| `variable_yield` | two holders, ratios 0/40/80 %, fee, 8 steps; anybody has the vault paid | claims are funded, a harvest covers what was credited, nothing promised is lost |
| `variable_yield_view` | the same, 6 steps | *violation*: a claim may pay less than the view announces |
| `incentives` | an aToken with the controller alone: two emissions, two ends, 3 seconds; one with a stable distributor that is listed, removed and funded, 1 second | at most the emission is promised, no call costs anybody rewards |
| `zero_emission` | emission may be zero | *violation*: more is promised than emitted |
| `yield_manager` | two reward tokens, three reserves, 4 calls | adapter follows token, nothing left behind, fair split |
| `configurator` | two assets, room for two; on one of them all setters, values at the edges of the fields, strategies with and without a rate | the word implements the terms; lent or collateral; nobody is locked in, but where the last liquidity was lent on terms that pay nothing; ids lead back |
| `deceived_emptiness` | one asset, factors 0 and 100 % | *violation*: a reserve with deposits is switched off |
| `deployment` | six migrations, three runs, one crash or early deposit | names lead to what their getter expects; no leftovers; slots set and implementations sealed; power returned; reserves priced and wired to their vaults; cuts leave yield; distributors know their assets; collateral accepted; operator tasks find the system; a migration to Ethereum completes |
| `fantom_migration` | `sturdy:ftm`, undisturbed | *violation*: it stops in task 7-1 |
| `scenarios` | both suites, eleven kinds of story, four of them in any order, 3 seconds | predictions agree with the pool, expected refusals are refusals |

**Bounds.** `MaxSteps` bounds the number of calls: the longest scenario of
interest (supply, collateral, borrow, time, price, liquidate, repay, withdraw)
has eight or nine. `MaxTime`, `MaxSupply`, `MaxBalance`, `MaxListed` and
`MaxIndex` bound one quantity each. Where there is no `MaxSteps` the instance
is finite and explored completely. The fixed point scales are parameters: with
`RAY` 10 000 and amounts of thousands every rounding of the code happens and
integers stay within TLC's 32 bits; the proofs hold for every scale. Amounts
are uneven on purpose so that conversions round. Users are interchangeable
(symmetry). `SolvencySlack` and `BackingSlack` are the rounding an instance
may accumulate, in units of the asset: half up rounding in favour of either
side is what the code does, and each call adds at most a unit or two.
`LiquidationIsFair` allows for what the divisions of a liquidation may drop: the
call computes the debt it pays from the collateral it seizes or the other way
round, and the payment comes out up to two units of debt and one unit of value short.
`pool_*`, `variable_*`, `incentives` and `yield_manager` say
`CHECK_DEADLOCK FALSE`, because a bounded instance ends at its bound, and
`deployment` and `scenarios`, because a migration and a suite end;
the configurator run checks deadlock.

Three MC modules restrict an instance to keep it small. In `pool_collateral`
either the market moves or the administrator acts (`Courses`); `pool_interest`
has neither. In `incentives` the controller is reconfigured when it is alone,
and the list changes at a steady emission. In `configurator` one
reserve at a time is administered, since no setter reads another reserve.

`MaxRuns` is 3: the disturbed run, the run that repairs it, and one more after a
repair that failed. One disturbance can fall on any of the 135 000 states; two
in the same place say nothing new, as the file keeps a name for the last run only.
`ReserveTolerance` and `UserTolerance` stand for the absolute tolerances of the
Fantom suite (10000 and 1000 wei), scaled to the instance.

The factors of `configurator` are 100 %, where suppliers get nothing, the widest
value of the field, above 100 %, where the rates cannot be calculated, and one more
than the field holds; 0 is there from the start.

**Fairness.** Nothing in the contracts schedules a call, so no fairness is
assumed for them. A migration is a process: `FairSpec` assumes that it goes
on (`WF_vars(Step)`: an awaited transaction is mined or refused), and that an
operator whose run stopped starts the migration again (`WF_vars(RerunWhole)`).
The second is what the task is for: the code has no other way to resume.
`MigrationCompletes` leaves out behaviours in which the operator chooses to
repeat `8-initialize` alone, which cannot succeed after a crash (section 5).

## 4. Proofs

TLC checks an instance; the theorems below hold for all users, assets, amounts,
scales and sequences of calls. The assumptions are those of the modules: the
scales are positive (`MathAssumption`), the configuration is typed, users are
finitely many, collaterals and debt assets disjoint (`StorageAssumption`),
amounts natural numbers (`PoolAssumption`, `DistributionAssumption`,
`ControllerAssumption`, `YieldManagerAssumption`, `SlackAssumption`), a collateral
has a liquidation bonus, as `configureReserveAsCollateral` demands
(`BonusAssumption`), and scripts lend their powers as those of the repository do
(`RolesAssumption`, section 4.6). TLC evaluates each of them in
the runs. Inductive invariants were checked with TLC on the instances first.

| Module | Theorem | Property |
|---|---|---|
| `LendingPoolProofs` | `TypeCorrectness`, `EveryDebtIsVisible`, `IndexesAreMonotonic` | `TypeOK`, `NoHiddenDebt`, `IndexesNeverFall` |
| | `SuppliesAddUp`, `BrakesAlwaysHold`, `EmptiedIsUnmarked` | `SupplyIsSumOfBalances`, `BrakesHold`, `EmptiedCollateralIsUnmarked` |
| | `BystandersUnharmed`, `BystandersKeepTheirDebt` | `BystandersUnaffected` |
| | `CollateralStaysBacked`, `LiquidationsAreFair` | `CollateralBacked`, `LiquidationIsFair` |
| `VariableYieldProofs` | `DistributionTypes`, `HarvestIsNeverRefused`, `ViewsAreFunded`, `NobodyLosesRewards` | `TypeOK`, `HarvestCoversCredits`, `RewardsFunded`, `ClaimsNeverShrink` |
| `IncentivesProofs` | `EmissionIsRespected`, `NobodyIsDeprived` | `EmissionBound`, `RewardsKept` |
| `YieldManagerProofs` | `ManagerTypes`, `AdapterStaysWithAsset`, `EverythingIsSpent`, `SplitIsFair` | `TypeOK`, `SwapTypeFollowsAsset`, `NothingLeftBehind`, `FairSplit` |
| `ConfiguratorProofs` | `ConfigurationTypes`, `NeverBoth`, `IdsAreRight`, `NobodyIsLockedOut`, `WordsImplementTerms` | `TypeOK`, `LentOrCollateral`, `IdsLeadBack`, `OnlyUnpaidLockedOut`, `ImplementsTerms` |
| `DeploymentProofs` | `AdminIsReturned`, `PowerIsReturned`, `DeploymentTypes` | `PowerReturned`, `TypeOK` |

### 4.1 Lemmas about the operators

* `WadRayMathProofs`: products and quotients of naturals are naturals;
  monotonicity; and `RoundTrip`, the fact on which repayment rests: a scaled
  amount of at least one, converted at one index and back at an index that is
  not larger, rounds to at least itself. It needs the index to be at least one ray.
* `SumProofs`: what `SumFunctionOnSet` of the community modules computes. An
  empty sum is zero, an element can be taken out (`SumRemove`), one or two
  values may change, sums are monotonic and additive. The library's induction
  principles cannot be instantiated here; the lemmas are proved without them, by a smallest
  counterexample: a set of naturals has a least element, so among the subsets for
  which a claim fails there is one of least cardinality (`SmallestSubset`).

### 4.2 The pool

`NoHiddenDebt` is not inductive: `repay` clears the bit when the *view* is
paid, at the index normalized to now, and burns the debt at the *stored* index
after accrual, which stays behind the view when the liquidity rate is zero. The
invariant `IInv` adds `TypeOK` and `IndexesSound` (indexes of at least a ray, no
time stamp in the future): the stored index is then at most the view's, and by
`RoundTrip` the burn takes the whole scaled debt or underflows and reverts. The
same invariant gives the monotonicity of the indexes.

`SuppliesAddUp` follows row by row: an operation changes a token's supply by
exactly what it changes its balances (`TokensKept`, one lemma per action), in
one row or, for a liquidation and a transfer between accounts, at two accounts of it.
`liquidationCall` is the long case: it may pay in aTokens, in the asset,
to the borrower itself, and burns and mints in two reserves. The two
action properties need one lemma per action as well (`Guarded`).

*Bystanders.* Balances are read through indexes normalized to now, so a call
harms a bystander only through the index it stores. `ViewsKept` says of a stored
state that its views at this moment give suppliers no less and borrowers no more than
the old ones; accrual, a yield and new rates have it, and therefore every action
(`BystandersUnharmed`, without a hypothesis). That debts do not *fall* either has an
exception in the code: `_updateIndexes` does nothing while the liquidity rate is
zero, yet the time stamp moves, and what borrowers owed for the time before is
never charged. A reserve is in that state when its borrowers owe a rate, and the
suppliers' share of it rounds to zero or the reserve factor takes all
(`InterestSkipped`). `BystandersKeepTheirDebt` has its absence as a hypothesis; in
every state of both pool instances TLC finds it absent.

*Backing.* A deposit or a withdrawal rounds the shares it moves half up, so the
holding of a collateral may fall short by a unit with each, and no constant slack is
inductive. The theorem counts: a history variable `changes` has, for each
collateral, the changes of the supply since the vault last took its yield, and
`BackingIInv` says that the holding misses at most one unit more than that. It needs
that a unit is worth at least half a ray, which holds at first and is kept because
the price per share never falls in the model (`VaultEarns`): a strategy that loses
value is left out. A harvest leaves exactly what the supply stands for, so the count
begins again: rounding does not pile up across harvests. `FewChanges` says that the
count is below the slack; the history variable restricts no step of the pool.

*Liquidations.* Three amounts can limit a liquidation: half of the debt, the cover
that is offered and the collateral there is. In the first two the seizure is
computed from the payment, in the third the payment from the seizure, by truncating
divisions and a half-up percentage (`InETH`, `percentMul`, `percentDiv`). In each
case the seized value is at most the payment plus the bonus, for a payment larger by
two units and a value larger by one. A bonus of more than 100 % is needed: below
it the remainder is multiplied when the percentage is undone. No other action takes
collateral and reduces debt of one user in one step (`BorrowSeizesNothing`,
`RepaySeizesNothing`).

### 4.3 The distributors

`HarvestIsNeverRefused`: `receivedRewards` subtracts what the distributor has last
seen from what the vault sends, and would revert a harvest that sends less. The
inductive form is `LastSeenBounded`. What is seen is the share of what is pending,
which is at most the share of all the vault can send; earning adds to that,
`getReward` moves it, a harvest clears all three and a new ratio harvests first. What
the theorem does not say: a movement of the token may well be refused after a
`getReward`, and a harvest too, by the vault itself, if the fee and the ratio exceed 100 %
together (`setTreasuryInfo` after `setIncentiveRatio`) or if both are rounded up
on an amount they divide completely.

`ViewsAreFunded` says that rounding never adds up against the distributor. The
inductive invariant `FInv` adds that no user's index is above the asset's
(`IndexesOrdered`) and that the credits of all users in units of 1 / RAY, the
exact share of growth not yet settled included, are within what has been or can
be sent (`CreditsCovered`); settling a user rounds that user's credit down. The
views are covered by what has arrived (`ViewsCovered`), which is not a
consequence: expected rewards count for a view only up to what the vault sent.

The same idea proves `EmissionIsRespected`: the credits in units of
1 / PRECISION and the emission since the last update are within what was
emitted (`Sound`). It has two hypotheses, and both are needed. `0 \notin
Emissions`: the code ignores movements while the emission is zero, which the run
`zero_emission` shows to break the bound. `MovesAnnounced`: the token moves only while
every stable distributor with an emission is in the adapter's list, since
otherwise the movement is not announced to it and the same happens.
`initReservesByHelper` configures the distributor one transaction before it
lists it (`init-helpers.ts`, line 278): the hypothesis says that nobody moves the
token in between. A claim and then a deposit in that gap would break the bound.

### 4.4 The yield manager

`IInv` is `TypeOK` with `SwapTypeFollowsAsset`. The parts are rounded half up,
and the last reserve gets the rest; `PartsAddUp` says that the parts add up to the total
whatever the percentages are, and `ShareBounds` bounds each part from both sides. The
model keeps the reserves that lend as a set with the last of them in the
order of the list (`lastAsset`), because the order matters for nothing else.

### 4.5 The configurator

The masks and shifts are proved for all values, not only at the edges: writing
a field of a word changes the terms read from it in that aspect only (one lemma per
setter and getter). From these come the refinement `WordsImplementTerms`, which
maps the word to the record of `ReserveTerms`, and `NeverBoth`. `IdsAreRight`
needs `Listed`: the list and the ids are inverse to each other, and an asset not listed
has id zero. `NobodyIsLockedOut` has no hypothesis on rates or factors: it says that a
reserve with deposits stays active unless, at some time, its last liquidity was lent
on terms that pay suppliers nothing (`unpaid`, a history variable that restricts no
step). The invariant `DInv` adds that in every other reserve that has lent
everything suppliers earn (`LentEarns`): a later change of the factor or of the
strategy does not touch the stored rate, and a yield brings liquidity back. That
the exception is real is the run `deceived_emptiness`.

### 4.6 The deployment

A script lends the pool admin's role, and the rate oracle, to a helper contract
by one transaction, uses it by the next and gives it back by the third. What is
given back is the admin that `8-initialize` read before, hundreds of transactions
earlier or in another process. `RolesAssumption` is what the theorems ask of a script:
the three instructions follow each other; no skip leads between them; before a
role is lent the script has, at a place that no skip passes over, named the
deployer pool admin or done something only the pool admin may do, and has read
who the pool admin is; and a whole migration founds its system at a place of that
kind. TLC evaluates it on every script of the repository.

`IInv` follows these places: once the process is past one where the admin is known,
the deployer is the admin, or the helper is and what was read is the deployer
(`AdminSound`); once the system is founded the rate oracle is the helper's only between
the two transactions (`OwnerSound`). A crash between them leaves both with the
helper, and the invariant survives because it speaks of the places the *new* run has
passed: a run that did not get past one promises nothing. That is why
`PowerIsReturned` is about whole migrations, and `AdminIsReturned` about scripts
that need the admin (`NeedsAdmin`). On the scripts of the repository TLC finds
`PowerReturned` at the end of all others too: after a crash only `8-initialize` can be
started besides the migration, and it cannot finish (section 5).

`DeploymentTypes` needs more than types: a name that a script loads must be
among those the instruction requires, a skip takes over what the file has only
if it is there, and the file never names a run that has not begun.

### 4.7 Only model-checked

* `ReserveSolvent`: borrowers owe compounded interest and suppliers earn a linear
  one at a rate that is rounded half up, so that a single step of time may add to the gap
  an amount that is proportional to the supply and to the time: no constant per
  call bounds it, and a slack that does is not what the code promises anybody.
* `HealthPreserved`: a withdrawal is tested by subtracting the truncated value of the
  amount from the truncated value of the balance, so that what is left may be counted
  a unit of value higher than it is read afterwards, and a loan by the ratio
  before its debt is rounded to scaled units. In general the tests may pass an
  account that is a unit of value below health; TLC finds none on the instance.
* The other properties of `Deployment` are about names, addresses and numbers in
  the scripts of the repository, a finite system that TLC explores completely: a
  general theorem would assume of a script what it says. `ScenarioProperties`
  compare two implementations of the interest within tolerances chosen for the instance.
* `MigrationCompletes`: liveness.

## 5. Disagreements between the code and what is said of it

Four are runs of their own (`findings` in `PROJECT.json` quotes the lines):

* `variable_yield_view`: `_updateUserAssetInternal` returns early when the
  index has not grown, before it moves expected rewards to claimable ones.
* `zero_emission`: movements of a token are ignored while its emission is
  zero, and the user's index falls behind the balance.
* `deceived_emptiness`: `_checkNoLiquidity`, "no liquidity is deposited", tests the
  liquidity that is there and the rate. A reserve that has lent everything under a
  strategy without a rate, or with a factor of 100 %, passes with all its deposits.
* `fantom_migration`: the table of Fantom's reserves no longer has mooWETH, which
  task 7-1 registers a price source for.

Noticed while modelling; the models follow the code and no run is about them:
`setTreasuryInfo` does not look at the incentive ratio, so that both may
exceed the yield and `processYield` reverts; `_claimRewards` of the controller
and of `StableYieldDistribution` deducts a claim that it cannot pay;
`unregisterAsset` accepts the last index and removes nothing; a removed stable
distributor leaves a zero slot in the adapter's array;
`disableCollateralOnReserve` leaves the liquidation threshold.

In the deployment: `sturdy:ftm` would also stop at 7-5 (mooTOMB_FTM) and 7-12
(mooMIM_2CRV), on tenderlyFTM at its first task (no registry owner), and the testnet
migrations of both markets stop at the oracles (TOMB has no address there);
`MigrationCompletes` and the wiring properties are therefore about the Ethereum
market (`Complete`), and about whole systems: an `8-initialize` alone after a crash,
which reads addresses the dead process kept in memory, is outside `ReservesWired`
and `CollateralAccepted`. Task 6-1, which no migration runs, hands `setAssetSources`
two flags for one token. The testnet initialization reads a yield distributor
adapter that no testnet task deploys, and the testnet's configuration passes its
arguments shifted by one. On a second run `deployCurveswapAdapterLibrary` finds the
library in the file and does not set `CURVE_ADDRESS_PROVIDER` in the new provider,
the one slot `SlotsSet` excepts. A run that crashed while a helper contract was pool
admin, and an `8-initialize` started alone after a crash (the internal assets'
addresses were in memory), can only be repaired by the whole migration.
`verify:tokens` submits both debt tokens with the aToken's address and leaves the
capacity out of the strategy's arguments. `deploy-new-asset` sets no price source.
The Fantom suite cannot start on what `sturdy:ftm` deploys: it wants
TombFtmBeefyVault and mooTOMB_FTM.

In the tests: `calcExpectedReserveDataAfterDeposit` takes the liquidity as read
before the transaction, without the interest since; `setUseAsCollateral` is
compared with data from before; a repayment of more than the debt is not foreseen; these
are the exceptions in `Foreseen`. A deposit also predicts the variable debt as the
principal of the stable debt (`calculations.ts:96-101` assigns both), which the
pool keeps at zero: a story in which a borrower deposits the asset it owes would fail.
The instance has that story; `BorrowersDeposit` excuses this one field, and
all others must agree. `depositCollateral` on behalf of another
predicts the sender's data, so no story does it. When a revert is expected the Fantom suite
passes yvWFTM instead of WFTM, so that the vault refuses whatever the state.
The engine turns "stable" into the variable mode.

## 6. Not modelled

Oracles, proxies, most data providers, interfaces, mocks and vendored code:
views, formulas over external feeds or plumbing without protocol state. Stable debt:
dead. `approve` and `permit`. Liquidator contracts: they call
`liquidationCall`, which is modelled, inside a flash loan. Overflow of 256 bits.
Of the TypeScript: `*.spec.ts` and the audit tests (single runs with fixed
amounts against a forked network), `sturdy.ftm.deployVaultHelper` (hard-coded
addresses of a live system, mostly commented out), accounts, snapshots and
faucets of the suites, printing tasks, type declarations, and clients of
services. The block explorer is external.
The rest of `components` with the status `partly` or `not_modelled` is planned:

## 7. Plan

1. `StructuredVault`: deposits and withdrawals by share index, supply, exit and
   lending yield, distribution of yield through the index, migration. Every
   conversion truncates; properties: holders never get more than was put in and
   earned, a bystander's value does not shrink, the index falls only by a loss.
2. Vaults: the way of collateral from the user's asset through the strategy
   to the internal asset and back, with slippage and whitelist;
   the vault keeps nothing between calls and the internal asset is backed by the staked one.
   Compose with `LendingPool` through an abstract vault.
3. `ERC4626Vault` and `StaticAToken`: shares over aTokens with a copy of the
   reward index.
4. Leverage swaps: the loop of borrow and deposit under a flash loan.
5. Proofs: a bound for `ReserveSolvent` in terms of supply and time from the
   distance of linear and compounded interest; `HealthPreserved` up to a unit of value;
   lemmas on the share conversions of the vaults.

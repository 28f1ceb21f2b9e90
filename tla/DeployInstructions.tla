-------------------------- MODULE DeployInstructions --------------------------
(***************************************************************************)
(* The steps a deployment script is made of.  A task of src/tasks is an    *)
(* asynchronous TypeScript function; between two of its awaits it performs *)
(* one transaction or one write to deployed-contracts.json, and the        *)
(* process can die before the next.  A script is therefore a sequence of   *)
(* instructions, and module Deployment says what each of them does to the  *)
(* chain and to the file.                                                  *)
(*                                                                         *)
(* The local variable that holds the contract last deployed or looked up   *)
(* is the register "it" of that machine: New, Load and Proxy set it, Save  *)
(* and Point use it.                                                       *)
(***************************************************************************)
EXTENDS Sequences

\* One instruction: what it does, its arguments, the names it looks up in
\* deployed-contracts.json, the tokens whose addresses it passes, and whether
\* the contract it calls demands the pool admin.
Instr(op, args, needs, tokens, asAdmin) ==
    << [op |-> op, args |-> args, needs |-> needs, tokens |-> tokens,
        asAdmin |-> asAdmin] >>

Provider == "LendingPoolAddressesProvider"

------------------------------------------------------------------------------
\* Deploying, and the file of deployed contracts

\* new XFactory(signer).deploy(...): the transaction, not yet recorded.
New(kind) == Instr("new", <<kind>>, {}, {}, FALSE)

\* registerContractInJsonDb / insertContractAddressInDb of the contract in "it".
Save(id) == Instr("save", <<id>>, {}, {}, FALSE)

\* withSaveAndVerify(await new XFactory(signer).deploy(), id, ...).
Deployed(kind, id) == New(kind) \o Save(id)

\* A getter of contracts-getters.ts called without an address.
Load(id) == Instr("load", <<id>>, {id}, {}, FALSE)

\* A library is deployed only if the file has no address for it.
UnlessSaved(id, body) ==
    Instr("skip", <<"db", id, Len(body)>>, {}, {}, FALSE) \o body

\* A contract is deployed only if the market's configuration has no address
\* for it on this network (notFalsyOrZeroAddress).
UnlessConfigured(key, body) ==
    Instr("skip", <<"config", key, Len(body)>>, {}, {}, FALSE) \o body

\* A price oracle is deployed only if the market has no feed for the symbol.
UnlessFeed(sym, body) ==
    Instr("skip", <<"feed", sym, Len(body)>>, {}, {}, FALSE) \o body

\* An error the script throws itself, unless the configuration has the key.
ThrowUnless(key) == UnlessConfigured(key, Instr("throw", <<>>, {}, {}, FALSE))

\* Handles of all these contracts are looked up before anything is done.
Needs(ids) == Instr("call", <<>>, ids, {}, FALSE)

\* The addresses of these tokens are used, and none may be missing.
UseTokens(tokens) == Instr("call", <<>>, {}, tokens, FALSE)

\* A call on the contract in "it" that its owner makes.
CallIt == Instr("call", <<>>, {}, {}, FALSE)

------------------------------------------------------------------------------
\* The addresses provider

\* setAddressAsProxy(slot, it) (or one of set...Impl), then getAddress(slot).
Proxy(slot) == Instr("proxy", <<slot>>, {Provider}, {}, FALSE)

\* setAddress(slot, it).
Point(slot) == Instr("point", <<slot>>, {Provider}, {}, FALSE)

\* setAddress(slot, the address the configuration gives for key).
PointTo(slot, key) == Instr("pointTo", <<slot, key>>, {Provider}, {key}, FALSE)

\* setAddress(slot, the account of the deployer).
PointToSigner(slot) == Instr("pointTo", <<slot, "signer">>, {Provider}, {}, FALSE)

\* setPoolAdmin and setEmergencyAdmin with the accounts of the configuration.
SetAdmin == Instr("admin", <<>>, {Provider}, {}, FALSE)

\* registerAddressesProvider of the registry in "it".
RegisterProvider == Instr("call", <<>>, {Provider}, {}, FALSE)

\* impl.initialize(provider): the implementation in "it" is initialized so that
\* nobody else can do it.
Initialize == Instr("initialize", <<>>, {Provider}, {}, FALSE)

\* A contract behind a proxy whose implementation is left as deployed: recorded
\* as implId and put behind the slot; the tokens of extras are given slots of
\* their own; the proxy is recorded as id.
ProxiedUnsealed(kind, implId, slot, extras, id) ==
    Deployed(kind, implId) \o Proxy(slot) \o extras \o Save(id)

\* The same, the implementation initialized before it is used.
Proxied(kind, implId, slot, extras, id) ==
    Deployed(kind, implId) \o Initialize \o Proxy(slot) \o extras \o Save(id)

------------------------------------------------------------------------------
\* Calls on the deployed contracts

\* configurator.registerVault(vault).
RegisterVault(id) ==
    Instr("vault", <<id>>, {id, "LendingPoolConfigurator"}, {}, TRUE)

\* vault.setTreasuryInfo(treasury, fee).
SetTreasuryInfo(id, fee) == Instr("terms", <<id, "fee", fee>>, {id}, {}, TRUE)

\* vault.setIncentiveRatio(ratio).
SetIncentiveRatio(id, ratio) ==
    Instr("terms", <<id, "incentive", ratio>>, {id}, {}, TRUE)

\* A call that only the pool admin may make and whose effect no property needs
\* (setConfiguration, setSlippage, setExchangeToken, setCurvePool ...).
AdminCall(id, tokens) == Instr("call", <<>>, {id}, tokens, TRUE)

\* The same for a call that its owner, the deployer, makes.
OwnerCall(id, tokens) == Instr("call", <<>>, {id}, tokens, FALSE)

\* ReserveAssets[network].sym = await vault.getInternalAsset(): the address is
\* kept in the memory of the process.
InternalAsset(sym, id) == Instr("asset", <<sym, id>>, {id}, {}, FALSE)

\* The price source of a token: the feed the configuration has for sym, or else
\* the oracle recorded as oracleId ("" if the script has no other source).
Source(token, sym, oracleId) ==
    [token |-> token, sym |-> sym, oracle |-> oracleId]

\* sturdyOracle.setAssetSources(assets, sources, invert): three arrays, the last
\* of the given length.
SetAssetSources(sources, flags) ==
    Instr("sources", <<sources, flags>>, {"SturdyOracle"},
          {sources[k].token : k \in DOMAIN sources}, FALSE)

\* setAssetSources of one token with the source another one has.
CopySource(token, from) ==
    Instr("copySource", <<token, from>>, {"SturdyOracle"}, {token, from}, FALSE)

\* priceOracle.setAssetPrice(token, price): the oracle of the test networks.
SetAssetPrice(token) == Instr("price", <<token>>, {"PriceOracle"}, {token}, FALSE)

\* new SturdyOracle(tokens, aggregators, ...): the tokens of the market that have
\* a feed are watched from the start.  Every listed token must have an entry in
\* the table of feeds; the script reads the entries before it deploys.
CheckPairs == Instr("pairs", <<>>, {}, {}, FALSE)
WatchPairs == Instr("watch", <<>>, {}, {}, FALSE)

------------------------------------------------------------------------------
\* Reserves

\* configurator.batchInitReserve: each reserve is [sym, params, vault], vault
\* the name of its yield vault or "" for the zero address.
BatchInitReserve(batch) ==
    Instr("init", batch, {"LendingPoolConfigurator"},
          {batch[k].sym : k \in DOMAIN batch}, TRUE)

\* incentives.configureAssets of the aTokens of these reserves.
ConfigureAssets(id, syms) == Instr("call", <<>>, {id}, syms, FALSE)

\* yieldDistributorAdapter.addStableYieldDistributor and
\* setVariableYieldDistributor of a reserve.
AddStable(sym, id) ==
    Instr("call", <<>>, {"YieldDistributorAdapter", id}, {sym}, FALSE)
SetVariable(sym) ==
    Instr("variable", <<sym>>,
          {"YieldDistributorAdapter", "VariableYieldDistribution"}, {sym}, FALSE)

\* variableYieldDistributor.registerAsset(aToken, vault).
RegisterAsset(sym, vault) ==
    Instr("reward", <<sym, vault>>,
          {"LendingPool", "VariableYieldDistribution"}, {sym}, FALSE)

\* admin = await addressesProvider.getPoolAdmin().
ReadAdmin == Instr("readAdmin", <<>>, {Provider}, {}, FALSE)

\* setPoolAdmin of the helper contract, what the helper then does with the
\* power of the pool admin, and setPoolAdmin of the admin read before.
GrantAdmin == Instr("grant", <<>>, {Provider, "ATokensAndRatesHelper"}, {}, FALSE)
ConfigureReserves(batch) ==
    Instr("configure", batch, {"ATokensAndRatesHelper"},
          {batch[k].sym : k \in DOMAIN batch}, FALSE)
ReturnAdmin == Instr("return", <<>>, {Provider}, {}, FALSE)

\* The same with the ownership of the lending rate oracle in "it"; the addresses
\* of the tokens are looked up before the ownership is given away.
LendRates(tokens) ==
    Instr("lendRates", <<>>, {"StableAndVariableTokensHelper"}, tokens, FALSE)
SetBorrowRates(tokens) ==
    Instr("rates", <<>>, {"StableAndVariableTokensHelper"}, tokens, FALSE)
ReturnRates == Instr("returnRates", <<>>, {"StableAndVariableTokensHelper"}, {}, FALSE)

\* collateralAdapter.addCollateralAsset(external, internal asset, vault).
AddCollateralAsset(external, sym, vault) ==
    Instr("accept", <<external, sym, vault>>, {"CollateralAdapter", vault},
          {external, sym}, TRUE)

\* getAllATokens and getAllReservesTokens of the data provider in "it": the script
\* ends unless the pool lists all these tokens (process.exit(1)).
MustList(syms) == Instr("listed", <<syms>>, {}, {}, FALSE)

\* verifyContract of the contract a name leads to, as one of the given kind, and
\* of the proxy in a slot of the provider.  The block explorer is not part of the
\* system: neither changes anything.
VerifyContract(id, kind) == Instr("verify", <<id, kind>>, {id}, {}, FALSE)
VerifyProxy(slot) == Instr("verifyProxy", <<slot>>, {Provider}, {}, FALSE)

\* leverageManager.registerLevSwapper(internal asset, swapper).
RegisterLevSwapper(sym, id) ==
    Instr("lever", <<sym, id>>, {"LeverageSwapManager", id}, {sym}, TRUE)

=============================================================================

------------------------------ MODULE Deployment ------------------------------
(***************************************************************************)
(* A deployment as it happens: a process that executes the instructions of *)
(* a script one transaction at a time, the chain, the file                 *)
(* deployed-contracts.json, and the operator who starts the script again   *)
(* when it stopped.                                                        *)
(*                                                                         *)
(* The process can die between any two awaits.  What it kept in memory     *)
(* (the contract last deployed, the addresses of internal assets, the pool *)
(* admin it read) is then lost; the file and the chain stay.  The file is  *)
(* the only thing a later run knows of an earlier one.                     *)
(*                                                                         *)
(* The chain is kept as far as one addresses provider leads: a run that    *)
(* deploys a provider starts a new system, and the parts of the old one    *)
(* remain only where the file still names them.                            *)
(***************************************************************************)
EXTENDS Naturals, Sequences, FiniteSets

CONSTANTS
    Programs,          \* a migration together with the network it is run on
    Scripts,           \* Scripts[p][m]: the instructions of p's script m
    Config,            \* Config[p]: what the market's configuration gives p
    MaxRuns,           \* bound on the runs of one program
    MaxDisturbances    \* bound on crashes and on deposits that come too early

ASSUME ScriptsAssumption ==
    \A p \in Programs :
        {"whole", "initialize"} \subseteq DOMAIN Scripts[p] /\ DOMAIN Scripts[p] \subseteq STRING
ASSUME BoundsAssumption == MaxRuns \in Nat \ {0} /\ MaxDisturbances \in Nat

\* What the theorems ask of a script; each one of the repository has it.  No skip
\* passes over position k of script s.
Unskipped(s, k) == \A j \in 1 .. k - 1 : s[j].op = "skip" => j + s[j].args[3] < k

\* A provider is saved: a new system begins.
Founds(I) == I.op = "save" /\ I.args[1] = "LendingPoolAddressesProvider"

\* A role is lent by one instruction, used by the next and given back by the third.
Bracketed(s, lend, use, giveBack) ==
    \A k \in DOMAIN s :
        /\ s[k].op = lend =>
               k + 2 <= Len(s) /\ s[k + 1].op = use /\ s[k + 2].op = giveBack
        /\ s[k].op = giveBack => k > 2 /\ s[k - 2].op = lend

\* Once a script is past such a position the pool admin has been the deployer ...
AdminKnown(s, a) ==
    /\ Unskipped(s, a)
    /\ s[a].asAdmin \/ s[a].op = "admin"
    /\ \A j \in a .. Len(s) : ~Founds(s[j])

\* ... and the process has read who the pool admin is.
AdminRead(s, r) ==
    /\ Unskipped(s, r)
    /\ s[r].op = "readAdmin"
    /\ \A j \in r .. Len(s) : s[j].op # "admin" /\ ~Founds(s[j])

Disciplined(s) ==
    /\ Len(s) \in Nat /\ DOMAIN s = 1 .. Len(s)
    /\ Bracketed(s, "grant", "configure", "return")
    /\ Bracketed(s, "lendRates", "rates", "returnRates")
    /\ \A k \in DOMAIN s :
           /\ s[k].op # "end"
           /\ s[k].op = "load" => s[k].args[1] \in s[k].needs
           /\ s[k].op = "skip" =>
                  /\ s[k].args[3] \in Nat
                  /\ \A j \in DOMAIN s : s[j].op \in {"grant", "lendRates"} =>
                         k + 1 + s[k].args[3] \notin {j + 1, j + 2}
           /\ s[k].op = "grant" =>
                  /\ \E a \in 1 .. k - 1 : AdminKnown(s, a)
                  /\ \E r \in 1 .. k - 1 : AdminRead(s, r)

\* A whole migration founds its system before anything can be skipped, and then
\* names the pool admin.
ASSUME RolesAssumption ==
    \A p \in Programs :
        /\ \A m \in DOMAIN Scripts[p] : Disciplined(Scripts[p][m])
        /\ \E a \in DOMAIN Scripts[p]["whole"] : AdminKnown(Scripts[p]["whole"], a)
        /\ \E f \in DOMAIN Scripts[p]["whole"] :
               Unskipped(Scripts[p]["whole"], f) /\ Founds(Scripts[p]["whole"][f])

VARIABLES
    program, run, mode, \* which script of which program, and the how many-th run
    pc, instruction,    \* where the script is, and the instruction there
    status,             \* running, crashed, failed or done
    disturbances,       \* crashes and early deposits so far
    db,                 \* deployed-contracts.json: name -> contract
    it, tokenAddresses, adminRead, \* the memory of the process
    chain

vars == <<program, run, mode, pc, instruction, status, disturbances, db, it,
          tokenAddresses, adminRead, chain>>
memory == <<it, tokenAddresses, adminRead>>
operation == <<program, run, mode, disturbances>>
position == <<pc, instruction>>

Put(f, k, v) == [x \in DOMAIN f \cup {k} |-> IF x = k THEN v ELSE f[x]]
Without(f, k) == [x \in DOMAIN f \ {k} |-> f[x]]

\* A contract is known by what it is and by when it was deployed; an address the
\* configuration gives was there before the first run.
Contract(kind, r, at) == [kind |-> kind, run |-> r, at |-> at]
Given(key) == Contract(key, 0, 0)
Zero == Given("zero")

EmptyChain ==
    [admin |-> "none",        \* the pool admin
     rateOwner |-> "none",    \* the owner of the lending rate oracle
     slots |-> <<>>,          \* of the provider: name -> contract, implementation
     sealed |-> {},           \* implementations that were initialized
     vaults |-> {},           \* vaults registered with the pool
     cuts |-> <<>>,           \* vault -> its fee and incentive ratio
     issued |-> <<>>,         \* vault -> its internal asset
     prices |-> <<>>,         \* token -> its price source
     reserves |-> <<>>,       \* token -> its reserve
     rewards |-> <<>>,        \* token -> the vault its rewards come from
     variable |-> {},         \* tokens the adapter has a variable distributor for
     accepted |-> <<>>,       \* external token -> internal asset and vault
     swappers |-> <<>>]       \* token -> its leverage swapper

\* The instruction at k of a script; after the last one the process ends.
InstructionAt(script, k) ==
    IF k <= Len(script) THEN script[k]
    ELSE [op |-> "end", args |-> <<>>, needs |-> {}, tokens |-> {}, asAdmin |-> FALSE]

Init ==
    /\ program \in Programs
    /\ run = 1 /\ mode = "whole" /\ pc = 1 /\ status = "running"
    /\ instruction = InstructionAt(Scripts[program]["whole"], 1)
    /\ disturbances = 0
    /\ db = <<>>
    /\ it = Zero /\ tokenAddresses = <<>> /\ adminRead = "none"
    /\ chain = EmptyChain

------------------------------------------------------------------------------
AtInstruction == status = "running" /\ instruction.op # "end"

Goto(k) ==
    /\ pc' = k
    /\ instruction' = InstructionAt(Scripts[program][mode], k)

Has(sym) == sym \in DOMAIN tokenAddresses \cup Config[program].configured
AddressOf(sym) == IF sym \in DOMAIN tokenAddresses THEN tokenAddresses[sym] ELSE Given(sym)

HasSource(s) == s.sym \in Config[program].feeds \/ s.oracle \in DOMAIN db
SourceOf(s) == IF s.sym \in Config[program].feeds THEN Given(s.sym) ELSE db[s.oracle]

\* The listed tokens; the base currencies need no source of their own.
WatchedTokens == Config[program].reserveAssets \ {"ETH", "USD", "WETH"}

\* ReserveConfiguration's bounds and the checks of configureReserveAsCollateral.
ValidTerms(p) ==
    /\ p.baseLTVAsCollateral <= p.liquidationThreshold
    /\ IF p.liquidationThreshold = 0
       THEN p.liquidationBonus = 0
       ELSE /\ p.liquidationBonus > 10000
            /\ p.liquidationThreshold * p.liquidationBonus <= 10000 * 10000

\* Nobody may hold a token of a reserve that is made no collateral.
Configurable(r) ==
    LET token == AddressOf(r.sym)
    IN  /\ token \in DOMAIN chain.reserves
        /\ ValidTerms(r.params)
        /\ r.params.liquidationThreshold = 0 => ~chain.reserves[token].used

\* What the contract called, or the script itself, requires.
Permitted(I) ==
    CASE I.op = "throw" -> FALSE
      [] I.op = "proxy" -> I.args[1] \notin DOMAIN chain.slots
      [] I.op = "initialize" -> it \notin chain.sealed
      [] I.op = "terms" ->
           IF I.args[2] = "fee" THEN I.args[3] <= 3000
           ELSE chain.cuts[db[I.args[1]]].fee + I.args[3] <= 10000
      [] I.op = "sources" ->
           /\ I.args[2] = Len(I.args[1])
           /\ \A k \in DOMAIN I.args[1] : HasSource(I.args[1][k])
      [] I.op = "pairs" ->
           WatchedTokens \subseteq Config[program].feedKeys
      [] I.op = "init" ->
           \A k \in DOMAIN I.args :
               /\ AddressOf(I.args[k].sym) \notin DOMAIN chain.reserves
               /\ \A j \in DOMAIN I.args :
                      j # k => AddressOf(I.args[j].sym) # AddressOf(I.args[k].sym)
      [] I.op = "reward" ->
           /\ I.args[2] \in DOMAIN db
           /\ AddressOf(I.args[1]) \in DOMAIN chain.reserves \ DOMAIN chain.rewards
      [] I.op = "configure" ->
           chain.admin = "helper" /\ \A k \in DOMAIN I.args : Configurable(I.args[k])
      [] I.op = "lendRates" -> chain.rateOwner = "signer"
      [] I.op = "listed" ->
           I.args[1] \subseteq {chain.reserves[t].sym : t \in DOMAIN chain.reserves}
      [] I.op \in {"rates", "returnRates"} -> chain.rateOwner = "helper"
      [] OTHER -> TRUE

\* The instruction can be executed: every name it looks up is in the file, every
\* token has an address, and the deployer is the pool admin where that is asked.
CanRun(I) ==
    /\ I.needs \subseteq DOMAIN db
    /\ \A sym \in I.tokens : Has(sym)
    /\ I.asAdmin => chain.admin = "signer"
    /\ Permitted(I)

\* The next instruction is one of these, it succeeds, and the script goes on.
Executes(ops) ==
    /\ AtInstruction
    /\ instruction.op \in ops
    /\ CanRun(instruction)
    /\ UNCHANGED <<operation, status>>

\* A step that only changes the chain.
OnChain(new) ==
    chain' = new /\ Goto(pc + 1) /\ UNCHANGED <<db, memory>>

------------------------------------------------------------------------------
\* Contracts and names

\* A rate oracle belongs to the account that deploys it.
DeployContract ==
    /\ Executes({"new"})
    /\ it' = Contract(instruction.args[1], run, pc)
    /\ chain' = IF instruction.args[1] = "LendingRateOracle"
                THEN [chain EXCEPT !.rateOwner = "signer"] ELSE chain
    /\ Goto(pc + 1)
    /\ UNCHANGED <<db, tokenAddresses, adminRead>>

\* Mutant: a name that is in the file keeps the contract it stands for.
SaveContractOnce ==
    /\ Executes({"save"})
    /\ LET known == instruction.args[1] \in DOMAIN db
       IN  /\ db' = IF known THEN db ELSE Put(db, instruction.args[1], it)
           /\ chain' = IF Founds(instruction) /\ ~known THEN EmptyChain ELSE chain
    /\ Goto(pc + 1)
    /\ UNCHANGED memory

\* The name now stands for the new contract, whatever it stood for before.
SaveContract ==
    /\ Executes({"save"})
    /\ db' = Put(db, instruction.args[1], it)
    /\ chain' = IF Founds(instruction) THEN EmptyChain ELSE chain
    /\ Goto(pc + 1)
    /\ UNCHANGED memory

LoadContract ==
    /\ Executes({"load"})
    /\ it' = db[instruction.args[1]]
    /\ Goto(pc + 1)
    /\ UNCHANGED <<db, tokenAddresses, adminRead, chain>>

\* notFalsyOrZeroAddress(address) and the like: what exists is taken over, and
\* the instructions that would deploy it are passed over.
Found(where, key) ==
    CASE where = "db" -> key \in DOMAIN db
      [] where = "config" -> key \in Config[program].configured
      [] OTHER -> key \in Config[program].feeds

TakeOverOrDeploy ==
    /\ Executes({"skip"})
    /\ LET where == instruction.args[1]
           key == instruction.args[2]
       IN  IF Found(where, key)
           THEN /\ it' = IF where = "db" THEN db[key] ELSE Given(key)
                /\ Goto(pc + 1 + instruction.args[3])
           ELSE it' = it /\ Goto(pc + 1)
    /\ UNCHANGED <<db, tokenAddresses, adminRead, chain>>

\* A call whose effect no property needs.
Call ==
    /\ Executes({"call", "pairs", "rates", "listed", "verify", "verifyProxy"})
    /\ OnChain(chain)

------------------------------------------------------------------------------
\* The addresses provider

SetAddressAsProxy ==
    /\ Executes({"proxy"})
    /\ it' = Contract(it.kind, run, pc)
    /\ chain' = [chain EXCEPT !.slots = Put(@, instruction.args[1], [at |-> it', impl |-> it])]
    /\ Goto(pc + 1)
    /\ UNCHANGED <<db, tokenAddresses, adminRead>>

SetAddress ==
    /\ Executes({"point", "pointTo"})
    /\ LET target == IF instruction.op = "point" THEN it
                     ELSE IF instruction.args[2] = "signer" THEN Given("signer")
                     ELSE AddressOf(instruction.args[2])
       IN  OnChain([chain EXCEPT !.slots =
                       Put(@, instruction.args[1], [at |-> target, impl |-> target])])

\* PoolAdmin is undefined on every network, so the first signer gets the role.
SetPoolAdmin == Executes({"admin"}) /\ OnChain([chain EXCEPT !.admin = "signer"])

InitializeImplementation ==
    Executes({"initialize"}) /\ OnChain([chain EXCEPT !.sealed = @ \cup {it}])

------------------------------------------------------------------------------
\* Vaults and prices

RegisterVault ==
    /\ Executes({"vault"})
    /\ OnChain([chain EXCEPT !.vaults = @ \cup {db[instruction.args[1]]},
                             !.cuts = Put(@, db[instruction.args[1]], [fee |-> 0, incentive |-> 0])])

SetVaultTerms ==
    /\ Executes({"terms"})
    /\ OnChain([chain EXCEPT !.cuts[db[instruction.args[1]]][instruction.args[2]] = instruction.args[3]])

\* The vault has issued its asset in setConfiguration; the process reads the
\* address and keeps it in place of the configured one.
ReadInternalAsset ==
    /\ Executes({"asset"})
    /\ LET vault == db[instruction.args[2]]
           token == Contract(instruction.args[1], vault.run, vault.at)
       IN  /\ tokenAddresses' = Put(tokenAddresses, instruction.args[1], token)
           /\ chain' = [chain EXCEPT !.issued = Put(@, vault, token)]
    /\ Goto(pc + 1)
    /\ UNCHANGED <<db, it, adminRead>>

SetAssetSources ==
    /\ Executes({"sources"})
    /\ LET given == instruction.args[1]
           tokens == {AddressOf(given[k].token) : k \in DOMAIN given}
           Last(t) == CHOOSE k \in DOMAIN given :
                          /\ AddressOf(given[k].token) = t
                          /\ \A j \in DOMAIN given : AddressOf(given[j].token) = t => j <= k
       IN  OnChain([chain EXCEPT !.prices =
               [t \in DOMAIN @ \cup tokens |->
                   IF t \in tokens THEN SourceOf(given[Last(t)]) ELSE @[t]]])

\* A token without a source hands over the zero address, which is none.
CopyAssetSource ==
    /\ Executes({"copySource"})
    /\ LET token == AddressOf(instruction.args[1])
           from == AddressOf(instruction.args[2])
       IN  OnChain([chain EXCEPT !.prices =
               IF from \in DOMAIN @ THEN Put(@, token, @[from]) ELSE Without(@, token)])

SetAssetPrice ==
    /\ Executes({"price"})
    /\ OnChain([chain EXCEPT !.prices = Put(@, AddressOf(instruction.args[1]), db["PriceOracle"])])

\* The constructor of SturdyOracle: listed tokens that have both an address and
\* a feed.  The configuration has the empty string where it has neither, which is
\* taken here as the zero address, a source that is none.
WatchPairs ==
    /\ Executes({"watch"})
    /\ OnChain([chain EXCEPT !.prices =
           [t \in {Given(sym) : sym \in WatchedTokens \cap Config[program].configured
                                                     \cap Config[program].feeds} |-> t]])

------------------------------------------------------------------------------
\* Reserves

BatchInitReserve ==
    /\ Executes({"init"})
    /\ LET New(r) == [sym |-> r.sym, params |-> r.params,
                      strategy |-> db[r.params.strategy.name],
                      yield |-> IF r.vault = "" THEN Zero ELSE db[r.vault],
                      enabled |-> FALSE, used |-> FALSE]
           tokens == {AddressOf(instruction.args[k].sym) : k \in DOMAIN instruction.args}
           At(t) == CHOOSE k \in DOMAIN instruction.args : AddressOf(instruction.args[k].sym) = t
       IN  OnChain([chain EXCEPT !.reserves =
               [t \in DOMAIN @ \cup tokens |->
                   IF t \in tokens THEN New(instruction.args[At(t)]) ELSE @[t]]])

RegisterAsset ==
    /\ Executes({"reward"})
    /\ OnChain([chain EXCEPT !.rewards = Put(@, AddressOf(instruction.args[1]), db[instruction.args[2]])])

SetVariableYieldDistributor ==
    /\ Executes({"variable"})
    /\ OnChain([chain EXCEPT !.variable = @ \cup {AddressOf(instruction.args[1])}])

\* The pool admin is read once, and given the role back after the helper had it.
ReadPoolAdmin ==
    /\ Executes({"readAdmin"})
    /\ adminRead' = chain.admin
    /\ Goto(pc + 1)
    /\ UNCHANGED <<db, it, tokenAddresses, chain>>

LendPoolAdmin == Executes({"grant"}) /\ OnChain([chain EXCEPT !.admin = "helper"])

ConfigureReserves ==
    /\ Executes({"configure"})
    /\ LET tokens == {AddressOf(instruction.args[k].sym) : k \in DOMAIN instruction.args}
       IN  OnChain([chain EXCEPT !.reserves =
               [t \in DOMAIN @ |-> [@[t] EXCEPT !.enabled = @ \/ t \in tokens]]])

\* Mutant: the role goes to the contract last looked up.
ReturnPoolAdminAstray == Executes({"return"}) /\ OnChain([chain EXCEPT !.admin = it.kind])

\* Mutant: the helper keeps the role.
ReturnPoolAdminKept == Executes({"return"}) /\ OnChain(chain)

ReturnPoolAdmin == Executes({"return"}) /\ OnChain([chain EXCEPT !.admin = adminRead])

LendRateOracle == Executes({"lendRates"}) /\ OnChain([chain EXCEPT !.rateOwner = "helper"])
ReturnRateOracle ==
    Executes({"returnRates"}) /\ OnChain([chain EXCEPT !.rateOwner = "signer"])

AddCollateralAsset ==
    /\ Executes({"accept"})
    /\ OnChain([chain EXCEPT !.accepted =
           Put(@, AddressOf(instruction.args[1]),
               [internal |-> AddressOf(instruction.args[2]), vault |-> db[instruction.args[3]]])])

RegisterLevSwapper ==
    /\ Executes({"lever"})
    /\ OnChain([chain EXCEPT !.swappers =
           Put(@, AddressOf(instruction.args[1]), db[instruction.args[2]])])

------------------------------------------------------------------------------
\* The end of a run, what can disturb it, and the next run

Throw ==
    /\ AtInstruction /\ ~CanRun(instruction)
    /\ status' = "failed"
    /\ UNCHANGED <<operation, position, db, memory, chain>>

Finish ==
    /\ status = "running" /\ instruction.op = "end"
    /\ status' = "done"
    /\ UNCHANGED <<operation, position, db, memory, chain>>

Crash ==
    /\ AtInstruction
    /\ disturbances < MaxDisturbances
    /\ status' = "crashed" /\ disturbances' = disturbances + 1
    /\ UNCHANGED <<program, run, mode, position, db, memory, chain>>

\* A reserve is active as soon as it is created, so anyone can deposit into it
\* before it is configured.
DepositEarly ==
    /\ disturbances < MaxDisturbances
    /\ \E t \in DOMAIN chain.reserves :
          /\ chain.reserves[t].params.borrowingEnabled
          /\ ~chain.reserves[t].enabled /\ ~chain.reserves[t].used
          /\ chain' = [chain EXCEPT !.reserves[t].used = TRUE]
    /\ disturbances' = disturbances + 1
    /\ UNCHANGED <<program, run, mode, position, status, db, memory>>

\* A new process: nothing of the memory of the last one is left.
Start(m) ==
    /\ run < MaxRuns
    /\ run' = run + 1 /\ mode' = m
    /\ pc' = 1 /\ instruction' = InstructionAt(Scripts[program][m], 1)
    /\ status' = "running"
    /\ it' = Zero /\ tokenAddresses' = <<>> /\ adminRead' = "none"
    /\ UNCHANGED <<program, disturbances, db, chain>>

\* After a run that did not finish, the migration again ...
RerunWhole == status \in {"crashed", "failed"} /\ Start("whole")

\* ... or only the task that initializes the pool.
RerunInitialize == status \in {"crashed", "failed"} /\ Start("initialize")

\* A task that no migration runs, or the rest of a migration that failed, after
\* an undisturbed first run.
RunOther ==
    /\ run = 1 /\ disturbances = 0 /\ status \in {"done", "failed"}
    /\ \E m \in DOMAIN Scripts[program] \ {"whole", "initialize"} : Start(m)

Step ==
    \/ DeployContract \/ SaveContract \/ LoadContract \/ TakeOverOrDeploy \/ Call
    \/ SetAddressAsProxy \/ SetAddress \/ SetPoolAdmin \/ InitializeImplementation
    \/ RegisterVault \/ SetVaultTerms \/ ReadInternalAsset
    \/ SetAssetSources \/ CopyAssetSource \/ SetAssetPrice \/ WatchPairs
    \/ BatchInitReserve \/ RegisterAsset \/ SetVariableYieldDistributor
    \/ ReadPoolAdmin \/ LendPoolAdmin \/ ConfigureReserves \/ ReturnPoolAdmin
    \/ LendRateOracle \/ ReturnRateOracle
    \/ AddCollateralAsset \/ RegisterLevSwapper
    \/ Throw \/ Finish

Next == Step \/ Crash \/ DepositEarly \/ RerunWhole \/ RerunInitialize \/ RunOther

Spec == Init /\ [][Next]_vars

\* The process goes on, and an operator who does not choose the shorter script
\* starts the migration again.
FairSpec == Spec /\ WF_vars(Step) /\ WF_vars(RerunWhole)

=============================================================================

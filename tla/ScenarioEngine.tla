--------------------------- MODULE ScenarioEngine ---------------------------
(***************************************************************************)
(* The engine that plays stories against the pool (scenario-engine.ts of   *)
(* test-sturdy and its copy in test-ftm), in any order and any number of   *)
(* times, with time passing wherever a block is mined.  A comparison that  *)
(* does not hold, a transaction that unexpectedly fails or succeeds, and   *)
(* an action the engine does not know throw and end the story; the next    *)
(* one starts from the state it leaves.                                    *)
(***************************************************************************)
EXTENDS TestHarness, Sequences

Sturdy == INSTANCE TestActions
Fantom == INSTANCE FantomTestActions

engineVars == <<vars, harnessVars>>

\* Actions that compare, and all that the engine's switch knows.
Compared == {"deposit", "depositCollateral", "withdraw", "withdrawCollateral", "borrow",
             "repay", "setUseAsCollateral"}
Known == Compared \cup {"mint", "approve", "approveVault", "delegateBorrowAllowance"}

EngineInit ==
  /\ Init
  /\ suite \in Suites
  /\ stories = 0
  /\ story = <<>>
  /\ phase = "idle"
  /\ action = Nothing
  /\ before = Nothing
  /\ prediction = Nothing
  /\ txTimestamp = 0
  /\ wallet = [r \in Reserves |-> [u \in Users |-> 0]]
  /\ approvals = {}

\* Mutant: whatever is asked for is sent as the variable mode.
rateModeAlwaysVariable(borrowRateMode) == "variable"

\* 'stable' is sent as the variable mode; 'none' and improper modes as they are.
rateMode(borrowRateMode) ==
  IF borrowRateMode \in {"stable", "variable"} THEN "variable" ELSE borrowRateMode

SturdyTx ==
  \/ action.name = "mint" /\ Sturdy!mintTx
  \/ action.name = "approve" /\ Sturdy!approveTx
  \/ action.name = "approveVault" /\ Sturdy!approveVaultTx
  \/ action.name = "depositCollateral" /\ Sturdy!depositCollateralTx
  \/ action.name = "deposit" /\ Sturdy!depositTx
  \/ action.name = "delegateBorrowAllowance" /\ Sturdy!delegateBorrowAllowanceTx
  \/ action.name = "withdraw" /\ Sturdy!withdrawTx
  \/ action.name = "withdrawCollateral" /\ Sturdy!withdrawCollateralTx
  \/ action.name = "borrow" /\ Sturdy!borrowTx
  \/ action.name = "repay" /\ Sturdy!repayTx
  \/ action.name = "setUseAsCollateral" /\ Sturdy!setUseAsCollateralTx

FantomTx ==
  \/ action.name = "mint" /\ Fantom!mintTx
  \/ action.name = "approve" /\ Fantom!approveTx
  \/ action.name = "approveVault" /\ Fantom!approveVaultTx
  \/ action.name = "depositCollateral" /\ Fantom!depositCollateralTx
  \/ action.name = "deposit" /\ Fantom!depositTx
  \/ action.name = "delegateBorrowAllowance" /\ Fantom!delegateBorrowAllowanceTx
  \/ action.name = "withdraw" /\ Fantom!withdrawTx
  \/ action.name = "withdrawCollateral" /\ Fantom!withdrawCollateralTx
  \/ action.name = "borrow" /\ Fantom!borrowTx
  \/ action.name = "repay" /\ Fantom!repayTx
  \/ action.name = "setUseAsCollateral" /\ Fantom!setUseAsCollateralTx

SturdyExpected ==
  CASE action.name = "deposit"            -> Sturdy!depositExpected
    [] action.name = "depositCollateral"  -> Sturdy!depositCollateralExpected
    [] action.name = "withdraw"           -> Sturdy!withdrawExpected
    [] action.name = "withdrawCollateral" -> Sturdy!withdrawCollateralExpected
    [] action.name = "borrow"             -> Sturdy!borrowExpected
    [] action.name = "repay"              -> Sturdy!repayExpected
    [] action.name = "setUseAsCollateral" -> Sturdy!setUseAsCollateralExpected

FantomExpected ==
  CASE action.name = "deposit"            -> Fantom!depositExpected
    [] action.name = "depositCollateral"  -> Fantom!depositCollateralExpected
    [] action.name = "withdraw"           -> Fantom!withdrawExpected
    [] action.name = "withdrawCollateral" -> Fantom!withdrawCollateralExpected
    [] action.name = "borrow"             -> Fantom!borrowExpected
    [] action.name = "repay"              -> Fantom!repayExpected
    [] action.name = "setUseAsCollateral" -> Fantom!setUseAsCollateralExpected

ReserveMatches ==
  IF suite = "ftm" /\ action.name = "depositCollateral"
  THEN Fantom!depositCollateralReserveMatches(dataNow.reserveData, prediction.reserveData)
  ELSE expectEqual(dataNow.reserveData, prediction.reserveData)

UserMatches ==
  CASE suite = "ftm" /\ action.name = "depositCollateral" ->
         Fantom!depositCollateralUserMatches(dataNow.userData, prediction.userData)
    [] suite = "ftm" /\ action.name = "withdrawCollateral" ->
         Fantom!withdrawCollateralUserMatches(dataNow.userData, prediction.userData)
    [] OTHER -> expectEqual(dataNow.userData, prediction.userData)

\* What is sent when a revert is expected: the Fantom suite then names the
\* reserve instead of WFTM to its vault, which never accepts it.
SentForRevert ==
  \/ suite = "sturdy" /\ SturdyTx
  \/ suite = "ftm" /\ action.name \notin {"depositCollateral", "withdrawCollateral"} /\ FantomTx
-----------------------------------------------------------------------------
\* executeStory, for the next story of the scenario.
executeStory(s) ==
  /\ \/ phase = "idle" /\ story = <<>>
     \/ phase = "failed"
  /\ stories < MaxStories
  /\ stories' = stories + 1
  /\ story' = s
  /\ phase' = "idle"
  /\ action' = Nothing
  /\ before' = Nothing
  /\ UNCHANGED <<vars, suite, prediction, txTimestamp, wallet, approvals>>

\* The action throws, and the story with it.
Throws ==
  /\ phase' = "failed"
  /\ story' = <<>>

Passes ==
  /\ phase' = "idle"
  /\ action' = Nothing
  /\ before' = Nothing
  /\ UNCHANGED story

\* executeAction up to the transaction: the switch, and the data before it.
executeAction ==
  /\ phase = "idle"
  /\ story # <<>>
  /\ LET a == Head(story)
     IN  \/ /\ a.name \in Known
            /\ phase' = "read"
            /\ story' = Tail(story)
            /\ action' = [a EXCEPT !.rateMode = rateMode(a.rateMode)]
            /\ before' = IF a.name \in Compared
                         THEN getContractsData(a.reserve, a.onBehalfOf, walletOf(a)) ELSE Nothing
         \/ /\ a.name \notin Known
            /\ Throws
            /\ action' = a
            /\ UNCHANGED before
  /\ UNCHANGED <<vars, suite, stories, prediction, txTimestamp, wallet, approvals>>

\* waitForTx: mined in a block of its own, or the action throws.
waitForTx ==
  /\ phase = "read"
  /\ action.expected = "success"
  /\ \/ suite = "sturdy" /\ SturdyTx
     \/ suite = "ftm" /\ FantomTx
  /\ \/ /\ action.name \in Compared
        /\ phase' = "mined"
        /\ txTimestamp' = now
        /\ UNCHANGED <<story, action, before>>
     \/ /\ action.name \notin Compared
        /\ Passes
        /\ UNCHANGED txTimestamp
  /\ UNCHANGED <<suite, stories, prediction>>

TxThrows ==
  /\ phase = "read"
  /\ action.expected = "success"
  /\ ~ENABLED (\/ suite = "sturdy" /\ SturdyTx
               \/ suite = "ftm" /\ FantomTx)
  /\ Throws
  /\ UNCHANGED <<vars, suite, stories, action, before, prediction, txTimestamp, wallet, approvals>>

\* expect(...).to.be.reverted
expectReverted ==
  /\ phase = "read"
  /\ action.expected = "revert"
  /\ IF ENABLED SentForRevert THEN Throws /\ UNCHANGED <<action, before>> ELSE Passes
  /\ UNCHANGED <<vars, suite, stories, prediction, txTimestamp, wallet, approvals>>

\* The data after the transaction is read and the prediction calculated ...
Predict ==
  /\ phase = "mined"
  /\ prediction' = IF suite = "sturdy" THEN SturdyExpected ELSE FantomExpected
  /\ phase' = "predicted"
  /\ UNCHANGED <<vars, suite, stories, story, action, before, txTimestamp, wallet, approvals>>

\* ... and compared with it.
Compare ==
  /\ phase = "predicted"
  /\ IF ReserveMatches /\ UserMatches THEN Passes ELSE Throws /\ UNCHANGED <<action, before>>
  /\ prediction' = Nothing
  /\ txTimestamp' = 0
  /\ UNCHANGED <<vars, suite, stories, wallet, approvals>>

\* The block of the transaction is later than the one the data was read at.
BlockTimePasses ==
  /\ phase = "read"
  /\ AdvanceTime
  /\ UNCHANGED harnessVars

\* advanceTimeAndBlock, after a borrow that asks for it.
timeTravel ==
  /\ phase = "mined"
  /\ action.name = "borrow"
  /\ action.timeTravel
  /\ AdvanceTime
  /\ UNCHANGED harnessVars

\* Yearn's shares gain value as blocks pass.
YearnEarns ==
  /\ suite = "ftm"
  /\ phase \in {"idle", "read"}
  /\ \E c \in Collaterals : \E p \in PPS[c] : VaultEarns(c, p)
  /\ UNCHANGED harnessVars

EngineNext ==
  \/ \E s \in Stories : executeStory(s)
  \/ executeAction
  \/ waitForTx
  \/ TxThrows
  \/ expectReverted
  \/ Predict
  \/ Compare
  \/ BlockTimePasses
  \/ timeTravel
  \/ YearnEarns

EngineSpec == EngineInit /\ [][EngineNext]_engineVars
=============================================================================

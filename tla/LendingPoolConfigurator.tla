----------------------- MODULE LendingPoolConfigurator -----------------------
(***************************************************************************)
(* LendingPoolConfigurator with the list of reserves of the pool and the   *)
(* bitmap of ReserveConfiguration: every call reads the bitmap of the      *)
(* reserve, sets fields of it by mask and shift and writes it back.        *)
(*                                                                         *)
(* A bitmap is the set of its bits that are 1, a mask the set of its bits  *)
(* that are 0, the ones of its field.  The token proxies, the caller's     *)
(* role and loans at the stable rate are left out.                         *)
(***************************************************************************)
EXTENDS WadRayMath, Sequences, FiniteSets, Functions

CONSTANTS
  Assets,                \* the assets reserves are made of
  Decimals,              \* values of underlyingAssetDecimals
  Ltvs, Thresholds, Bonuses, Factors,  \* values of the parameters
  MAX_NUMBER_RESERVES    \* _maxNumberOfReserves, 128 in the pool; an id has 8 bits

ASSUME ConfiguratorAssumption ==
  /\ Decimals \subseteq Nat /\ Ltvs \subseteq Nat /\ Thresholds \subseteq Nat
  /\ Bonuses \subseteq Nat /\ Factors \subseteq Nat
  /\ MAX_NUMBER_RESERVES \in 0..256

VARIABLES
  configuration,   \* _reserves[asset].configuration.data
  reservesList,    \* _reservesList, _reservesCount long
  id,              \* _reserves[asset].id
  initialized,     \* assets whose aTokenAddress is set
  market,          \* what suppliers have in the reserve, and whether any of it is there
  rated,           \* assets whose strategy has a rate at all
  earning,         \* assets whose currentLiquidityRate is not zero
  unpaid           \* history: assets whose last liquidity was lent on terms that pay nothing

vars == <<configuration, reservesList, id, initialized, market, rated, earning, unpaid>>

Markets == {"empty", "available", "partly", "lent"}

Init ==
  /\ configuration = [a \in Assets |-> {}]
  /\ reservesList = <<>>
  /\ id = [a \in Assets |-> 0]
  /\ initialized = {}
  /\ market = [a \in Assets |-> "empty"]
  /\ rated = {}
  /\ earning = {}
  /\ unpaid = {}
-----------------------------------------------------------------------------
(* ReserveConfiguration *)

LTV_MASK == 0..15
LIQUIDATION_THRESHOLD_MASK == 16..31
LIQUIDATION_BONUS_MASK == 32..47
DECIMALS_MASK == 48..55
ACTIVE_MASK == {56}
FROZEN_MASK == {57}
BORROWING_MASK == {58}
STABLE_BORROWING_MASK == {59}
COLLATERAL_MASK == {60}
RESERVE_FACTOR_MASK == 64..79

MAX_VALID_VALUE == 65535
MAX_VALID_DECIMALS == 255

\* The bits of a number (the checks of the setters let 16 pass), and the number
\* of bits moved down.
Bits(value) == {i \in 0..19 : (value \div 2^i) % 2 = 1}
Number(bits, start) == SumFunctionOnSet([i \in bits |-> 2^(i - start)], bits)

\* (data & mask) | (value << start)
setBits(data, mask, start, value) == (data \ mask) \cup {start + i : i \in Bits(value)}
\* (data & ~mask) >> start
getBits(data, mask, start) == Number(data \cap mask, start)

setFlag(data, mask, start, on) == setBits(data, mask, start, IF on THEN 1 ELSE 0)
getFlag(data, mask) == data \cap mask # {}

setActive(data, on) == setFlag(data, ACTIVE_MASK, 56, on)
setFrozen(data, on) == setFlag(data, FROZEN_MASK, 57, on)
setBorrowingEnabled(data, on) == setFlag(data, BORROWING_MASK, 58, on)
setStableRateBorrowingEnabled(data, on) == setFlag(data, STABLE_BORROWING_MASK, 59, on)
setCollateralEnabled(data, on) == setFlag(data, COLLATERAL_MASK, 60, on)
setLtv(data, ltv) == setBits(data, LTV_MASK, 0, ltv)
setLiquidationThreshold(data, threshold) == setBits(data, LIQUIDATION_THRESHOLD_MASK, 16, threshold)
\* Mutant: one bit too far.
setLiquidationBonusShifted(data, bonus) == setBits(data, LIQUIDATION_BONUS_MASK, 33, bonus)
setLiquidationBonus(data, bonus) == setBits(data, LIQUIDATION_BONUS_MASK, 32, bonus)
setDecimals(data, decimals) == setBits(data, DECIMALS_MASK, 48, decimals)
setReserveFactor(data, factor) == setBits(data, RESERVE_FACTOR_MASK, 64, factor)

getParams(data) ==
  [ltv |-> getBits(data, LTV_MASK, 0),
   liquidationThreshold |-> getBits(data, LIQUIDATION_THRESHOLD_MASK, 16),
   liquidationBonus |-> getBits(data, LIQUIDATION_BONUS_MASK, 32)]

getFlags(data) ==
  [active |-> getFlag(data, ACTIVE_MASK), frozen |-> getFlag(data, FROZEN_MASK),
   borrowing |-> getFlag(data, BORROWING_MASK), stable |-> getFlag(data, STABLE_BORROWING_MASK),
   collateral |-> getFlag(data, COLLATERAL_MASK)]
-----------------------------------------------------------------------------
setConfiguration(a, data) ==
  /\ configuration' = [configuration EXCEPT ![a] = data]
  /\ UNCHANGED <<reservesList, id, initialized, market, rated, earning>>

\* Mutant: the id is left at zero.
addReserveToListOnly(a) == id' = id /\ reservesList' = Append(reservesList, a)

\* _addReserveToList: the id is the position in the list; 0 also means none.
addReserveToList(a) ==
  LET reserveAlreadyAdded ==
        id[a] # 0 \/ (reservesList # <<>> /\ reservesList[1] = a)
  IN  IF reserveAlreadyAdded THEN UNCHANGED <<reservesList, id>>
      ELSE /\ id' = [id EXCEPT ![a] = Len(reservesList) % 2^8]
           /\ reservesList' = Append(reservesList, a)

setStrategy(a, hasRate) == rated' = IF hasRate THEN rated \cup {a} ELSE rated \ {a}

initReserve(a, decimals) ==
  /\ decimals <= 18
  /\ a \notin initialized
  /\ Len(reservesList) < MAX_NUMBER_RESERVES
  /\ initialized' = initialized \cup {a}
  /\ addReserveToList(a)
  /\ configuration' = [configuration EXCEPT ![a] =
                         setFrozen(setActive(setDecimals(@, decimals), TRUE), FALSE)]
  /\ \E hasRate \in BOOLEAN : setStrategy(a, hasRate)
  /\ UNCHANGED <<market, earning>>

\* At any time, and the rates the old strategy led to stay.
setReserveInterestRateStrategyAddress(a, hasRate) ==
  /\ setStrategy(a, hasRate)
  /\ UNCHANGED <<configuration, reservesList, id, initialized, market, earning>>

enableBorrowingOnReserve(a, stableBorrowRateEnabled) ==
  /\ ~getFlags(configuration[a]).collateral
  /\ setConfiguration(a, setStableRateBorrowingEnabled(
                           setBorrowingEnabled(configuration[a], TRUE), stableBorrowRateEnabled))

disableBorrowingOnReserve(a) == setConfiguration(a, setBorrowingEnabled(configuration[a], FALSE))

\* Mutant: lent assets too.
enableCollateralOnReserveAlways(a) == setConfiguration(a, setCollateralEnabled(configuration[a], TRUE))

enableCollateralOnReserve(a) ==
  /\ ~getFlags(configuration[a]).borrowing
  /\ setConfiguration(a, setCollateralEnabled(configuration[a], TRUE))

disableCollateralOnReserve(a) == setConfiguration(a, setCollateralEnabled(configuration[a], FALSE))

\* Mutant: what is lent does not count.
checkNoneThere(a) == market[a] \in {"empty", "lent"}

\* Nothing there and nothing earned.
checkNoLiquidity(a) == market[a] \in {"empty", "lent"} /\ a \notin earning

\* The parameters of a collateral, or all zero where nothing is deposited.
configureReserveAsCollateral(a, ltv, threshold, bonus) ==
  /\ ltv <= threshold
  /\ IF threshold # 0
     THEN /\ getFlags(configuration[a]).collateral
          /\ bonus > PERCENTAGE_FACTOR
          /\ percentMul(threshold, bonus) <= PERCENTAGE_FACTOR
     ELSE bonus = 0 /\ ltv = 0 /\ checkNoLiquidity(a)
  /\ ltv <= MAX_VALID_VALUE /\ threshold <= MAX_VALID_VALUE /\ bonus <= MAX_VALID_VALUE
  /\ setConfiguration(a, setLiquidationBonus(
                           setLiquidationThreshold(setLtv(configuration[a], ltv), threshold), bonus))

setReserveStableRate(a, on) == setConfiguration(a, setStableRateBorrowingEnabled(configuration[a], on))

activateReserve(a) == setConfiguration(a, setActive(configuration[a], TRUE))

deactivateReserve(a) ==
  /\ checkNoLiquidity(a)
  /\ setConfiguration(a, setActive(configuration[a], FALSE))

setReserveFreeze(a, on) == setConfiguration(a, setFrozen(configuration[a], on))

\* Mutant: more than the field holds.
changeReserveFactorUnchecked(a, factor) ==
  setConfiguration(a, setReserveFactor(configuration[a], factor))

changeReserveFactor(a, factor) ==
  /\ factor <= MAX_VALID_VALUE
  /\ setConfiguration(a, setReserveFactor(configuration[a], factor))

\* Whether suppliers are paid where everything is lent: not without a rate, and not
\* if the treasury takes all of it.
pays(a) == a \in rated /\ getBits(configuration[a], RESERVE_FACTOR_MASK, 64) < PERCENTAGE_FACTOR

\* The rates of what is now in the market.  A factor above one hundred per cent
\* reverts; while little is lent the rate may still round to zero.
updateInterestRates(a, m) ==
  /\ getBits(configuration[a], RESERVE_FACTOR_MASK, 64) <= PERCENTAGE_FACTOR
  /\ \/ m \in {"partly", "lent"} /\ pays(a) /\ earning' = earning \cup {a}
     \/ ~(m = "lent" /\ pays(a)) /\ earning' = earning \ {a}

\* Deposits, loans, repayments and withdrawals.  Under a strategy without a rate
\* they calculate none, and what was stored stays.
MarketChanges(a, m) ==
  LET flags == getFlags(configuration[a])
  IN  /\ a \in initialized
      /\ flags.active
      /\ market[a] = "empty" => m = "available" /\ ~flags.frozen
      /\ m = "empty" => market[a] = "available"
      /\ market[a] = "available" /\ m \in {"partly", "lent"} => flags.borrowing /\ ~flags.frozen
      /\ market[a] = "lent" => m # "lent"
      /\ market' = [market EXCEPT ![a] = m]
      /\ IF a \in rated THEN updateInterestRates(a, m) ELSE UNCHANGED earning
      /\ UNCHANGED <<configuration, reservesList, id, initialized, rated>>

\* The yield of the collaterals arrives for the suppliers, of whom there must be
\* some.  It asks neither for an active reserve nor for a rate.
depositYield(a) ==
  LET m == IF market[a] = "lent" THEN "partly" ELSE market[a]
  IN  /\ a \in initialized
      /\ ~getFlags(configuration[a]).collateral
      /\ market[a] # "empty"
      /\ market' = [market EXCEPT ![a] = m]
      /\ updateInterestRates(a, m)
      /\ UNCHANGED <<configuration, reservesList, id, initialized, rated>>

Remembered ==
  unpaid' = unpaid \cup {a \in Assets : market[a] # "lent" /\ market'[a] = "lent" /\ ~pays(a)}

Next ==
  \E a \in Assets :
    /\ \/ \E d \in Decimals : initReserve(a, d)
       \/ \E b \in BOOLEAN :
            \/ enableBorrowingOnReserve(a, b) \/ setReserveStableRate(a, b)
            \/ setReserveFreeze(a, b) \/ setReserveInterestRateStrategyAddress(a, b)
       \/ disableBorrowingOnReserve(a)
       \/ enableCollateralOnReserve(a) \/ disableCollateralOnReserve(a)
       \/ \E ltv \in Ltvs, threshold \in Thresholds, bonus \in Bonuses :
            configureReserveAsCollateral(a, ltv, threshold, bonus)
       \/ activateReserve(a) \/ deactivateReserve(a)
       \/ \E f \in Factors : changeReserveFactor(a, f)
       \/ \E m \in Markets : MarketChanges(a, m)
       \/ depositYield(a)
    /\ Remembered

Spec == Init /\ [][Next]_vars
-----------------------------------------------------------------------------
TypeOK ==
  /\ configuration \in [Assets -> SUBSET (0..79)]
  /\ reservesList \in Seq(Assets)
  /\ id \in [Assets -> 0..255]
  /\ initialized \subseteq Assets
  /\ market \in [Assets -> Markets]
  /\ rated \subseteq Assets /\ earning \subseteq Assets /\ unpaid \subseteq Assets

\* The terms the bitmaps hold.
termsOf(data) ==
  [params |-> getParams(data), decimals |-> getBits(data, DECIMALS_MASK, 48),
   reserveFactor |-> getBits(data, RESERVE_FACTOR_MASK, 64),
   active |-> getFlags(data).active, frozen |-> getFlags(data).frozen,
   borrowing |-> getFlags(data).borrowing, stable |-> getFlags(data).stable,
   collateral |-> getFlags(data).collateral]

TermsHeld == [a \in Assets |-> termsOf(configuration[a])]

Abstract == INSTANCE ReserveTerms WITH
  terms <- TermsHeld,
  Params <- [ltv: Ltvs, liquidationThreshold: Thresholds, liquidationBonus: Bonuses],
  Values <- Decimals \cup Factors

\* Ten fields in one word, written by ten setters: read back, every call has
\* changed the aspect it is for and nothing else, and only to sound terms.
ImplementsTerms == Abstract!Spec

\* An asset is lent or it is collateral, whatever the order of the calls: the
\* pool withdraws and liquidates the two in different ways.
LentOrCollateral ==
  \A a \in Assets : ~(getFlags(configuration[a]).borrowing /\ getFlags(configuration[a]).collateral)

\* The id of a reserve, by which accounts remember it, leads back to it.
IdsLeadBack == \A a \in initialized : reservesList[id[a] + 1] = a

\* Withdraw and repay refuse an inactive reserve, and _checkNoLiquidity, a test of
\* two zeros, is all that keeps one with deposits active.  It is deceived where the
\* last of the liquidity was lent on terms that pay suppliers nothing, and nowhere
\* else: neither a later change of the terms nor a rate left from before does it.
OnlyUnpaidLockedOut ==
  \A a \in Assets \ unpaid : market[a] # "empty" => getFlags(configuration[a]).active

\* What the check is for, "no liquidity is deposited": a reserve that is switched
\* off holds no deposits.
DepositsAreActive == \A a \in Assets : market[a] # "empty" => getFlags(configuration[a]).active
=============================================================================

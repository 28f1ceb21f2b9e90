----------------------------- MODULE WadRayMath -----------------------------
(***************************************************************************)
(* Fixed point arithmetic of the protocol: WadRayMath, PercentageMath and  *)
(* MathUtils of protocol/libraries/math.  The scales are parameters: the   *)
(* contracts use RAY = 10^27, WAD = 10^18, WAD_RAY_RATIO = 10^9 and        *)
(* PERCENTAGE_FACTOR = 10^4; the model checker uses small ones and the     *)
(* theorems hold for all of them.                                          *)
(*                                                                         *)
(* The contracts are compiled with Solidity 0.8: an overflow, an underflow *)
(* or a division by zero reverts the whole transaction.  Overflow of a     *)
(* 256 bit word is out of reach of the modelled amounts; underflows and    *)
(* divisions by zero appear as guards of the actions that would revert.    *)
(***************************************************************************)
EXTENDS Integers

CONSTANTS RAY, WAD, WAD_RAY_RATIO, PERCENTAGE_FACTOR, SECONDS_PER_YEAR

ASSUME MathAssumption ==
  /\ RAY \in Nat \ {0}
  /\ WAD \in Nat \ {0}
  /\ WAD_RAY_RATIO \in Nat \ {0}
  /\ PERCENTAGE_FACTOR \in Nat \ {0}
  /\ SECONDS_PER_YEAR \in Nat \ {0}

\* a * b / scale and a * scale / b, rounded half up: the two roundings every
\* function of the libraries uses.
MulHalfUp(a, b, scale) == (a * b + (scale \div 2)) \div scale
DivHalfUp(a, b, scale) == (a * scale + (b \div 2)) \div b

\* Mutant: a division that truncates.
rayDivTruncated(a, b) == (a * RAY) \div b

\* The early return on zero operands only saves gas: half the scale divided
\* by the scale is zero.
rayMul(a, b) == MulHalfUp(a, b, RAY)
rayDiv(a, b) == DivHalfUp(a, b, RAY)
wadDiv(a, b) == DivHalfUp(a, b, WAD)
wadToRay(a) == a * WAD_RAY_RATIO
percentMul(value, percentage) == MulHalfUp(value, percentage, PERCENTAGE_FACTOR)
percentDiv(value, percentage) == DivHalfUp(value, percentage, PERCENTAGE_FACTOR)

\* Interest factor of a linear rate over timeDifference seconds.
calculateLinearInterest(rate, timeDifference) ==
  ((rate * timeDifference) \div SECONDS_PER_YEAR) + RAY

\* Interest factor of a rate compounded every second: the first three terms
\* of the binomial expansion.
calculateCompoundedInterest(rate, exp) ==
  LET expMinusOne    == exp - 1
      expMinusTwo    == IF exp > 2 THEN exp - 2 ELSE 0
      ratePerSecond  == rate \div SECONDS_PER_YEAR
      basePowerTwo   == rayMul(ratePerSecond, ratePerSecond)
      basePowerThree == rayMul(basePowerTwo, ratePerSecond)
      secondTerm     == (exp * expMinusOne * basePowerTwo) \div 2
      thirdTerm      == (exp * expMinusOne * expMinusTwo * basePowerThree) \div 6
  IN  IF exp = 0 THEN RAY ELSE RAY + (ratePerSecond * exp) + secondTerm + thirdTerm
=============================================================================

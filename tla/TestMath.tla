------------------------------ MODULE TestMath ------------------------------
(***************************************************************************)
(* The fixed point arithmetic the test suites add to BigNumber             *)
(* (helpers/utils/math.ts).  The scenario suites configure BigNumber with  *)
(* no decimal places and ROUND_DOWN, so every division truncates towards   *)
(* zero; unlike the contracts' words, a BigNumber may be negative.         *)
(***************************************************************************)
EXTENDS Integers

CONSTANTS RAY, WAD_RAY_RATIO, PERCENTAGE_FACTOR

div(a, b) == IF a < 0 THEN -((-a) \div b) ELSE a \div b

rayMul(a, b) == div((RAY \div 2) + a * b, RAY)
rayDiv(a, b) == div((b \div 2) + a * RAY, b)
wadToRay(a) == a * WAD_RAY_RATIO
percentMul(a, b) == div((PERCENTAGE_FACTOR \div 2) + a * b, PERCENTAGE_FACTOR)
=============================================================================

-------------------------- MODULE WadRayMathProofs --------------------------
(* What the rounding of the fixed point libraries preserves, for every scale. *)
EXTENDS WadRayMath, SumProofs

\* The roundings stay in the naturals.
LEMMA MulHalfUpNat ==
  ASSUME NEW a \in Nat, NEW b \in Nat, NEW scale \in Nat \ {0}
  PROVE  MulHalfUp(a, b, scale) \in Nat
  <1>1. a * b \in Nat BY ProductNat
  <1>2. scale \div 2 \in Nat OBVIOUS
  <1> QED BY <1>1, <1>2, DivBounds DEF MulHalfUp

\* The rounded quotient of naturals is a natural.
LEMMA DivHalfUpNat ==
  ASSUME NEW a \in Nat, NEW b \in Nat \ {0}, NEW scale \in Nat
  PROVE  DivHalfUp(a, b, scale) \in Nat
  <1>1. a * scale \in Nat BY ProductNat
  <1>2. b \div 2 \in Nat OBVIOUS
  <1> QED BY <1>1, <1>2, DivBounds DEF DivHalfUp

\* The functions of the libraries stay in the naturals, and wadToRay off zero.
LEMMA MathNat ==
  /\ \A a, b \in Nat : rayMul(a, b) \in Nat /\ percentMul(a, b) \in Nat
  /\ \A a \in Nat, b \in Nat \ {0} : rayDiv(a, b) \in Nat /\ percentDiv(a, b) \in Nat
  /\ \A a \in Nat : wadToRay(a) \in Nat
  /\ \A a \in Nat \ {0} : wadToRay(a) # 0
  <1>1. \A a, b \in Nat : rayMul(a, b) \in Nat /\ percentMul(a, b) \in Nat
    <2> TAKE a, b \in Nat
    <2>1. MulHalfUp(a, b, RAY) \in Nat BY MathAssumption, MulHalfUpNat
    <2>2. MulHalfUp(a, b, PERCENTAGE_FACTOR) \in Nat BY MathAssumption, MulHalfUpNat
    <2> QED BY <2>1, <2>2 DEF rayMul, percentMul
  <1>2. \A a \in Nat, b \in Nat \ {0} : rayDiv(a, b) \in Nat /\ percentDiv(a, b) \in Nat
    <2> TAKE a \in Nat, b \in Nat \ {0}
    <2>1. DivHalfUp(a, b, RAY) \in Nat BY MathAssumption, DivHalfUpNat
    <2>2. DivHalfUp(a, b, PERCENTAGE_FACTOR) \in Nat BY MathAssumption, DivHalfUpNat
    <2> QED BY <2>1, <2>2 DEF rayDiv, percentDiv
  <1>3. \A a \in Nat : wadToRay(a) \in Nat BY MathAssumption, ProductNat DEF wadToRay
  <1>4. \A a \in Nat \ {0} : wadToRay(a) # 0 BY MathAssumption DEF wadToRay
  <1> QED BY <1>1, <1>2, <1>3, <1>4

\* Multiplying by a factor of at least one ray does not decrease.
LEMMA RayMulGrows ==
  ASSUME NEW x \in Nat, NEW i \in Nat, RAY <= x
  PROVE  i <= rayMul(x, i)
  <1>1. i * RAY <= i * x BY MathAssumption, ProductMono
  <1>2. x * i + (RAY \div 2) \in Nat /\ i * RAY <= x * i + (RAY \div 2)
    BY <1>1, MathAssumption, ProductNat
  <1> QED BY <1>2, MathAssumption, DivLower DEF rayMul, MulHalfUp

\* Multiplying by exactly one ray is the identity.
LEMMA RayMulOne ==
  ASSUME NEW i \in Nat
  PROVE  rayMul(RAY, i) = i
  <1> DEFINE h == RAY \div 2
             q == (RAY * i + h) \div RAY
  <1>1. h \in Nat /\ h < RAY BY MathAssumption
  <1>2. RAY * i \in Nat BY MathAssumption, ProductNat
  <1>3. q \in Nat /\ RAY * q <= RAY * i + h BY <1>1, <1>2, MathAssumption, DivBounds
  <1>4. i <= q
    <2>1. RAY \in Nat /\ RAY <= RAY BY MathAssumption
    <2>2. i <= rayMul(RAY, i) BY <2>1, RayMulGrows
    <2> QED BY <2>2 DEF rayMul, MulHalfUp
  <1>5. q <= i
    <2>1. SUFFICES ASSUME i + 1 <= q PROVE FALSE BY <1>3
    <2>2. RAY * (i + 1) <= RAY * q BY <2>1, <1>3, MathAssumption, ProductMono
    <2>3. RAY * (i + 1) = RAY * i + RAY BY MathAssumption
    <2> QED BY <2>2, <2>3, <1>1, <1>2, <1>3, MathAssumption
  <1> QED BY <1>3, <1>4, <1>5 DEF rayMul, MulHalfUp

\* A rounded product grows with a factor.
LEMMA MulHalfUpMono ==
  ASSUME NEW s \in Nat, NEW i \in Nat, NEW v \in Nat, NEW scale \in Nat \ {0}, i <= v
  PROVE  /\ MulHalfUp(s, i, scale) <= MulHalfUp(s, v, scale)
         /\ MulHalfUp(i, s, scale) <= MulHalfUp(v, s, scale)
  <1> DEFINE h == scale \div 2
             m == (s * i + h) \div scale
  <1>1. s * i \in Nat /\ s * v \in Nat /\ s * i <= s * v BY ProductNat, ProductMono
  <1>2. h \in Nat OBVIOUS
  <1>3. m \in Nat /\ scale * m <= s * i + h BY <1>1, <1>2, DivBounds
  <1>4. m * scale <= s * v + h BY <1>1, <1>2, <1>3
  <1>5. m <= (s * v + h) \div scale BY <1>1, <1>2, <1>3, <1>4, DivLower
  <1>6. s * i = i * s /\ s * v = v * s OBVIOUS
  <1> QED BY <1>5, <1>6 DEF MulHalfUp

\* rayMul grows with its second argument and percentMul with its first.
LEMMA RayMulMono ==
  ASSUME NEW s \in Nat, NEW i \in Nat, NEW v \in Nat, i <= v
  PROVE  rayMul(s, i) <= rayMul(s, v) /\ percentMul(i, s) <= percentMul(v, s)
  <1>1. rayMul(s, i) <= rayMul(s, v) BY MulHalfUpMono, MathAssumption DEF rayMul
  <1>2. percentMul(i, s) <= percentMul(v, s) BY MulHalfUpMono, MathAssumption DEF percentMul
  <1> QED BY <1>1, <1>2

\* The round trip that makes repayment exact: a scaled amount s valued at v and
\* scaled back at an index i between one ray and v is not less than s.
LEMMA RoundTrip ==
  ASSUME NEW s \in Nat, NEW i \in Nat, NEW v \in Nat, RAY <= i, i <= v
  PROVE  s <= rayDiv(rayMul(s, v), i)
  <1> DEFINE h == RAY \div 2
             m == (s * v + h) \div RAY
             k == i \div 2
  <1>0. h \in Nat /\ k \in Nat /\ h <= k /\ RAY <= h + h + 1 BY MathAssumption
  <1>1. s * i \in Nat /\ s * v \in Nat /\ s * i <= s * v BY ProductNat, ProductMono
  <1>2. m \in Nat /\ s * v + h < RAY * m + RAY
    BY <1>0, <1>1, MathAssumption, DivBounds
  <1>3. m * RAY \in Nat /\ m * RAY = RAY * m BY <1>2, MathAssumption, ProductNat
  <1>4. s * i <= m * RAY + k
    <2> HIDE DEF h, m, k
    <2> QED BY <1>0, <1>1, <1>2, <1>3, MathAssumption
  <1>5. m * RAY + k \in Nat BY <1>0, <1>3
  <1>6. s <= (m * RAY + k) \div i
    <2> HIDE DEF m, k
    <2> QED BY <1>4, <1>5, MathAssumption, DivLower
  <1> QED BY <1>6 DEF rayDiv, rayMul, MulHalfUp, DivHalfUp

\* Interest factors are never below one ray.
LEMMA LinearInterestGrows ==
  ASSUME NEW rate \in Nat, NEW dt \in Nat
  PROVE  /\ calculateLinearInterest(rate, dt) \in Nat
         /\ RAY <= calculateLinearInterest(rate, dt)
  <1>1. rate * dt \in Nat BY ProductNat
  <1>2. (rate * dt) \div SECONDS_PER_YEAR \in Nat BY <1>1, MathAssumption, DivBounds
  <1> QED BY <1>2, MathAssumption DEF calculateLinearInterest

\* The compounded factor is a natural of at least one ray, and one ray at once.
LEMMA CompoundedInterestGrows ==
  ASSUME NEW rate \in Nat, NEW exp \in Nat
  PROVE  /\ calculateCompoundedInterest(rate, exp) \in Nat
         /\ RAY <= calculateCompoundedInterest(rate, exp)
         /\ exp = 0 => calculateCompoundedInterest(rate, exp) = RAY
  <1> DEFINE e1 == exp - 1
             e2 == IF exp > 2 THEN exp - 2 ELSE 0
             p1 == rate \div SECONDS_PER_YEAR
             p2 == rayMul(p1, p1)
             p3 == rayMul(p2, p1)
             t2 == (exp * e1 * p2) \div 2
             t3 == (exp * e1 * e2 * p3) \div 6
  <1>1. CASE exp = 0 BY <1>1, MathAssumption DEF calculateCompoundedInterest
  <1>2. CASE exp # 0
    <2>1. e1 \in Nat /\ e2 \in Nat BY <1>2
    <2>2. p1 \in Nat BY MathAssumption, DivBounds
    <2>3. p2 \in Nat /\ p3 \in Nat BY <2>2, MathNat
    <2>4. p1 * exp \in Nat
      <3> HIDE DEF p1
      <3> QED BY <2>2, ProductNat
    <2>5. exp * e1 * p2 \in Nat /\ exp * e1 * e2 * p3 \in Nat
      <3> HIDE DEF e1, e2, p2, p3
      <3>1. exp * e1 \in Nat BY <2>1, ProductNat
      <3>2. exp * e1 * e2 \in Nat BY <3>1, <2>1, ProductNat
      <3> QED BY <3>1, <3>2, <2>3, ProductNat
    <2>6. t2 \in Nat /\ t3 \in Nat
      <3> HIDE DEF e1, e2, p2, p3
      <3> QED BY <2>5, DivBounds
    <2>7. calculateCompoundedInterest(rate, exp) = RAY + (p1 * exp) + t2 + t3
      BY <1>2 DEF calculateCompoundedInterest
    <2> HIDE DEF e1, e2, p1, p2, p3, t2, t3
    <2> QED BY <2>4, <2>6, <2>7, <1>2, MathAssumption
  <1> QED BY <1>1, <1>2
=============================================================================

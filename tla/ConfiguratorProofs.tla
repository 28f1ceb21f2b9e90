------------------------- MODULE ConfiguratorProofs -------------------------
(***************************************************************************)
(* The bitmap of a reserve implements independent terms, for every value   *)
(* the checks of the setters let pass, and what the configurator promises  *)
(* of reserves follows: ids that lead back, assets lent or collateral, and *)
(* where the check of the deposits can be deceived.                        *)
(***************************************************************************)
EXTENDS LendingPoolConfigurator, WadRayMathProofs

\* The bits of value moved up to start, as setBits writes them.
Shifted(value, start) == {start + i : i \in Bits(value)}

\* A power of two.
Pow(i) == 2^i

\* The powers as far as they are needed: 2^8 is above eight bits, 2^16 above sixteen.
LEMMA Powers ==
  ASSUME NEW i \in 0..19
  PROVE  /\ Pow(i) \in Nat \ {0}
         /\ i > 0 => Pow(i) > 1
         /\ i > 7 => Pow(i) > 255
         /\ i > 15 => Pow(i) > 65535
  <1>0. CASE i = 0
    <2>1. Pow(i) = 1 BY <1>0 DEF Pow
    <2> QED BY <1>0, <2>1
  <1>1. CASE i = 1
    <2>1. Pow(i) = 2 BY <1>1 DEF Pow
    <2> QED BY <1>1, <2>1
  <1>2. CASE i = 2
    <2>1. Pow(i) = 4 BY <1>2 DEF Pow
    <2> QED BY <1>2, <2>1
  <1>3. CASE i = 3
    <2>1. Pow(i) = 8 BY <1>3 DEF Pow
    <2> QED BY <1>3, <2>1
  <1>4. CASE i = 4
    <2>1. Pow(i) = 16 BY <1>4 DEF Pow
    <2> QED BY <1>4, <2>1
  <1>5. CASE i = 5
    <2>1. Pow(i) = 32 BY <1>5 DEF Pow
    <2> QED BY <1>5, <2>1
  <1>6. CASE i = 6
    <2>1. Pow(i) = 64 BY <1>6 DEF Pow
    <2> QED BY <1>6, <2>1
  <1>7. CASE i = 7
    <2>1. Pow(i) = 128 BY <1>7 DEF Pow
    <2> QED BY <1>7, <2>1
  <1>8. CASE i = 8
    <2>1. Pow(i) = 256 BY <1>8 DEF Pow
    <2> QED BY <1>8, <2>1
  <1>9. CASE i = 9
    <2>1. Pow(i) = 512 BY <1>9 DEF Pow
    <2> QED BY <1>9, <2>1
  <1>10. CASE i = 10
    <2>1. Pow(i) = 1024 BY <1>10 DEF Pow
    <2> QED BY <1>10, <2>1
  <1>11. CASE i = 11
    <2>1. Pow(i) = 2048 BY <1>11 DEF Pow
    <2> QED BY <1>11, <2>1
  <1>12. CASE i = 12
    <2>1. Pow(i) = 4096 BY <1>12 DEF Pow
    <2> QED BY <1>12, <2>1
  <1>13. CASE i = 13
    <2>1. Pow(i) = 8192 BY <1>13 DEF Pow
    <2> QED BY <1>13, <2>1
  <1>14. CASE i = 14
    <2>1. Pow(i) = 16384 BY <1>14 DEF Pow
    <2> QED BY <1>14, <2>1
  <1>15. CASE i = 15
    <2>1. Pow(i) = 32768 BY <1>15 DEF Pow
    <2> QED BY <1>15, <2>1
  <1>16. CASE i = 16
    <2>1. Pow(i) = 65536 BY <1>16 DEF Pow
    <2> QED BY <1>16, <2>1
  <1>17. CASE i = 17
    <2>1. Pow(i) = 131072 BY <1>17 DEF Pow
    <2> QED BY <1>17, <2>1
  <1>18. CASE i = 18
    <2>1. Pow(i) = 262144 BY <1>18 DEF Pow
    <2> QED BY <1>18, <2>1
  <1>19. CASE i = 19
    <2>1. Pow(i) = 524288 BY <1>19 DEF Pow
    <2> QED BY <1>19, <2>1
  <1> QED BY <1>0, <1>1, <1>2, <1>3, <1>4, <1>5, <1>6, <1>7, <1>8, <1>9, <1>10, <1>11, <1>12,
             <1>13, <1>14, <1>15, <1>16, <1>17, <1>18, <1>19

\* Halving a quotient is dividing by twice as much.
LEMMA Halved ==
  ASSUME NEW v \in Nat, NEW p \in Nat \ {0}
  PROVE  /\ v \div p \in Nat /\ v \div (2 * p) \in Nat
         /\ v \div p = 2 * (v \div (2 * p)) + ((v \div p) % 2)
  <1> DEFINE q == v \div p
             h == v \div (2 * p)
             r == q \div 2
  <1>1. q \in Nat /\ p * q <= v /\ v < p * q + p BY DivBounds
  <1>2. 2 * p \in Nat \ {0} OBVIOUS
  <1>3. h \in Nat /\ (2 * p) * h <= v /\ v < (2 * p) * h + 2 * p BY <1>2, DivBounds
  <1> HIDE DEF q, h
  <1>4. r \in Nat /\ q = 2 * r + (q % 2) /\ q % 2 \in {0, 1} BY <1>1
  <1> HIDE DEF r
  <1>5. h = r
    <2>1. (2 * p) * h = 2 * (p * h) /\ p * h \in Nat BY <1>3
    <2>2. 2 * r <= q /\ q <= 2 * r + 1 BY <1>1, <1>4
    <2>3. p * (2 * r) <= p * q /\ p * q <= p * (2 * r + 1)
      <3>1. p \in Nat /\ 2 * r \in Nat /\ 2 * r + 1 \in Nat BY <1>4
      <3> QED BY ONLY <1>1, <2>2, <3>1, ProductMono
    <2>4. p * (2 * r) = 2 * (p * r) /\ p * (2 * r + 1) = 2 * (p * r) + p /\ p * r \in Nat
      BY <1>4
    <2>5. p * q \in Nat BY <1>1, ProductNat
    <2> DEFINE x == p * h
               y == p * r
    <2>6. 2 * y <= v /\ v < 2 * y + 2 * p /\ 2 * x <= v /\ v < 2 * x + 2 * p
      BY <1>1, <1>3, <2>1, <2>3, <2>4, <2>5
    <2>7. x \in Nat /\ y \in Nat BY <2>1, <2>4
    <2>8. x < y + p /\ y < x + p
      <3> HIDE DEF x, y
      <3> QED BY <2>6, <2>7
    <2>9. CASE h + 1 <= r
      <3>1. p * (h + 1) <= p * r BY <1>3, <1>4, <2>9, ProductMono
      <3>2. p * (h + 1) = p * h + p BY <1>3
      <3> QED BY <2>7, <2>8, <3>1, <3>2
    <2>10. CASE r + 1 <= h
      <3>1. p * (r + 1) <= p * h BY <1>3, <1>4, <2>10, ProductMono
      <3>2. p * (r + 1) = p * r + p BY <1>4
      <3> QED BY <2>7, <2>8, <3>1, <3>2
    <2> QED BY <1>3, <1>4, <2>9, <2>10
  <1> QED BY <1>1, <1>3, <1>4, <1>5 DEF q, h

\* The bits from b upwards and those above b; p is the weight of b, q and h the
\* quotients with p and with twice p.
BitStep(p, q, h, from, above, w, b) ==
  /\ p \in Nat /\ q \in Nat /\ h \in Nat
  /\ IsFiniteSet(from) /\ \A j \in from : w[j] \in Int
  /\ \/ b \in from /\ above = from \ {b} /\ w[b] = p /\ q = 2 * h + 1
     \/ above = from /\ q = 2 * h
  /\ SumFunctionOnSet(w, above) = (2 * p) * h

\* The sum from a bit upwards, from the sum above it.
LEMMA BitRead ==
  ASSUME NEW p, NEW q, NEW h, NEW from, NEW above, NEW w, NEW b,
         BitStep(p, q, h, from, above, w, b)
  PROVE  SumFunctionOnSet(w, from) = p * q
  <1> USE DEF BitStep
  <1>1. CASE b \in from /\ above = from \ {b} /\ w[b] = p /\ q = 2 * h + 1
    <2>1. SumFunctionOnSet(w, from) = w[b] + SumFunctionOnSet(w, from \ {b}) BY <1>1, SumRemove
    <2>2. SumFunctionOnSet(w, from \ {b}) = (2 * p) * h BY <1>1
    <2>3. p * (2 * h + 1) = p + (2 * p) * h OBVIOUS
    <2> QED BY <1>1, <2>1, <2>2, <2>3
  <1>2. CASE above = from /\ q = 2 * h
    <2>1. SumFunctionOnSet(w, from) = (2 * p) * h BY <1>2
    <2>2. p * (2 * h) = (2 * p) * h OBVIOUS
    <2> QED BY <1>2, <2>1, <2>2
  <1> QED BY <1>1, <1>2

\* Sixteen bits hold what the checks let pass; switches have one bit, decimals eight.
LEMMA BitsFit ==
  ASSUME NEW v \in Nat
  PROVE  /\ v <= 65535 => Bits(v) \subseteq 0..15
         /\ v <= 255 => Bits(v) \subseteq 0..7
         /\ v = 1 => Bits(v) = {0}
         /\ v = 0 => Bits(v) = {}
  <1>1. Bits(v) = {i \in 0..19 : (v \div Pow(i)) % 2 = 1} BY DEF Bits, Pow
  <1>2. ASSUME NEW i \in Bits(v)
        PROVE  /\ i \in 0..19 /\ v # 0
               /\ v <= 65535 => i \in 0..15
               /\ v <= 255 => i \in 0..7
               /\ v = 1 => i = 0
    <2> DEFINE p == Pow(i)
    <2>1. i \in 0..19 /\ (v \div p) % 2 = 1 BY <1>1
    <2>2. /\ p \in Nat \ {0}
          /\ i > 0 => p > 1
          /\ i > 7 => p > 255
          /\ i > 15 => p > 65535
      BY <2>1, Powers
    <2> HIDE DEF p
    <2>3. ~(v < p)
      <3> SUFFICES ASSUME v < p PROVE FALSE OBVIOUS
      <3>1. v \div p = 0 BY <2>2
      <3> QED BY <2>1, <3>1
    <2> QED BY <2>1, <2>2, <2>3
  <1>3. v = 1 => 0 \in Bits(v)
    <2>1. Pow(0) = 1 /\ (1 \div 1) % 2 = 1 BY DEF Pow
    <2> QED BY <1>1, <2>1
  <1> QED BY <1>2, <1>3

\* Each power is twice the one before.
LEMMA PowersDouble ==
  ASSUME NEW k \in 0..15
  PROVE  Pow(k + 1) = 2 * Pow(k)
  <1>0. CASE k = 0
    <2>1. k + 1 = 1 BY <1>0
    <2>2. Pow(k) = 1 /\ Pow(k + 1) = 2 BY <1>0, <2>1 DEF Pow
    <2> QED BY <2>2
  <1>1. CASE k = 1
    <2>1. k + 1 = 2 BY <1>1
    <2>2. Pow(k) = 2 /\ Pow(k + 1) = 4 BY <1>1, <2>1 DEF Pow
    <2> QED BY <2>2
  <1>2. CASE k = 2
    <2>1. k + 1 = 3 BY <1>2
    <2>2. Pow(k) = 4 /\ Pow(k + 1) = 8 BY <1>2, <2>1 DEF Pow
    <2> QED BY <2>2
  <1>3. CASE k = 3
    <2>1. k + 1 = 4 BY <1>3
    <2>2. Pow(k) = 8 /\ Pow(k + 1) = 16 BY <1>3, <2>1 DEF Pow
    <2> QED BY <2>2
  <1>4. CASE k = 4
    <2>1. k + 1 = 5 BY <1>4
    <2>2. Pow(k) = 16 /\ Pow(k + 1) = 32 BY <1>4, <2>1 DEF Pow
    <2> QED BY <2>2
  <1>5. CASE k = 5
    <2>1. k + 1 = 6 BY <1>5
    <2>2. Pow(k) = 32 /\ Pow(k + 1) = 64 BY <1>5, <2>1 DEF Pow
    <2> QED BY <2>2
  <1>6. CASE k = 6
    <2>1. k + 1 = 7 BY <1>6
    <2>2. Pow(k) = 64 /\ Pow(k + 1) = 128 BY <1>6, <2>1 DEF Pow
    <2> QED BY <2>2
  <1>7. CASE k = 7
    <2>1. k + 1 = 8 BY <1>7
    <2>2. Pow(k) = 128 /\ Pow(k + 1) = 256 BY <1>7, <2>1 DEF Pow
    <2> QED BY <2>2
  <1>8. CASE k = 8
    <2>1. k + 1 = 9 BY <1>8
    <2>2. Pow(k) = 256 /\ Pow(k + 1) = 512 BY <1>8, <2>1 DEF Pow
    <2> QED BY <2>2
  <1>9. CASE k = 9
    <2>1. k + 1 = 10 BY <1>9
    <2>2. Pow(k) = 512 /\ Pow(k + 1) = 1024 BY <1>9, <2>1 DEF Pow
    <2> QED BY <2>2
  <1>10. CASE k = 10
    <2>1. k + 1 = 11 BY <1>10
    <2>2. Pow(k) = 1024 /\ Pow(k + 1) = 2048 BY <1>10, <2>1 DEF Pow
    <2> QED BY <2>2
  <1>11. CASE k = 11
    <2>1. k + 1 = 12 BY <1>11
    <2>2. Pow(k) = 2048 /\ Pow(k + 1) = 4096 BY <1>11, <2>1 DEF Pow
    <2> QED BY <2>2
  <1>12. CASE k = 12
    <2>1. k + 1 = 13 BY <1>12
    <2>2. Pow(k) = 4096 /\ Pow(k + 1) = 8192 BY <1>12, <2>1 DEF Pow
    <2> QED BY <2>2
  <1>13. CASE k = 13
    <2>1. k + 1 = 14 BY <1>13
    <2>2. Pow(k) = 8192 /\ Pow(k + 1) = 16384 BY <1>13, <2>1 DEF Pow
    <2> QED BY <2>2
  <1>14. CASE k = 14
    <2>1. k + 1 = 15 BY <1>14
    <2>2. Pow(k) = 16384 /\ Pow(k + 1) = 32768 BY <1>14, <2>1 DEF Pow
    <2> QED BY <2>2
  <1>15. CASE k = 15
    <2>1. k + 1 = 16 BY <1>15
    <2>2. Pow(k) = 32768 /\ Pow(k + 1) = 65536 BY <1>15, <2>1 DEF Pow
    <2> QED BY <2>2
  <1> QED BY <1>0, <1>1, <1>2, <1>3, <1>4, <1>5, <1>6, <1>7, <1>8, <1>9, <1>10, <1>11, <1>12,
             <1>13, <1>14, <1>15

\* Read back, the bits written are the number.
LEMMA NumberOfBits ==
  ASSUME NEW v \in Nat, v <= 65535, NEW start \in Nat
  PROVE  Number(Shifted(v, start), start) = v
  <1> DEFINE D == Shifted(v, start)
             w == [j \in D |-> Pow(j - start)]
             From(k) == {j \in D : j >= start + k}
             S(k) == SumFunctionOnSet(w, From(k))
  <1>1. Bits(v) \subseteq 0..15 /\ Bits(v) = {i \in 0..19 : (v \div Pow(i)) % 2 = 1}
    BY BitsFit DEF Bits, Pow
  <1>2. D \subseteq start..(start + 15) /\ D \subseteq Int BY <1>1 DEF Shifted
  <1>3. \A k \in 0..15 : start + k \in D <=> (v \div Pow(k)) % 2 = 1
    <2>1. ASSUME NEW k \in 0..15 PROVE start + k \in D <=> k \in Bits(v)
      <3>1. ASSUME start + k \in D PROVE k \in Bits(v)
        <4>1. PICK i \in Bits(v) : start + k = start + i BY <3>1 DEF Shifted
        <4>2. i \in 0..15 BY <1>1
        <4>3. i = k BY <4>1, <4>2
        <4> QED BY <4>3
      <3>2. ASSUME k \in Bits(v) PROVE start + k \in D BY <3>2 DEF Shifted
      <3> QED BY <3>1, <3>2
    <2>2. \A k \in 0..15 : k \in Bits(v) <=> (v \div Pow(k)) % 2 = 1 BY <1>1
    <2> QED BY <2>1, <2>2
  <1>4. IsFiniteSet(D)
    <2>1. IsFiniteSet(start..(start + 15)) BY FS_Interval
    <2> QED BY <1>2, <2>1, FS_Subset
  <1>5. \A j \in D : w[j] \in Int
    <2>1. ASSUME NEW j \in D PROVE Pow(j - start) \in Int
      <3>1. j - start \in 0..19 BY <1>2
      <3> DEFINE i == j - start
      <3> HIDE DEF i
      <3>2. Pow(i) \in Nat \ {0} BY <3>1, Powers DEF i
      <3> QED BY <3>2 DEF i
    <2> QED BY <2>1
  <1>6. Number(D, start) = SumFunctionOnSet(w, D) BY DEF Number, Pow
  <1> HIDE DEF D
  <1>7. ASSUME NEW k \in 0..15, S(k + 1) = Pow(k + 1) * (v \div Pow(k + 1))
        PROVE  S(k) = Pow(k) * (v \div Pow(k))
    <2> DEFINE p == Pow(k)
               b == start + k
    <2>1. p \in Nat \ {0}
      <3>1. k \in 0..19 OBVIOUS
      <3> QED BY ONLY <3>1, Powers
    <2>2. Pow(k + 1) = 2 * p BY PowersDouble
    <2>3. /\ b \in D => (v \div p) % 2 = 1 /\ w[b] = p
          /\ b \notin D => (v \div p) % 2 = 0
      <3>1. b - start = k BY <1>2
      <3>2. b \in D => w[b] = p BY <3>1
      <3>3. v \div p \in Nat BY <2>1, DivBounds
      <3>4. (v \div p) % 2 \in {0, 1}
        <4> DEFINE q == v \div p
        <4> HIDE DEF q
        <4>1. q \in Nat BY <3>3 DEF q
        <4>2. q % 2 \in {0, 1} BY <4>1
        <4> QED BY <4>2 DEF q
      <3>5. b \in D <=> (v \div p) % 2 = 1 BY <1>3
      <3> QED BY <3>2, <3>4, <3>5
    <2>4. S(k) = SumFunctionOnSet(w, {j \in D : j >= b}) OBVIOUS
    <2>5. S(k + 1) = SumFunctionOnSet(w, {j \in D : j >= b + 1})
      <3>1. start + (k + 1) = b + 1 BY <1>2
      <3> QED BY <3>1
    <2>6. b \in Int BY <1>2
    <2> HIDE DEF p, b, w, S
    <2>7. SumFunctionOnSet(w, {j \in D : j >= b + 1}) = (2 * p) * (v \div (2 * p))
      BY <1>7, <2>2, <2>5
    <2> DEFINE above == {j \in D : j >= b + 1}
               from == {j \in D : j >= b}
    <2>8. SumFunctionOnSet(w, from) = p * (v \div p)
      <3>1. SumFunctionOnSet(w, above) = (2 * p) * (v \div (2 * p)) BY <2>7
      <3>2. IsFiniteSet(from) /\ \A j \in from : w[j] \in Int
        <4>1. from \subseteq D OBVIOUS
        <4> QED BY <1>4, <1>5, <4>1, FS_Subset
      <3>3. \A j \in D : j >= b + 1 <=> j >= b /\ j # b BY <1>2, <2>6
      <3>4. b \in D => b \in from /\ above = from \ {b}
        <4> SUFFICES ASSUME b \in D PROVE b \in from /\ above = from \ {b} OBVIOUS
        <4>1. b \in from BY <2>6
        <4>2. above = from \ {b} BY ONLY <3>3
        <4> QED BY <4>1, <4>2
      <3>5. b \notin D => above = from BY <3>3
      <3> DEFINE q == v \div p
                 h == v \div (2 * p)
      <3>6. q \in Nat /\ h \in Nat /\ q = 2 * h + (q % 2)
        BY ONLY v \in Nat, <2>1, Halved
      <3>7. /\ b \in D => q % 2 = 1 /\ w[b] = p
            /\ b \notin D => q % 2 = 0
        BY ONLY <2>3
      <3>8. SumFunctionOnSet(w, above) = (2 * p) * h BY ONLY <3>1
      <3>9. p \in Nat BY <2>1
      <3> HIDE DEF q, h, above, from
      <3>10. \/ b \in from /\ above = from \ {b} /\ w[b] = p /\ q = 2 * h + 1
             \/ above = from /\ q = 2 * h
        <4>1. b \in D => q = 2 * h + 1 BY ONLY <3>6, <3>7
        <4>2. b \notin D => q = 2 * h BY ONLY <3>6, <3>7
        <4> QED BY ONLY <3>4, <3>5, <3>7, <4>1, <4>2
      <3>11. SumFunctionOnSet(w, from) = p * q
        <4>1. BitStep(p, q, h, from, above, w, b) BY ONLY <3>2, <3>6, <3>8, <3>9, <3>10 DEF BitStep
        <4> QED BY ONLY <4>1, BitRead
      <3> QED BY <3>11 DEF q
    <2> QED BY <2>4, <2>8 DEF p
  <1> DEFINE good == {k \in 0..16 : S(k) = Pow(k) * (v \div Pow(k))}
  <1>8. 16 \in good
    <2>1. From(16) = {}
      <3>1. \A j \in D : ~(j >= start + 16) BY <1>2
      <3> QED BY <3>1
    <2>2. S(16) = 0
      <3>1. IsFiniteSet({}) BY FS_EmptySet
      <3> HIDE DEF w
      <3> QED BY <2>1, <3>1, SumUnfolds
    <2>3. Pow(16) = 65536 BY DEF Pow
    <2>4. v \div 65536 = 0 OBVIOUS
    <2> QED BY <2>2, <2>3, <2>4
  <1>9. \A k \in 0..15 : k + 1 \in good => k \in good
    <2> HIDE DEF S
    <2>1. \A k \in 0..15 : k \in 0..16 OBVIOUS
    <2> QED BY <1>7, <2>1
  <1> HIDE DEF good
  <1>10. 15 \in good /\ 14 \in good
    <2>1. /\ 15 \in 0..15 /\ 15 + 1 = 16
          /\ 14 \in 0..15 /\ 14 + 1 = 15
      OBVIOUS
    <2> QED BY ONLY <1>9, <1>8, <2>1
  <1>11. 13 \in good /\ 12 \in good
    <2>1. /\ 13 \in 0..15 /\ 13 + 1 = 14
          /\ 12 \in 0..15 /\ 12 + 1 = 13
      OBVIOUS
    <2> QED BY ONLY <1>9, <1>10, <2>1
  <1>12. 11 \in good /\ 10 \in good
    <2>1. /\ 11 \in 0..15 /\ 11 + 1 = 12
          /\ 10 \in 0..15 /\ 10 + 1 = 11
      OBVIOUS
    <2> QED BY ONLY <1>9, <1>11, <2>1
  <1>13. 9 \in good /\ 8 \in good
    <2>1. /\ 9 \in 0..15 /\ 9 + 1 = 10
          /\ 8 \in 0..15 /\ 8 + 1 = 9
      OBVIOUS
    <2> QED BY ONLY <1>9, <1>12, <2>1
  <1>14. 7 \in good /\ 6 \in good
    <2>1. /\ 7 \in 0..15 /\ 7 + 1 = 8
          /\ 6 \in 0..15 /\ 6 + 1 = 7
      OBVIOUS
    <2> QED BY ONLY <1>9, <1>13, <2>1
  <1>15. 5 \in good /\ 4 \in good
    <2>1. /\ 5 \in 0..15 /\ 5 + 1 = 6
          /\ 4 \in 0..15 /\ 4 + 1 = 5
      OBVIOUS
    <2> QED BY ONLY <1>9, <1>14, <2>1
  <1>16. 3 \in good /\ 2 \in good
    <2>1. /\ 3 \in 0..15 /\ 3 + 1 = 4
          /\ 2 \in 0..15 /\ 2 + 1 = 3
      OBVIOUS
    <2> QED BY ONLY <1>9, <1>15, <2>1
  <1>17. 1 \in good /\ 0 \in good
    <2>1. /\ 1 \in 0..15 /\ 1 + 1 = 2
          /\ 0 \in 0..15 /\ 0 + 1 = 1
      OBVIOUS
    <2> QED BY ONLY <1>9, <1>16, <2>1
  <1>18. S(0) = v
    <2>1. Pow(0) = 1 BY DEF Pow
    <2>2. v \div 1 = v /\ 1 * v = v OBVIOUS
    <2>3. S(0) = Pow(0) * (v \div Pow(0)) BY <1>17 DEF good
    <2> HIDE DEF S
    <2> QED BY <2>1, <2>2, <2>3
  <1>19. From(0) = D
    <2>1. \A j \in D : j >= start + 0 BY <1>2
    <2> QED BY <2>1
  <1> HIDE DEF w
  <1>20. SumFunctionOnSet(w, D) = v BY <1>18, <1>19
  <1> QED BY <1>6, <1>20 DEF D

-----------------------------------------------------------------------------
(* Each setter changes its own term only. *)

\* The fields of the word.
Masks ==
  {LTV_MASK, LIQUIDATION_THRESHOLD_MASK, LIQUIDATION_BONUS_MASK, DECIMALS_MASK, ACTIVE_MASK,
   FROZEN_MASK, BORROWING_MASK, STABLE_BORROWING_MASK, COLLATERAL_MASK, RESERVE_FACTOR_MASK}

\* The fields next to one another do not overlap.
LEMMA MasksDisjoint ==
  \A m \in Masks, n \in Masks : m = n \/ m \cap n = {}
  <1> USE DEF LTV_MASK, LIQUIDATION_THRESHOLD_MASK, LIQUIDATION_BONUS_MASK, DECIMALS_MASK,
              ACTIVE_MASK, FROZEN_MASK, BORROWING_MASK, STABLE_BORROWING_MASK, COLLATERAL_MASK,
              RESERVE_FACTOR_MASK
  <1>1. \A n \in Masks : LTV_MASK = n \/ LTV_MASK \cap n = {} BY DEF Masks
  <1>2. \A n \in Masks : LIQUIDATION_THRESHOLD_MASK = n \/ LIQUIDATION_THRESHOLD_MASK \cap n = {}
    BY DEF Masks
  <1>3. \A n \in Masks : LIQUIDATION_BONUS_MASK = n \/ LIQUIDATION_BONUS_MASK \cap n = {}
    BY DEF Masks
  <1>4. \A n \in Masks : DECIMALS_MASK = n \/ DECIMALS_MASK \cap n = {} BY DEF Masks
  <1>5. \A n \in Masks : ACTIVE_MASK = n \/ ACTIVE_MASK \cap n = {} BY DEF Masks
  <1>6. \A n \in Masks : FROZEN_MASK = n \/ FROZEN_MASK \cap n = {} BY DEF Masks
  <1>7. \A n \in Masks : BORROWING_MASK = n \/ BORROWING_MASK \cap n = {} BY DEF Masks
  <1>8. \A n \in Masks : STABLE_BORROWING_MASK = n \/ STABLE_BORROWING_MASK \cap n = {} BY DEF Masks
  <1>9. \A n \in Masks : COLLATERAL_MASK = n \/ COLLATERAL_MASK \cap n = {} BY DEF Masks
  <1>10. \A n \in Masks : RESERVE_FACTOR_MASK = n \/ RESERVE_FACTOR_MASK \cap n = {} BY DEF Masks
  <1> QED BY <1>1, <1>2, <1>3, <1>4, <1>5, <1>6, <1>7, <1>8, <1>9, <1>10 DEF Masks

\* A field written holds the bits of the value; the other fields are kept.
LEMMA FieldWritten ==
  ASSUME NEW data, NEW mask \in Masks, NEW start \in Nat, NEW value \in Nat,
         Shifted(value, start) \subseteq mask
  PROVE  /\ setBits(data, mask, start, value) \cap mask = Shifted(value, start)
         /\ \A other \in Masks : other # mask =>
              setBits(data, mask, start, value) \cap other = data \cap other
  <1>1. setBits(data, mask, start, value) = (data \ mask) \cup Shifted(value, start)
    BY DEF setBits, Shifted
  <1>2. ASSUME NEW other \in Masks, other # mask
        PROVE  setBits(data, mask, start, value) \cap other = data \cap other
    <2>1. mask \cap other = {} BY <1>2, MasksDisjoint
    <2> QED BY <1>1, <2>1
  <1> QED BY <1>1, <1>2

\* Sixteen bits fit into sixteen, eight into eight.
LEMMA ValuesFit ==
  ASSUME NEW value \in Nat, NEW start \in Nat
  PROVE  /\ value <= 65535 => Shifted(value, start) \subseteq start..(start + 15)
         /\ value <= 255 => Shifted(value, start) \subseteq start..(start + 7)
  <1>1. /\ value <= 65535 => Bits(value) \subseteq 0..15
        /\ value <= 255 => Bits(value) \subseteq 0..7
    BY BitsFit
  <1> QED BY <1>1 DEF Shifted

\* A switch is one bit.
LEMMA SwitchFits ==
  ASSUME NEW on \in BOOLEAN, NEW start \in Nat
  PROVE  /\ (IF on THEN 1 ELSE 0) \in Nat
         /\ Shifted(IF on THEN 1 ELSE 0, start) = IF on THEN {start} ELSE {}
  <1>1. Bits(1) = {0} /\ Bits(0) = {} BY BitsFit
  <1>2. CASE on BY <1>1, <1>2 DEF Shifted
  <1>3. CASE ~on BY <1>1, <1>3 DEF Shifted
  <1> QED BY <1>2, <1>3

\* No two fields are the same.
LEMMA MasksDiffer ==
  /\ LTV_MASK # LIQUIDATION_THRESHOLD_MASK /\ LTV_MASK # LIQUIDATION_BONUS_MASK
  /\ LTV_MASK # DECIMALS_MASK /\ LTV_MASK # ACTIVE_MASK
  /\ LTV_MASK # FROZEN_MASK /\ LTV_MASK # BORROWING_MASK
  /\ LTV_MASK # STABLE_BORROWING_MASK /\ LTV_MASK # COLLATERAL_MASK
  /\ LTV_MASK # RESERVE_FACTOR_MASK
  /\ LIQUIDATION_THRESHOLD_MASK # LIQUIDATION_BONUS_MASK /\ LIQUIDATION_THRESHOLD_MASK # DECIMALS_MASK
  /\ LIQUIDATION_THRESHOLD_MASK # ACTIVE_MASK /\ LIQUIDATION_THRESHOLD_MASK # FROZEN_MASK
  /\ LIQUIDATION_THRESHOLD_MASK # BORROWING_MASK /\ LIQUIDATION_THRESHOLD_MASK # STABLE_BORROWING_MASK
  /\ LIQUIDATION_THRESHOLD_MASK # COLLATERAL_MASK /\ LIQUIDATION_THRESHOLD_MASK # RESERVE_FACTOR_MASK
  /\ LIQUIDATION_BONUS_MASK # DECIMALS_MASK /\ LIQUIDATION_BONUS_MASK # ACTIVE_MASK
  /\ LIQUIDATION_BONUS_MASK # FROZEN_MASK /\ LIQUIDATION_BONUS_MASK # BORROWING_MASK
  /\ LIQUIDATION_BONUS_MASK # STABLE_BORROWING_MASK /\ LIQUIDATION_BONUS_MASK # COLLATERAL_MASK
  /\ LIQUIDATION_BONUS_MASK # RESERVE_FACTOR_MASK
  /\ DECIMALS_MASK # ACTIVE_MASK /\ DECIMALS_MASK # FROZEN_MASK
  /\ DECIMALS_MASK # BORROWING_MASK /\ DECIMALS_MASK # STABLE_BORROWING_MASK
  /\ DECIMALS_MASK # COLLATERAL_MASK /\ DECIMALS_MASK # RESERVE_FACTOR_MASK
  /\ ACTIVE_MASK # FROZEN_MASK /\ ACTIVE_MASK # BORROWING_MASK
  /\ ACTIVE_MASK # STABLE_BORROWING_MASK /\ ACTIVE_MASK # COLLATERAL_MASK
  /\ ACTIVE_MASK # RESERVE_FACTOR_MASK
  /\ FROZEN_MASK # BORROWING_MASK /\ FROZEN_MASK # STABLE_BORROWING_MASK
  /\ FROZEN_MASK # COLLATERAL_MASK /\ FROZEN_MASK # RESERVE_FACTOR_MASK
  /\ BORROWING_MASK # STABLE_BORROWING_MASK /\ BORROWING_MASK # COLLATERAL_MASK
  /\ BORROWING_MASK # RESERVE_FACTOR_MASK
  /\ STABLE_BORROWING_MASK # COLLATERAL_MASK /\ STABLE_BORROWING_MASK # RESERVE_FACTOR_MASK
  /\ COLLATERAL_MASK # RESERVE_FACTOR_MASK
  BY DEF LTV_MASK, LIQUIDATION_THRESHOLD_MASK, LIQUIDATION_BONUS_MASK, DECIMALS_MASK,
         ACTIVE_MASK, FROZEN_MASK, BORROWING_MASK, STABLE_BORROWING_MASK, COLLATERAL_MASK,
         RESERVE_FACTOR_MASK

\* d is data with these bits in one field.
Written(data, d, mask, bits) ==
  /\ d \cap mask = bits
  /\ \A other \in Masks : other # mask => d \cap other = data \cap other

\* Terms with one parameter, or all three, replaced.
WithLtv(t, value) == [t EXCEPT !.params.ltv = value]
WithThreshold(t, value) == [t EXCEPT !.params.liquidationThreshold = value]
WithBonus(t, value) == [t EXCEPT !.params.liquidationBonus = value]
WithParams(t, l, th, b) ==
  [t EXCEPT !.params = [ltv |-> l, liquidationThreshold |-> th, liquidationBonus |-> b]]

\* Writing the loan to value leaves the other terms as they are.
LEMMA LtvWritten ==
  ASSUME NEW data \in SUBSET (0..79), NEW value \in Nat, value <= 65535
  PROVE  /\ termsOf(setLtv(data, value)) = WithLtv(termsOf(data), value)
         /\ setLtv(data, value) \subseteq 0..79
  <1> DEFINE d == setLtv(data, value)
  <1>1. Written(data, d, LTV_MASK, Shifted(value, 0)) /\ d \subseteq 0..79
    <2>1. Shifted(value, 0) \subseteq 0..(0 + 15) BY ValuesFit
    <2>2. Shifted(value, 0) \subseteq LTV_MASK /\ Shifted(value, 0) \subseteq 0..79
      BY <2>1 DEF LTV_MASK
    <2>3. d = setBits(data, LTV_MASK, 0, value) BY DEF setLtv
    <2>4. LTV_MASK \in Masks /\ 0 \in Nat BY DEF Masks
    <2>5. d = (data \ LTV_MASK) \cup Shifted(value, 0) BY <2>3 DEF setBits, Shifted
    <2> HIDE DEF d
    <2>6. d \subseteq 0..79 BY ONLY data \subseteq 0..79, <2>2, <2>5
    <2>7. Written(data, d, LTV_MASK, Shifted(value, 0))
      BY <2>1, <2>2, <2>3, <2>4, FieldWritten DEF Written
    <2> QED BY <2>6, <2>7
  <1> HIDE DEF d
  <1>2. /\ d \cap LIQUIDATION_THRESHOLD_MASK = data \cap LIQUIDATION_THRESHOLD_MASK
        /\ d \cap LIQUIDATION_BONUS_MASK = data \cap LIQUIDATION_BONUS_MASK
        /\ d \cap DECIMALS_MASK = data \cap DECIMALS_MASK
        /\ d \cap ACTIVE_MASK = data \cap ACTIVE_MASK
        /\ d \cap FROZEN_MASK = data \cap FROZEN_MASK
        /\ d \cap BORROWING_MASK = data \cap BORROWING_MASK
        /\ d \cap STABLE_BORROWING_MASK = data \cap STABLE_BORROWING_MASK
        /\ d \cap COLLATERAL_MASK = data \cap COLLATERAL_MASK
        /\ d \cap RESERVE_FACTOR_MASK = data \cap RESERVE_FACTOR_MASK
    BY <1>1, MasksDiffer DEF Written, Masks
  <1>3. getBits(d, LTV_MASK, 0) = value
    <2>1. d \cap LTV_MASK = Shifted(value, 0) BY <1>1 DEF Written
    <2>2. Number(Shifted(value, 0), 0) = value BY NumberOfBits
    <2> QED BY <2>1, <2>2 DEF getBits
  <1>4. /\ getBits(d, LIQUIDATION_THRESHOLD_MASK, 16) = getBits(data, LIQUIDATION_THRESHOLD_MASK, 16)
        /\ getBits(d, LIQUIDATION_BONUS_MASK, 32) = getBits(data, LIQUIDATION_BONUS_MASK, 32)
        /\ getBits(d, DECIMALS_MASK, 48) = getBits(data, DECIMALS_MASK, 48)
        /\ getFlag(d, ACTIVE_MASK) = getFlag(data, ACTIVE_MASK)
        /\ getFlag(d, FROZEN_MASK) = getFlag(data, FROZEN_MASK)
        /\ getFlag(d, BORROWING_MASK) = getFlag(data, BORROWING_MASK)
        /\ getFlag(d, STABLE_BORROWING_MASK) = getFlag(data, STABLE_BORROWING_MASK)
        /\ getFlag(d, COLLATERAL_MASK) = getFlag(data, COLLATERAL_MASK)
        /\ getBits(d, RESERVE_FACTOR_MASK, 64) = getBits(data, RESERVE_FACTOR_MASK, 64)
    BY ONLY <1>2 DEF getBits, getFlag
  <1>5. termsOf(d) = WithLtv(termsOf(data), value)
    BY ONLY <1>3, <1>4, SMTT(30) DEF termsOf, getParams, getFlags, WithLtv
  <1> QED BY <1>1, <1>5 DEF d

\* Writing the liquidation threshold leaves the other terms as they are.
LEMMA ThresholdWritten ==
  ASSUME NEW data \in SUBSET (0..79), NEW value \in Nat, value <= 65535
  PROVE  /\ termsOf(setLiquidationThreshold(data, value)) = WithThreshold(termsOf(data), value)
         /\ setLiquidationThreshold(data, value) \subseteq 0..79
  <1> DEFINE d == setLiquidationThreshold(data, value)
  <1>1. Written(data, d, LIQUIDATION_THRESHOLD_MASK, Shifted(value, 16)) /\ d \subseteq 0..79
    <2>1. Shifted(value, 16) \subseteq 16..(16 + 15) BY ValuesFit
    <2>2. Shifted(value, 16) \subseteq LIQUIDATION_THRESHOLD_MASK /\ Shifted(value, 16) \subseteq 0..79
      BY <2>1 DEF LIQUIDATION_THRESHOLD_MASK
    <2>3. d = setBits(data, LIQUIDATION_THRESHOLD_MASK, 16, value) BY DEF setLiquidationThreshold
    <2>4. LIQUIDATION_THRESHOLD_MASK \in Masks /\ 16 \in Nat BY DEF Masks
    <2>5. d = (data \ LIQUIDATION_THRESHOLD_MASK) \cup Shifted(value, 16)
      BY <2>3 DEF setBits, Shifted
    <2> HIDE DEF d
    <2>6. d \subseteq 0..79 BY ONLY data \subseteq 0..79, <2>2, <2>5
    <2>7. Written(data, d, LIQUIDATION_THRESHOLD_MASK, Shifted(value, 16))
      BY <2>1, <2>2, <2>3, <2>4, FieldWritten DEF Written
    <2> QED BY <2>6, <2>7
  <1> HIDE DEF d
  <1>2. /\ d \cap LTV_MASK = data \cap LTV_MASK
        /\ d \cap LIQUIDATION_BONUS_MASK = data \cap LIQUIDATION_BONUS_MASK
        /\ d \cap DECIMALS_MASK = data \cap DECIMALS_MASK
        /\ d \cap ACTIVE_MASK = data \cap ACTIVE_MASK
        /\ d \cap FROZEN_MASK = data \cap FROZEN_MASK
        /\ d \cap BORROWING_MASK = data \cap BORROWING_MASK
        /\ d \cap STABLE_BORROWING_MASK = data \cap STABLE_BORROWING_MASK
        /\ d \cap COLLATERAL_MASK = data \cap COLLATERAL_MASK
        /\ d \cap RESERVE_FACTOR_MASK = data \cap RESERVE_FACTOR_MASK
    BY <1>1, MasksDiffer DEF Written, Masks
  <1>3. getBits(d, LIQUIDATION_THRESHOLD_MASK, 16) = value
    <2>1. d \cap LIQUIDATION_THRESHOLD_MASK = Shifted(value, 16) BY <1>1 DEF Written
    <2>2. Number(Shifted(value, 16), 16) = value BY NumberOfBits
    <2> QED BY <2>1, <2>2 DEF getBits
  <1>4. /\ getBits(d, LTV_MASK, 0) = getBits(data, LTV_MASK, 0)
        /\ getBits(d, LIQUIDATION_BONUS_MASK, 32) = getBits(data, LIQUIDATION_BONUS_MASK, 32)
        /\ getBits(d, DECIMALS_MASK, 48) = getBits(data, DECIMALS_MASK, 48)
        /\ getFlag(d, ACTIVE_MASK) = getFlag(data, ACTIVE_MASK)
        /\ getFlag(d, FROZEN_MASK) = getFlag(data, FROZEN_MASK)
        /\ getFlag(d, BORROWING_MASK) = getFlag(data, BORROWING_MASK)
        /\ getFlag(d, STABLE_BORROWING_MASK) = getFlag(data, STABLE_BORROWING_MASK)
        /\ getFlag(d, COLLATERAL_MASK) = getFlag(data, COLLATERAL_MASK)
        /\ getBits(d, RESERVE_FACTOR_MASK, 64) = getBits(data, RESERVE_FACTOR_MASK, 64)
    BY ONLY <1>2 DEF getBits, getFlag
  <1>5. termsOf(d) = WithThreshold(termsOf(data), value)
    BY ONLY <1>3, <1>4, SMTT(30) DEF termsOf, getParams, getFlags, WithThreshold
  <1> QED BY <1>1, <1>5 DEF d

\* Writing the liquidation bonus leaves the other terms as they are.
LEMMA BonusWritten ==
  ASSUME NEW data \in SUBSET (0..79), NEW value \in Nat, value <= 65535
  PROVE  /\ termsOf(setLiquidationBonus(data, value)) = WithBonus(termsOf(data), value)
         /\ setLiquidationBonus(data, value) \subseteq 0..79
  <1> DEFINE d == setLiquidationBonus(data, value)
  <1>1. Written(data, d, LIQUIDATION_BONUS_MASK, Shifted(value, 32)) /\ d \subseteq 0..79
    <2>1. Shifted(value, 32) \subseteq 32..(32 + 15) BY ValuesFit
    <2>2. Shifted(value, 32) \subseteq LIQUIDATION_BONUS_MASK /\ Shifted(value, 32) \subseteq 0..79
      BY <2>1 DEF LIQUIDATION_BONUS_MASK
    <2>3. d = setBits(data, LIQUIDATION_BONUS_MASK, 32, value) BY DEF setLiquidationBonus
    <2>4. LIQUIDATION_BONUS_MASK \in Masks /\ 32 \in Nat BY DEF Masks
    <2>5. d = (data \ LIQUIDATION_BONUS_MASK) \cup Shifted(value, 32) BY <2>3 DEF setBits, Shifted
    <2> HIDE DEF d
    <2>6. d \subseteq 0..79 BY ONLY data \subseteq 0..79, <2>2, <2>5
    <2>7. Written(data, d, LIQUIDATION_BONUS_MASK, Shifted(value, 32))
      BY <2>1, <2>2, <2>3, <2>4, FieldWritten DEF Written
    <2> QED BY <2>6, <2>7
  <1> HIDE DEF d
  <1>2. /\ d \cap LTV_MASK = data \cap LTV_MASK
        /\ d \cap LIQUIDATION_THRESHOLD_MASK = data \cap LIQUIDATION_THRESHOLD_MASK
        /\ d \cap DECIMALS_MASK = data \cap DECIMALS_MASK
        /\ d \cap ACTIVE_MASK = data \cap ACTIVE_MASK
        /\ d \cap FROZEN_MASK = data \cap FROZEN_MASK
        /\ d \cap BORROWING_MASK = data \cap BORROWING_MASK
        /\ d \cap STABLE_BORROWING_MASK = data \cap STABLE_BORROWING_MASK
        /\ d \cap COLLATERAL_MASK = data \cap COLLATERAL_MASK
        /\ d \cap RESERVE_FACTOR_MASK = data \cap RESERVE_FACTOR_MASK
    BY <1>1, MasksDiffer DEF Written, Masks
  <1>3. getBits(d, LIQUIDATION_BONUS_MASK, 32) = value
    <2>1. d \cap LIQUIDATION_BONUS_MASK = Shifted(value, 32) BY <1>1 DEF Written
    <2>2. Number(Shifted(value, 32), 32) = value BY NumberOfBits
    <2> QED BY <2>1, <2>2 DEF getBits
  <1>4. /\ getBits(d, LTV_MASK, 0) = getBits(data, LTV_MASK, 0)
        /\ getBits(d, LIQUIDATION_THRESHOLD_MASK, 16) = getBits(data, LIQUIDATION_THRESHOLD_MASK, 16)
        /\ getBits(d, DECIMALS_MASK, 48) = getBits(data, DECIMALS_MASK, 48)
        /\ getFlag(d, ACTIVE_MASK) = getFlag(data, ACTIVE_MASK)
        /\ getFlag(d, FROZEN_MASK) = getFlag(data, FROZEN_MASK)
        /\ getFlag(d, BORROWING_MASK) = getFlag(data, BORROWING_MASK)
        /\ getFlag(d, STABLE_BORROWING_MASK) = getFlag(data, STABLE_BORROWING_MASK)
        /\ getFlag(d, COLLATERAL_MASK) = getFlag(data, COLLATERAL_MASK)
        /\ getBits(d, RESERVE_FACTOR_MASK, 64) = getBits(data, RESERVE_FACTOR_MASK, 64)
    BY ONLY <1>2 DEF getBits, getFlag
  <1>5. termsOf(d) = WithBonus(termsOf(data), value)
    BY ONLY <1>3, <1>4, SMTT(30) DEF termsOf, getParams, getFlags, WithBonus
  <1> QED BY <1>1, <1>5 DEF d

\* Writing the decimals leaves the other terms as they are.
LEMMA DecimalsWritten ==
  ASSUME NEW data \in SUBSET (0..79), NEW value \in Nat, value <= 255
  PROVE  /\ termsOf(setDecimals(data, value)) = [termsOf(data) EXCEPT !.decimals = value]
         /\ setDecimals(data, value) \subseteq 0..79
  <1> DEFINE d == setDecimals(data, value)
  <1>1. Written(data, d, DECIMALS_MASK, Shifted(value, 48)) /\ d \subseteq 0..79
    <2>1. Shifted(value, 48) \subseteq 48..(48 + 7) BY ValuesFit
    <2>2. Shifted(value, 48) \subseteq DECIMALS_MASK /\ Shifted(value, 48) \subseteq 0..79
      BY <2>1 DEF DECIMALS_MASK
    <2>3. d = setBits(data, DECIMALS_MASK, 48, value) BY DEF setDecimals
    <2>4. DECIMALS_MASK \in Masks /\ 48 \in Nat BY DEF Masks
    <2>5. d = (data \ DECIMALS_MASK) \cup Shifted(value, 48) BY <2>3 DEF setBits, Shifted
    <2> HIDE DEF d
    <2>6. d \subseteq 0..79 BY ONLY data \subseteq 0..79, <2>2, <2>5
    <2>7. Written(data, d, DECIMALS_MASK, Shifted(value, 48))
      BY <2>1, <2>2, <2>3, <2>4, FieldWritten DEF Written
    <2> QED BY <2>6, <2>7
  <1> HIDE DEF d
  <1>2. /\ d \cap LTV_MASK = data \cap LTV_MASK
        /\ d \cap LIQUIDATION_THRESHOLD_MASK = data \cap LIQUIDATION_THRESHOLD_MASK
        /\ d \cap LIQUIDATION_BONUS_MASK = data \cap LIQUIDATION_BONUS_MASK
        /\ d \cap ACTIVE_MASK = data \cap ACTIVE_MASK
        /\ d \cap FROZEN_MASK = data \cap FROZEN_MASK
        /\ d \cap BORROWING_MASK = data \cap BORROWING_MASK
        /\ d \cap STABLE_BORROWING_MASK = data \cap STABLE_BORROWING_MASK
        /\ d \cap COLLATERAL_MASK = data \cap COLLATERAL_MASK
        /\ d \cap RESERVE_FACTOR_MASK = data \cap RESERVE_FACTOR_MASK
    BY <1>1, MasksDiffer DEF Written, Masks
  <1>3. getBits(d, DECIMALS_MASK, 48) = value
    <2>1. d \cap DECIMALS_MASK = Shifted(value, 48) BY <1>1 DEF Written
    <2>2. Number(Shifted(value, 48), 48) = value BY NumberOfBits
    <2> QED BY <2>1, <2>2 DEF getBits
  <1>4. /\ getBits(d, LTV_MASK, 0) = getBits(data, LTV_MASK, 0)
        /\ getBits(d, LIQUIDATION_THRESHOLD_MASK, 16) = getBits(data, LIQUIDATION_THRESHOLD_MASK, 16)
        /\ getBits(d, LIQUIDATION_BONUS_MASK, 32) = getBits(data, LIQUIDATION_BONUS_MASK, 32)
        /\ getFlag(d, ACTIVE_MASK) = getFlag(data, ACTIVE_MASK)
        /\ getFlag(d, FROZEN_MASK) = getFlag(data, FROZEN_MASK)
        /\ getFlag(d, BORROWING_MASK) = getFlag(data, BORROWING_MASK)
        /\ getFlag(d, STABLE_BORROWING_MASK) = getFlag(data, STABLE_BORROWING_MASK)
        /\ getFlag(d, COLLATERAL_MASK) = getFlag(data, COLLATERAL_MASK)
        /\ getBits(d, RESERVE_FACTOR_MASK, 64) = getBits(data, RESERVE_FACTOR_MASK, 64)
    BY ONLY <1>2 DEF getBits, getFlag
  <1>5. termsOf(d) = [termsOf(data) EXCEPT !.decimals = value]
    BY ONLY <1>3, <1>4, SMTT(30) DEF termsOf, getParams, getFlags
  <1> QED BY <1>1, <1>5 DEF d

\* Writing the active switch leaves the other terms as they are.
LEMMA ActiveWritten ==
  ASSUME NEW data \in SUBSET (0..79), NEW on \in BOOLEAN
  PROVE  /\ termsOf(setActive(data, on)) = [termsOf(data) EXCEPT !.active = on]
         /\ setActive(data, on) \subseteq 0..79
  <1> DEFINE d == setActive(data, on)
  <1>1. Written(data, d, ACTIVE_MASK, IF on THEN {56} ELSE {}) /\ d \subseteq 0..79
    <2> DEFINE value == IF on THEN 1 ELSE 0
    <2>1. value \in Nat /\ Shifted(value, 56) = IF on THEN {56} ELSE {} BY SwitchFits
    <2>2. Shifted(value, 56) \subseteq ACTIVE_MASK /\ Shifted(value, 56) \subseteq 0..79
      BY <2>1 DEF ACTIVE_MASK
    <2>3. d = setBits(data, ACTIVE_MASK, 56, value) BY DEF setActive, setFlag
    <2>4. ACTIVE_MASK \in Masks /\ 56 \in Nat BY DEF Masks
    <2>5. d = (data \ ACTIVE_MASK) \cup Shifted(value, 56) BY <2>3 DEF setBits, Shifted
    <2> HIDE DEF d, value
    <2>6. d \subseteq 0..79 BY ONLY data \subseteq 0..79, <2>2, <2>5
    <2>7. Written(data, d, ACTIVE_MASK, Shifted(value, 56))
      BY <2>1, <2>2, <2>3, <2>4, FieldWritten DEF Written
    <2> QED BY <2>1, <2>6, <2>7
  <1> HIDE DEF d
  <1>2. /\ d \cap LTV_MASK = data \cap LTV_MASK
        /\ d \cap LIQUIDATION_THRESHOLD_MASK = data \cap LIQUIDATION_THRESHOLD_MASK
        /\ d \cap LIQUIDATION_BONUS_MASK = data \cap LIQUIDATION_BONUS_MASK
        /\ d \cap DECIMALS_MASK = data \cap DECIMALS_MASK
        /\ d \cap FROZEN_MASK = data \cap FROZEN_MASK
        /\ d \cap BORROWING_MASK = data \cap BORROWING_MASK
        /\ d \cap STABLE_BORROWING_MASK = data \cap STABLE_BORROWING_MASK
        /\ d \cap COLLATERAL_MASK = data \cap COLLATERAL_MASK
        /\ d \cap RESERVE_FACTOR_MASK = data \cap RESERVE_FACTOR_MASK
    BY <1>1, MasksDiffer DEF Written, Masks
  <1>3. getFlag(d, ACTIVE_MASK) = on BY <1>1 DEF Written, getFlag
  <1>4. /\ getBits(d, LTV_MASK, 0) = getBits(data, LTV_MASK, 0)
        /\ getBits(d, LIQUIDATION_THRESHOLD_MASK, 16) = getBits(data, LIQUIDATION_THRESHOLD_MASK, 16)
        /\ getBits(d, LIQUIDATION_BONUS_MASK, 32) = getBits(data, LIQUIDATION_BONUS_MASK, 32)
        /\ getBits(d, DECIMALS_MASK, 48) = getBits(data, DECIMALS_MASK, 48)
        /\ getFlag(d, FROZEN_MASK) = getFlag(data, FROZEN_MASK)
        /\ getFlag(d, BORROWING_MASK) = getFlag(data, BORROWING_MASK)
        /\ getFlag(d, STABLE_BORROWING_MASK) = getFlag(data, STABLE_BORROWING_MASK)
        /\ getFlag(d, COLLATERAL_MASK) = getFlag(data, COLLATERAL_MASK)
        /\ getBits(d, RESERVE_FACTOR_MASK, 64) = getBits(data, RESERVE_FACTOR_MASK, 64)
    BY ONLY <1>2 DEF getBits, getFlag
  <1>5. termsOf(d) = [termsOf(data) EXCEPT !.active = on]
    BY ONLY <1>3, <1>4, SMTT(30) DEF termsOf, getParams, getFlags
  <1> QED BY <1>1, <1>5 DEF d

\* Writing the frozen switch leaves the other terms as they are.
LEMMA FrozenWritten ==
  ASSUME NEW data \in SUBSET (0..79), NEW on \in BOOLEAN
  PROVE  /\ termsOf(setFrozen(data, on)) = [termsOf(data) EXCEPT !.frozen = on]
         /\ setFrozen(data, on) \subseteq 0..79
  <1> DEFINE d == setFrozen(data, on)
  <1>1. Written(data, d, FROZEN_MASK, IF on THEN {57} ELSE {}) /\ d \subseteq 0..79
    <2> DEFINE value == IF on THEN 1 ELSE 0
    <2>1. value \in Nat /\ Shifted(value, 57) = IF on THEN {57} ELSE {} BY SwitchFits
    <2>2. Shifted(value, 57) \subseteq FROZEN_MASK /\ Shifted(value, 57) \subseteq 0..79
      BY <2>1 DEF FROZEN_MASK
    <2>3. d = setBits(data, FROZEN_MASK, 57, value) BY DEF setFrozen, setFlag
    <2>4. FROZEN_MASK \in Masks /\ 57 \in Nat BY DEF Masks
    <2>5. d = (data \ FROZEN_MASK) \cup Shifted(value, 57) BY <2>3 DEF setBits, Shifted
    <2> HIDE DEF d, value
    <2>6. d \subseteq 0..79 BY ONLY data \subseteq 0..79, <2>2, <2>5
    <2>7. Written(data, d, FROZEN_MASK, Shifted(value, 57))
      BY <2>1, <2>2, <2>3, <2>4, FieldWritten DEF Written
    <2> QED BY <2>1, <2>6, <2>7
  <1> HIDE DEF d
  <1>2. /\ d \cap LTV_MASK = data \cap LTV_MASK
        /\ d \cap LIQUIDATION_THRESHOLD_MASK = data \cap LIQUIDATION_THRESHOLD_MASK
        /\ d \cap LIQUIDATION_BONUS_MASK = data \cap LIQUIDATION_BONUS_MASK
        /\ d \cap DECIMALS_MASK = data \cap DECIMALS_MASK
        /\ d \cap ACTIVE_MASK = data \cap ACTIVE_MASK
        /\ d \cap BORROWING_MASK = data \cap BORROWING_MASK
        /\ d \cap STABLE_BORROWING_MASK = data \cap STABLE_BORROWING_MASK
        /\ d \cap COLLATERAL_MASK = data \cap COLLATERAL_MASK
        /\ d \cap RESERVE_FACTOR_MASK = data \cap RESERVE_FACTOR_MASK
    BY <1>1, MasksDiffer DEF Written, Masks
  <1>3. getFlag(d, FROZEN_MASK) = on BY <1>1 DEF Written, getFlag
  <1>4. /\ getBits(d, LTV_MASK, 0) = getBits(data, LTV_MASK, 0)
        /\ getBits(d, LIQUIDATION_THRESHOLD_MASK, 16) = getBits(data, LIQUIDATION_THRESHOLD_MASK, 16)
        /\ getBits(d, LIQUIDATION_BONUS_MASK, 32) = getBits(data, LIQUIDATION_BONUS_MASK, 32)
        /\ getBits(d, DECIMALS_MASK, 48) = getBits(data, DECIMALS_MASK, 48)
        /\ getFlag(d, ACTIVE_MASK) = getFlag(data, ACTIVE_MASK)
        /\ getFlag(d, BORROWING_MASK) = getFlag(data, BORROWING_MASK)
        /\ getFlag(d, STABLE_BORROWING_MASK) = getFlag(data, STABLE_BORROWING_MASK)
        /\ getFlag(d, COLLATERAL_MASK) = getFlag(data, COLLATERAL_MASK)
        /\ getBits(d, RESERVE_FACTOR_MASK, 64) = getBits(data, RESERVE_FACTOR_MASK, 64)
    BY ONLY <1>2 DEF getBits, getFlag
  <1>5. termsOf(d) = [termsOf(data) EXCEPT !.frozen = on]
    BY ONLY <1>3, <1>4, SMTT(30) DEF termsOf, getParams, getFlags
  <1> QED BY <1>1, <1>5 DEF d

\* Writing the borrowing switch leaves the other terms as they are.
LEMMA BorrowingWritten ==
  ASSUME NEW data \in SUBSET (0..79), NEW on \in BOOLEAN
  PROVE  /\ termsOf(setBorrowingEnabled(data, on)) = [termsOf(data) EXCEPT !.borrowing = on]
         /\ setBorrowingEnabled(data, on) \subseteq 0..79
  <1> DEFINE d == setBorrowingEnabled(data, on)
  <1>1. Written(data, d, BORROWING_MASK, IF on THEN {58} ELSE {}) /\ d \subseteq 0..79
    <2> DEFINE value == IF on THEN 1 ELSE 0
    <2>1. value \in Nat /\ Shifted(value, 58) = IF on THEN {58} ELSE {} BY SwitchFits
    <2>2. Shifted(value, 58) \subseteq BORROWING_MASK /\ Shifted(value, 58) \subseteq 0..79
      BY <2>1 DEF BORROWING_MASK
    <2>3. d = setBits(data, BORROWING_MASK, 58, value) BY DEF setBorrowingEnabled, setFlag
    <2>4. BORROWING_MASK \in Masks /\ 58 \in Nat BY DEF Masks
    <2>5. d = (data \ BORROWING_MASK) \cup Shifted(value, 58) BY <2>3 DEF setBits, Shifted
    <2> HIDE DEF d, value
    <2>6. d \subseteq 0..79 BY ONLY data \subseteq 0..79, <2>2, <2>5
    <2>7. Written(data, d, BORROWING_MASK, Shifted(value, 58))
      BY <2>1, <2>2, <2>3, <2>4, FieldWritten DEF Written
    <2> QED BY <2>1, <2>6, <2>7
  <1> HIDE DEF d
  <1>2. /\ d \cap LTV_MASK = data \cap LTV_MASK
        /\ d \cap LIQUIDATION_THRESHOLD_MASK = data \cap LIQUIDATION_THRESHOLD_MASK
        /\ d \cap LIQUIDATION_BONUS_MASK = data \cap LIQUIDATION_BONUS_MASK
        /\ d \cap DECIMALS_MASK = data \cap DECIMALS_MASK
        /\ d \cap ACTIVE_MASK = data \cap ACTIVE_MASK
        /\ d \cap FROZEN_MASK = data \cap FROZEN_MASK
        /\ d \cap STABLE_BORROWING_MASK = data \cap STABLE_BORROWING_MASK
        /\ d \cap COLLATERAL_MASK = data \cap COLLATERAL_MASK
        /\ d \cap RESERVE_FACTOR_MASK = data \cap RESERVE_FACTOR_MASK
    BY <1>1, MasksDiffer DEF Written, Masks
  <1>3. getFlag(d, BORROWING_MASK) = on BY <1>1 DEF Written, getFlag
  <1>4. /\ getBits(d, LTV_MASK, 0) = getBits(data, LTV_MASK, 0)
        /\ getBits(d, LIQUIDATION_THRESHOLD_MASK, 16) = getBits(data, LIQUIDATION_THRESHOLD_MASK, 16)
        /\ getBits(d, LIQUIDATION_BONUS_MASK, 32) = getBits(data, LIQUIDATION_BONUS_MASK, 32)
        /\ getBits(d, DECIMALS_MASK, 48) = getBits(data, DECIMALS_MASK, 48)
        /\ getFlag(d, ACTIVE_MASK) = getFlag(data, ACTIVE_MASK)
        /\ getFlag(d, FROZEN_MASK) = getFlag(data, FROZEN_MASK)
        /\ getFlag(d, STABLE_BORROWING_MASK) = getFlag(data, STABLE_BORROWING_MASK)
        /\ getFlag(d, COLLATERAL_MASK) = getFlag(data, COLLATERAL_MASK)
        /\ getBits(d, RESERVE_FACTOR_MASK, 64) = getBits(data, RESERVE_FACTOR_MASK, 64)
    BY ONLY <1>2 DEF getBits, getFlag
  <1>5. termsOf(d) = [termsOf(data) EXCEPT !.borrowing = on]
    BY ONLY <1>3, <1>4, SMTT(30) DEF termsOf, getParams, getFlags
  <1> QED BY <1>1, <1>5 DEF d

\* Writing the stable borrowing switch leaves the other terms as they are.
LEMMA StableWritten ==
  ASSUME NEW data \in SUBSET (0..79), NEW on \in BOOLEAN
  PROVE  /\ termsOf(setStableRateBorrowingEnabled(data, on)) = [termsOf(data) EXCEPT !.stable = on]
         /\ setStableRateBorrowingEnabled(data, on) \subseteq 0..79
  <1> DEFINE d == setStableRateBorrowingEnabled(data, on)
  <1>1. Written(data, d, STABLE_BORROWING_MASK, IF on THEN {59} ELSE {}) /\ d \subseteq 0..79
    <2> DEFINE value == IF on THEN 1 ELSE 0
    <2>1. value \in Nat /\ Shifted(value, 59) = IF on THEN {59} ELSE {} BY SwitchFits
    <2>2. Shifted(value, 59) \subseteq STABLE_BORROWING_MASK /\ Shifted(value, 59) \subseteq 0..79
      BY <2>1 DEF STABLE_BORROWING_MASK
    <2>3. d = setBits(data, STABLE_BORROWING_MASK, 59, value)
      BY DEF setStableRateBorrowingEnabled, setFlag
    <2>4. STABLE_BORROWING_MASK \in Masks /\ 59 \in Nat BY DEF Masks
    <2>5. d = (data \ STABLE_BORROWING_MASK) \cup Shifted(value, 59) BY <2>3 DEF setBits, Shifted
    <2> HIDE DEF d, value
    <2>6. d \subseteq 0..79 BY ONLY data \subseteq 0..79, <2>2, <2>5
    <2>7. Written(data, d, STABLE_BORROWING_MASK, Shifted(value, 59))
      BY <2>1, <2>2, <2>3, <2>4, FieldWritten DEF Written
    <2> QED BY <2>1, <2>6, <2>7
  <1> HIDE DEF d
  <1>2. /\ d \cap LTV_MASK = data \cap LTV_MASK
        /\ d \cap LIQUIDATION_THRESHOLD_MASK = data \cap LIQUIDATION_THRESHOLD_MASK
        /\ d \cap LIQUIDATION_BONUS_MASK = data \cap LIQUIDATION_BONUS_MASK
        /\ d \cap DECIMALS_MASK = data \cap DECIMALS_MASK
        /\ d \cap ACTIVE_MASK = data \cap ACTIVE_MASK
        /\ d \cap FROZEN_MASK = data \cap FROZEN_MASK
        /\ d \cap BORROWING_MASK = data \cap BORROWING_MASK
        /\ d \cap COLLATERAL_MASK = data \cap COLLATERAL_MASK
        /\ d \cap RESERVE_FACTOR_MASK = data \cap RESERVE_FACTOR_MASK
    BY <1>1, MasksDiffer DEF Written, Masks
  <1>3. getFlag(d, STABLE_BORROWING_MASK) = on BY <1>1 DEF Written, getFlag
  <1>4. /\ getBits(d, LTV_MASK, 0) = getBits(data, LTV_MASK, 0)
        /\ getBits(d, LIQUIDATION_THRESHOLD_MASK, 16) = getBits(data, LIQUIDATION_THRESHOLD_MASK, 16)
        /\ getBits(d, LIQUIDATION_BONUS_MASK, 32) = getBits(data, LIQUIDATION_BONUS_MASK, 32)
        /\ getBits(d, DECIMALS_MASK, 48) = getBits(data, DECIMALS_MASK, 48)
        /\ getFlag(d, ACTIVE_MASK) = getFlag(data, ACTIVE_MASK)
        /\ getFlag(d, FROZEN_MASK) = getFlag(data, FROZEN_MASK)
        /\ getFlag(d, BORROWING_MASK) = getFlag(data, BORROWING_MASK)
        /\ getFlag(d, COLLATERAL_MASK) = getFlag(data, COLLATERAL_MASK)
        /\ getBits(d, RESERVE_FACTOR_MASK, 64) = getBits(data, RESERVE_FACTOR_MASK, 64)
    BY ONLY <1>2 DEF getBits, getFlag
  <1>5. termsOf(d) = [termsOf(data) EXCEPT !.stable = on]
    BY ONLY <1>3, <1>4, SMTT(30) DEF termsOf, getParams, getFlags
  <1> QED BY <1>1, <1>5 DEF d

\* Writing the collateral switch leaves the other terms as they are.
LEMMA CollateralWritten ==
  ASSUME NEW data \in SUBSET (0..79), NEW on \in BOOLEAN
  PROVE  /\ termsOf(setCollateralEnabled(data, on)) = [termsOf(data) EXCEPT !.collateral = on]
         /\ setCollateralEnabled(data, on) \subseteq 0..79
  <1> DEFINE d == setCollateralEnabled(data, on)
  <1>1. Written(data, d, COLLATERAL_MASK, IF on THEN {60} ELSE {}) /\ d \subseteq 0..79
    <2> DEFINE value == IF on THEN 1 ELSE 0
    <2>1. value \in Nat /\ Shifted(value, 60) = IF on THEN {60} ELSE {} BY SwitchFits
    <2>2. Shifted(value, 60) \subseteq COLLATERAL_MASK /\ Shifted(value, 60) \subseteq 0..79
      BY <2>1 DEF COLLATERAL_MASK
    <2>3. d = setBits(data, COLLATERAL_MASK, 60, value) BY DEF setCollateralEnabled, setFlag
    <2>4. COLLATERAL_MASK \in Masks /\ 60 \in Nat BY DEF Masks
    <2>5. d = (data \ COLLATERAL_MASK) \cup Shifted(value, 60) BY <2>3 DEF setBits, Shifted
    <2> HIDE DEF d, value
    <2>6. d \subseteq 0..79 BY ONLY data \subseteq 0..79, <2>2, <2>5
    <2>7. Written(data, d, COLLATERAL_MASK, Shifted(value, 60))
      BY <2>1, <2>2, <2>3, <2>4, FieldWritten DEF Written
    <2> QED BY <2>1, <2>6, <2>7
  <1> HIDE DEF d
  <1>2. /\ d \cap LTV_MASK = data \cap LTV_MASK
        /\ d \cap LIQUIDATION_THRESHOLD_MASK = data \cap LIQUIDATION_THRESHOLD_MASK
        /\ d \cap LIQUIDATION_BONUS_MASK = data \cap LIQUIDATION_BONUS_MASK
        /\ d \cap DECIMALS_MASK = data \cap DECIMALS_MASK
        /\ d \cap ACTIVE_MASK = data \cap ACTIVE_MASK
        /\ d \cap FROZEN_MASK = data \cap FROZEN_MASK
        /\ d \cap BORROWING_MASK = data \cap BORROWING_MASK
        /\ d \cap STABLE_BORROWING_MASK = data \cap STABLE_BORROWING_MASK
        /\ d \cap RESERVE_FACTOR_MASK = data \cap RESERVE_FACTOR_MASK
    BY <1>1, MasksDiffer DEF Written, Masks
  <1>3. getFlag(d, COLLATERAL_MASK) = on BY <1>1 DEF Written, getFlag
  <1>4. /\ getBits(d, LTV_MASK, 0) = getBits(data, LTV_MASK, 0)
        /\ getBits(d, LIQUIDATION_THRESHOLD_MASK, 16) = getBits(data, LIQUIDATION_THRESHOLD_MASK, 16)
        /\ getBits(d, LIQUIDATION_BONUS_MASK, 32) = getBits(data, LIQUIDATION_BONUS_MASK, 32)
        /\ getBits(d, DECIMALS_MASK, 48) = getBits(data, DECIMALS_MASK, 48)
        /\ getFlag(d, ACTIVE_MASK) = getFlag(data, ACTIVE_MASK)
        /\ getFlag(d, FROZEN_MASK) = getFlag(data, FROZEN_MASK)
        /\ getFlag(d, BORROWING_MASK) = getFlag(data, BORROWING_MASK)
        /\ getFlag(d, STABLE_BORROWING_MASK) = getFlag(data, STABLE_BORROWING_MASK)
        /\ getBits(d, RESERVE_FACTOR_MASK, 64) = getBits(data, RESERVE_FACTOR_MASK, 64)
    BY ONLY <1>2 DEF getBits, getFlag
  <1>5. termsOf(d) = [termsOf(data) EXCEPT !.collateral = on]
    BY ONLY <1>3, <1>4, SMTT(30) DEF termsOf, getParams, getFlags
  <1> QED BY <1>1, <1>5 DEF d

\* Writing the reserve factor leaves the other terms as they are.
LEMMA FactorWritten ==
  ASSUME NEW data \in SUBSET (0..79), NEW value \in Nat, value <= 65535
  PROVE  /\ termsOf(setReserveFactor(data, value)) = [termsOf(data) EXCEPT !.reserveFactor = value]
         /\ setReserveFactor(data, value) \subseteq 0..79
  <1> DEFINE d == setReserveFactor(data, value)
  <1>1. Written(data, d, RESERVE_FACTOR_MASK, Shifted(value, 64)) /\ d \subseteq 0..79
    <2>1. Shifted(value, 64) \subseteq 64..(64 + 15) BY ValuesFit
    <2>2. Shifted(value, 64) \subseteq RESERVE_FACTOR_MASK /\ Shifted(value, 64) \subseteq 0..79
      BY <2>1 DEF RESERVE_FACTOR_MASK
    <2>3. d = setBits(data, RESERVE_FACTOR_MASK, 64, value) BY DEF setReserveFactor
    <2>4. RESERVE_FACTOR_MASK \in Masks /\ 64 \in Nat BY DEF Masks
    <2>5. d = (data \ RESERVE_FACTOR_MASK) \cup Shifted(value, 64) BY <2>3 DEF setBits, Shifted
    <2> HIDE DEF d
    <2>6. d \subseteq 0..79 BY ONLY data \subseteq 0..79, <2>2, <2>5
    <2>7. Written(data, d, RESERVE_FACTOR_MASK, Shifted(value, 64))
      BY <2>1, <2>2, <2>3, <2>4, FieldWritten DEF Written
    <2> QED BY <2>6, <2>7
  <1> HIDE DEF d
  <1>2. /\ d \cap LTV_MASK = data \cap LTV_MASK
        /\ d \cap LIQUIDATION_THRESHOLD_MASK = data \cap LIQUIDATION_THRESHOLD_MASK
        /\ d \cap LIQUIDATION_BONUS_MASK = data \cap LIQUIDATION_BONUS_MASK
        /\ d \cap DECIMALS_MASK = data \cap DECIMALS_MASK
        /\ d \cap ACTIVE_MASK = data \cap ACTIVE_MASK
        /\ d \cap FROZEN_MASK = data \cap FROZEN_MASK
        /\ d \cap BORROWING_MASK = data \cap BORROWING_MASK
        /\ d \cap STABLE_BORROWING_MASK = data \cap STABLE_BORROWING_MASK
        /\ d \cap COLLATERAL_MASK = data \cap COLLATERAL_MASK
    BY <1>1, MasksDiffer DEF Written, Masks
  <1>3. getBits(d, RESERVE_FACTOR_MASK, 64) = value
    <2>1. d \cap RESERVE_FACTOR_MASK = Shifted(value, 64) BY <1>1 DEF Written
    <2>2. Number(Shifted(value, 64), 64) = value BY NumberOfBits
    <2> QED BY <2>1, <2>2 DEF getBits
  <1>4. /\ getBits(d, LTV_MASK, 0) = getBits(data, LTV_MASK, 0)
        /\ getBits(d, LIQUIDATION_THRESHOLD_MASK, 16) = getBits(data, LIQUIDATION_THRESHOLD_MASK, 16)
        /\ getBits(d, LIQUIDATION_BONUS_MASK, 32) = getBits(data, LIQUIDATION_BONUS_MASK, 32)
        /\ getBits(d, DECIMALS_MASK, 48) = getBits(data, DECIMALS_MASK, 48)
        /\ getFlag(d, ACTIVE_MASK) = getFlag(data, ACTIVE_MASK)
        /\ getFlag(d, FROZEN_MASK) = getFlag(data, FROZEN_MASK)
        /\ getFlag(d, BORROWING_MASK) = getFlag(data, BORROWING_MASK)
        /\ getFlag(d, STABLE_BORROWING_MASK) = getFlag(data, STABLE_BORROWING_MASK)
        /\ getFlag(d, COLLATERAL_MASK) = getFlag(data, COLLATERAL_MASK)
    BY ONLY <1>2 DEF getBits, getFlag
  <1>5. termsOf(d) = [termsOf(data) EXCEPT !.reserveFactor = value]
    BY ONLY <1>3, <1>4, SMTT(30) DEF termsOf, getParams, getFlags
  <1> QED BY <1>1, <1>5 DEF d

-----------------------------------------------------------------------------
(* What the calls make of the terms. *)

\* initReserve: decimals, active, not frozen.
LEMMA OpenWritten ==
  ASSUME NEW data \in SUBSET (0..79), NEW decimals \in Nat, decimals <= 18,
         NEW d, d = setFrozen(setActive(setDecimals(data, decimals), TRUE), FALSE)
  PROVE  /\ termsOf(d) =
              [termsOf(data) EXCEPT !.decimals = decimals, !.active = TRUE, !.frozen = FALSE]
         /\ d \subseteq 0..79
  <1> DEFINE d1 == setDecimals(data, decimals)
             d2 == setActive(d1, TRUE)
  <1>1. termsOf(d1) = [termsOf(data) EXCEPT !.decimals = decimals] /\ d1 \in SUBSET (0..79)
    <2>1. decimals <= 255 OBVIOUS
    <2> QED BY <2>1, DecimalsWritten
  <1> HIDE DEF d1
  <1>2. termsOf(d2) = [termsOf(d1) EXCEPT !.active = TRUE] /\ d2 \in SUBSET (0..79)
    BY <1>1, ActiveWritten
  <1> HIDE DEF d2
  <1>3. termsOf(d) = [termsOf(d2) EXCEPT !.frozen = FALSE] /\ d \subseteq 0..79
    <2>1. d = setFrozen(d2, FALSE) BY DEF d2, d1
    <2> QED BY <1>2, <2>1, FrozenWritten
  <1> DEFINE t0 == termsOf(data)
  <1>4. termsOf(d) = [[[t0 EXCEPT !.decimals = decimals] EXCEPT !.active = TRUE] EXCEPT !.frozen = FALSE]
    BY ONLY <1>1, <1>2, <1>3
  <1>5. termsOf(d) = [t0 EXCEPT !.decimals = decimals, !.active = TRUE, !.frozen = FALSE]
    BY ONLY <1>4, SMTT(30)
  <1> QED BY <1>3, <1>5

\* enableBorrowingOnReserve: borrowing, and stable borrowing or not.
LEMMA LendWritten ==
  ASSUME NEW data \in SUBSET (0..79), NEW on \in BOOLEAN,
         NEW d, d = setStableRateBorrowingEnabled(setBorrowingEnabled(data, TRUE), on)
  PROVE  /\ termsOf(d) = [termsOf(data) EXCEPT !.borrowing = TRUE, !.stable = on]
         /\ d \subseteq 0..79
  <1> DEFINE d1 == setBorrowingEnabled(data, TRUE)
  <1>1. termsOf(d1) = [termsOf(data) EXCEPT !.borrowing = TRUE] /\ d1 \in SUBSET (0..79)
    BY BorrowingWritten
  <1> HIDE DEF d1
  <1>2. termsOf(d) = [termsOf(d1) EXCEPT !.stable = on] /\ d \subseteq 0..79
    <2>1. d = setStableRateBorrowingEnabled(d1, on) BY DEF d1
    <2> QED BY <1>1, <2>1, StableWritten
  <1> QED BY <1>1, <1>2

\* configureReserveAsCollateral: the three parameters.
ParamsSet(data, ltv, threshold, bonus) ==
  setLiquidationBonus(setLiquidationThreshold(setLtv(data, ltv), threshold), bonus)

ParamsWord(data, ltv, threshold, bonus) ==
  /\ termsOf(ParamsSet(data, ltv, threshold, bonus)) =
       WithParams(termsOf(data), ltv, threshold, bonus)
  /\ ParamsSet(data, ltv, threshold, bonus) \subseteq 0..79

\* The terms of a collateral are read back as they were written.
LEMMA ParamsWritten ==
  ASSUME NEW data \in SUBSET (0..79), NEW ltv \in Nat, NEW threshold \in Nat, NEW bonus \in Nat,
         ltv <= 65535, threshold <= 65535, bonus <= 65535
  PROVE  ParamsWord(data, ltv, threshold, bonus)
  <1> DEFINE d == ParamsSet(data, ltv, threshold, bonus)
  <1> DEFINE d1 == setLtv(data, ltv)
             d2 == setLiquidationThreshold(d1, threshold)
  <1>1. termsOf(d1) = WithLtv(termsOf(data), ltv) /\ d1 \in SUBSET (0..79)
    <2>1. termsOf(setLtv(data, ltv)) = WithLtv(termsOf(data), ltv)
      BY ONLY data \in SUBSET (0..79), ltv \in Nat, ltv <= 65535, LtvWritten
    <2>2. setLtv(data, ltv) \subseteq 0..79
      BY ONLY data \in SUBSET (0..79), ltv \in Nat, ltv <= 65535, LtvWritten
    <2> QED BY ONLY <2>1, <2>2
  <1> HIDE DEF d1
  <1>2. termsOf(d2) = WithThreshold(termsOf(d1), threshold) /\ d2 \in SUBSET (0..79)
    BY <1>1, ThresholdWritten
  <1> HIDE DEF d2
  <1>3. termsOf(d) = WithBonus(termsOf(d2), bonus) /\ d \subseteq 0..79
    <2>1. d = setLiquidationBonus(d2, bonus) BY DEF d2, d1, ParamsSet
    <2> HIDE DEF d
    <2> QED BY <1>2, <2>1, BonusWritten
  <1> HIDE DEF d
  <1>4. termsOf(d) = WithParams(termsOf(data), ltv, threshold, bonus)
    BY ONLY <1>1, <1>2, <1>3, SMTT(30)
    DEF termsOf, getParams, WithLtv, WithThreshold, WithBonus, WithParams
  <1> QED BY <1>3, <1>4 DEF d, ParamsWord

-----------------------------------------------------------------------------
(* The invariants of the list and of the switches. *)

\* The list holds exactly the initialized assets, each at its id.
Listed ==
  /\ Len(reservesList) <= MAX_NUMBER_RESERVES
  /\ \A a \in initialized : id[a] + 1 \in 1..Len(reservesList) /\ reservesList[id[a] + 1] = a
  /\ \A a \in Assets \ initialized : id[a] = 0
  /\ \A i \in 1..Len(reservesList) : reservesList[i] \in initialized

\* Where everything is lent suppliers earn, unless the last of it was lent for nothing.
LentEarns == \A a \in Assets \ unpaid : market[a] = "lent" => a \in earning

\* The terms of an asset are lent or collateral.
Fine(t) == ~(t.borrowing /\ t.collateral)

\* The inductive invariant.
CInv ==
  /\ TypeOK
  /\ Listed
  /\ \A a \in Assets : Fine(termsOf(configuration[a]))

\* A call gives one asset the terms t.
Becomes(a, t) ==
  /\ \E d \in SUBSET (0..79) : configuration' = [configuration EXCEPT ![a] = d] /\ termsOf(d) = t

\* The switches and parameters a call gives an asset, and what it asks for.
LEMMA CallsWrite ==
  ASSUME configuration \in [Assets -> SUBSET (0..79)], NEW a \in Assets, NEW data,
         data = configuration[a]
  PROVE  /\ \A dec \in Nat : initReserve(a, dec) =>
              Becomes(a, [termsOf(data) EXCEPT !.decimals = dec, !.active = TRUE, !.frozen = FALSE])
         /\ \A b \in BOOLEAN : enableBorrowingOnReserve(a, b) =>
              /\ ~termsOf(data).collateral
              /\ Becomes(a, [termsOf(data) EXCEPT !.borrowing = TRUE, !.stable = b])
         /\ \A b \in BOOLEAN : setReserveStableRate(a, b) =>
              Becomes(a, [termsOf(data) EXCEPT !.stable = b])
         /\ \A b \in BOOLEAN : setReserveFreeze(a, b) =>
              Becomes(a, [termsOf(data) EXCEPT !.frozen = b])
         /\ disableBorrowingOnReserve(a) =>
              Becomes(a, [termsOf(data) EXCEPT !.borrowing = FALSE])
         /\ enableCollateralOnReserve(a) =>
              /\ ~termsOf(data).borrowing
              /\ Becomes(a, [termsOf(data) EXCEPT !.collateral = TRUE])
         /\ disableCollateralOnReserve(a) =>
              Becomes(a, [termsOf(data) EXCEPT !.collateral = FALSE])
         /\ \A l \in Nat, th \in Nat, bo \in Nat : configureReserveAsCollateral(a, l, th, bo) =>
              Becomes(a, WithParams(termsOf(data), l, th, bo))
         /\ activateReserve(a) => Becomes(a, [termsOf(data) EXCEPT !.active = TRUE])
         /\ deactivateReserve(a) => Becomes(a, [termsOf(data) EXCEPT !.active = FALSE])
         /\ \A f \in Nat : changeReserveFactor(a, f) =>
              Becomes(a, [termsOf(data) EXCEPT !.reserveFactor = f])
  <1>0. data \in SUBSET (0..79)
    BY ONLY configuration \in [Assets -> SUBSET (0..79)], a \in Assets, data = configuration[a]
  <1>1. ASSUME NEW dec \in Nat, initReserve(a, dec)
        PROVE  Becomes(a, [termsOf(data) EXCEPT !.decimals = dec, !.active = TRUE, !.frozen = FALSE])
    <2> DEFINE d == setFrozen(setActive(setDecimals(data, dec), TRUE), FALSE)
    <2>1. configuration' = [configuration EXCEPT ![a] = d] BY <1>1 DEF initReserve
    <2>2. dec <= 18 BY <1>1 DEF initReserve
    <2> HIDE DEF d
    <2>3. d = setFrozen(setActive(setDecimals(data, dec), TRUE), FALSE) BY DEF d
    <2>4. /\ termsOf(d) = [termsOf(data) EXCEPT !.decimals = dec, !.active = TRUE, !.frozen = FALSE]
          /\ d \subseteq 0..79
      BY ONLY <1>0, <2>2, <2>3, dec \in Nat, OpenWritten
    <2> QED BY ONLY <2>1, <2>4 DEF Becomes
  <1>2. ASSUME NEW b \in BOOLEAN, enableBorrowingOnReserve(a, b)
        PROVE  /\ ~termsOf(data).collateral
               /\ Becomes(a, [termsOf(data) EXCEPT !.borrowing = TRUE, !.stable = b])
    <2> DEFINE d == setStableRateBorrowingEnabled(setBorrowingEnabled(data, TRUE), b)
    <2>1. configuration' = [configuration EXCEPT ![a] = d] /\ ~getFlags(data).collateral
      BY <1>2 DEF enableBorrowingOnReserve, setConfiguration
    <2> HIDE DEF d
    <2>2. d = setStableRateBorrowingEnabled(setBorrowingEnabled(data, TRUE), b) BY DEF d
    <2>3. termsOf(d) = [termsOf(data) EXCEPT !.borrowing = TRUE, !.stable = b] /\ d \subseteq 0..79
      BY ONLY <1>0, <2>2, b \in BOOLEAN, LendWritten
    <2>4. termsOf(data).collateral = getFlags(data).collateral BY ONLY DEF termsOf
    <2>5. Becomes(a, [termsOf(data) EXCEPT !.borrowing = TRUE, !.stable = b])
      BY ONLY <2>1, <2>3 DEF Becomes
    <2> QED BY ONLY <2>1, <2>4, <2>5
  <1>3. ASSUME NEW b \in BOOLEAN, setReserveStableRate(a, b)
        PROVE  Becomes(a, [termsOf(data) EXCEPT !.stable = b])
    <2> DEFINE d == setStableRateBorrowingEnabled(data, b)
    <2>1. configuration' = [configuration EXCEPT ![a] = d]
      BY <1>3 DEF setReserveStableRate, setConfiguration
    <2>2. termsOf(d) = [termsOf(data) EXCEPT !.stable = b] /\ d \subseteq 0..79
      BY ONLY <1>0, b \in BOOLEAN, StableWritten
    <2> HIDE DEF d
    <2> QED BY ONLY <2>1, <2>2 DEF Becomes
  <1>4. ASSUME NEW b \in BOOLEAN, setReserveFreeze(a, b)
        PROVE  Becomes(a, [termsOf(data) EXCEPT !.frozen = b])
    <2> DEFINE d == setFrozen(data, b)
    <2>1. configuration' = [configuration EXCEPT ![a] = d]
      BY <1>4 DEF setReserveFreeze, setConfiguration
    <2>2. termsOf(d) = [termsOf(data) EXCEPT !.frozen = b] /\ d \subseteq 0..79
      BY ONLY <1>0, b \in BOOLEAN, FrozenWritten
    <2> HIDE DEF d
    <2> QED BY ONLY <2>1, <2>2 DEF Becomes
  <1>5. ASSUME disableBorrowingOnReserve(a)
        PROVE  Becomes(a, [termsOf(data) EXCEPT !.borrowing = FALSE])
    <2> DEFINE d == setBorrowingEnabled(data, FALSE)
    <2>1. configuration' = [configuration EXCEPT ![a] = d]
      BY <1>5 DEF disableBorrowingOnReserve, setConfiguration
    <2>2. termsOf(d) = [termsOf(data) EXCEPT !.borrowing = FALSE] /\ d \subseteq 0..79
      BY ONLY <1>0, BorrowingWritten
    <2> HIDE DEF d
    <2> QED BY ONLY <2>1, <2>2 DEF Becomes
  <1>6. ASSUME enableCollateralOnReserve(a)
        PROVE  ~termsOf(data).borrowing /\ Becomes(a, [termsOf(data) EXCEPT !.collateral = TRUE])
    <2> DEFINE d == setCollateralEnabled(data, TRUE)
    <2>1. configuration' = [configuration EXCEPT ![a] = d] /\ ~getFlags(data).borrowing
      BY <1>6 DEF enableCollateralOnReserve, setConfiguration
    <2>2. termsOf(d) = [termsOf(data) EXCEPT !.collateral = TRUE] /\ d \subseteq 0..79
      BY ONLY <1>0, CollateralWritten
    <2> HIDE DEF d
    <2>3. termsOf(data).borrowing = getFlags(data).borrowing BY ONLY DEF termsOf
    <2>4. Becomes(a, [termsOf(data) EXCEPT !.collateral = TRUE]) BY ONLY <2>1, <2>2 DEF Becomes
    <2> QED BY ONLY <2>1, <2>3, <2>4
  <1>7. ASSUME disableCollateralOnReserve(a)
        PROVE  Becomes(a, [termsOf(data) EXCEPT !.collateral = FALSE])
    <2> DEFINE d == setCollateralEnabled(data, FALSE)
    <2>1. configuration' = [configuration EXCEPT ![a] = d]
      BY <1>7 DEF disableCollateralOnReserve, setConfiguration
    <2>2. termsOf(d) = [termsOf(data) EXCEPT !.collateral = FALSE] /\ d \subseteq 0..79
      BY ONLY <1>0, CollateralWritten
    <2> HIDE DEF d
    <2> QED BY ONLY <2>1, <2>2 DEF Becomes
  <1>8. ASSUME NEW l \in Nat, NEW th \in Nat, NEW bo \in Nat, configureReserveAsCollateral(a, l, th, bo)
        PROVE  Becomes(a, WithParams(termsOf(data), l, th, bo))
    <2> DEFINE d == ParamsSet(data, l, th, bo)
    <2>1. configuration' = [configuration EXCEPT ![a] = d]
      BY <1>8 DEF configureReserveAsCollateral, setConfiguration, ParamsSet
    <2>2. l <= 65535 /\ th <= 65535 /\ bo <= 65535
      BY <1>8 DEF configureReserveAsCollateral, MAX_VALID_VALUE
    <2>3. ParamsWord(data, l, th, bo)
      BY ONLY <1>0, <2>2, l \in Nat, th \in Nat, bo \in Nat, ParamsWritten
    <2> QED BY ONLY <2>1, <2>3 DEF Becomes, ParamsWord
  <1>9. ASSUME activateReserve(a)
        PROVE  Becomes(a, [termsOf(data) EXCEPT !.active = TRUE])
    <2> DEFINE d == setActive(data, TRUE)
    <2>1. configuration' = [configuration EXCEPT ![a] = d]
      BY <1>9 DEF activateReserve, setConfiguration
    <2>2. termsOf(d) = [termsOf(data) EXCEPT !.active = TRUE] /\ d \subseteq 0..79
      BY ONLY <1>0, ActiveWritten
    <2> HIDE DEF d
    <2> QED BY ONLY <2>1, <2>2 DEF Becomes
  <1>10. ASSUME deactivateReserve(a)
        PROVE  Becomes(a, [termsOf(data) EXCEPT !.active = FALSE])
    <2> DEFINE d == setActive(data, FALSE)
    <2>1. configuration' = [configuration EXCEPT ![a] = d]
      BY <1>10 DEF deactivateReserve, setConfiguration
    <2>2. termsOf(d) = [termsOf(data) EXCEPT !.active = FALSE] /\ d \subseteq 0..79
      BY ONLY <1>0, ActiveWritten
    <2> HIDE DEF d
    <2> QED BY ONLY <2>1, <2>2 DEF Becomes
  <1>11. ASSUME NEW f \in Nat, changeReserveFactor(a, f)
        PROVE  Becomes(a, [termsOf(data) EXCEPT !.reserveFactor = f])
    <2> DEFINE d == setReserveFactor(data, f)
    <2>0. f <= 65535 BY <1>11 DEF changeReserveFactor, MAX_VALID_VALUE
    <2>1. configuration' = [configuration EXCEPT ![a] = d]
      BY <1>11 DEF changeReserveFactor, setConfiguration
    <2>2. termsOf(d) = [termsOf(data) EXCEPT !.reserveFactor = f] /\ d \subseteq 0..79
      BY ONLY <1>0, <2>0, f \in Nat, FactorWritten
    <2> HIDE DEF d
    <2> QED BY ONLY <2>1, <2>2 DEF Becomes
  <1> QED BY ONLY <1>1, <1>2, <1>3, <1>4, <1>5, <1>6, <1>7, <1>8, <1>9, <1>10, <1>11

\* The terms after a call.
LEMMA BecomesTerms ==
  ASSUME configuration \in [Assets -> SUBSET (0..79)], NEW a \in Assets, NEW t, Becomes(a, t)
  PROVE  /\ configuration' \in [Assets -> SUBSET (0..79)]
         /\ termsOf(configuration'[a]) = t
         /\ \A x \in Assets : x # a => configuration'[x] = configuration[x]
  <1>1. PICK d \in SUBSET (0..79) : configuration' = [configuration EXCEPT ![a] = d] /\ termsOf(d) = t
    BY DEF Becomes
  <1> QED BY <1>1

\* A call of the administration that writes the word.
Call(a) ==
  \/ \E d \in Decimals : initReserve(a, d)
  \/ \E b \in BOOLEAN :
       enableBorrowingOnReserve(a, b) \/ setReserveStableRate(a, b) \/ setReserveFreeze(a, b)
  \/ disableBorrowingOnReserve(a)
  \/ enableCollateralOnReserve(a) \/ disableCollateralOnReserve(a)
  \/ \E ltv \in Ltvs, threshold \in Thresholds, bonus \in Bonuses :
       configureReserveAsCollateral(a, ltv, threshold, bonus)
  \/ activateReserve(a) \/ deactivateReserve(a)
  \/ \E f \in Factors : changeReserveFactor(a, f)

\* Terms t may follow the terms s of an asset: still fine, and active if s was
\* unless nothing was deposited.
Follows(a, s, t) == Fine(t) /\ (s.active /\ ~checkNoLiquidity(a) => t.active)

\* A call leaves fine terms fine, and only takes the activity of an empty reserve.
LEMMA CallStep ==
  ASSUME configuration \in [Assets -> SUBSET (0..79)], NEW a \in Assets,
         Fine(termsOf(configuration[a])), Call(a)
  PROVE  \E t : Becomes(a, t) /\ Follows(a, termsOf(configuration[a]), t)
  <1> DEFINE data == configuration[a]
             s == termsOf(data)
  <1> HIDE DEF data
  <1>0. data = configuration[a] BY DEF data
  <1>1. Fine(s) BY <1>0
  <1>2. SUFFICES \E t : Becomes(a, t) /\ Follows(a, s, t) BY <1>0
  <1>3. ASSUME NEW d \in Decimals, initReserve(a, d) PROVE \E t : Becomes(a, t) /\ Follows(a, s, t)
    <2> DEFINE t == [s EXCEPT !.decimals = d, !.active = TRUE, !.frozen = FALSE]
    <2>1. d \in Nat BY ConfiguratorAssumption
    <2>2. Becomes(a, t) BY <1>0, <1>3, <2>1, CallsWrite
    <2>3. Follows(a, s, t) BY ONLY <1>1 DEF Follows, Fine, termsOf
    <2> HIDE DEF t, s
    <2> QED BY ONLY <2>2, <2>3
  <1>4. ASSUME NEW b \in BOOLEAN, enableBorrowingOnReserve(a, b)
        PROVE  \E t : Becomes(a, t) /\ Follows(a, s, t)
    <2> DEFINE t == [s EXCEPT !.borrowing = TRUE, !.stable = b]
    <2>2. ~s.collateral /\ Becomes(a, t) BY <1>0, <1>4, CallsWrite
    <2>3. Follows(a, s, t) BY ONLY <1>1, <2>2 DEF Follows, Fine, termsOf
    <2> HIDE DEF t, s
    <2> QED BY ONLY <2>2, <2>3
  <1>5. ASSUME NEW b \in BOOLEAN, setReserveStableRate(a, b) PROVE \E t : Becomes(a, t) /\ Follows(a, s, t)
    <2> DEFINE t == [s EXCEPT !.stable = b]
    <2>2. Becomes(a, t) BY <1>0, <1>5, CallsWrite
    <2>3. Follows(a, s, t) BY ONLY <1>1 DEF Follows, Fine, termsOf
    <2> HIDE DEF t, s
    <2> QED BY ONLY <2>2, <2>3
  <1>6. ASSUME NEW b \in BOOLEAN, setReserveFreeze(a, b) PROVE \E t : Becomes(a, t) /\ Follows(a, s, t)
    <2> DEFINE t == [s EXCEPT !.frozen = b]
    <2>2. Becomes(a, t) BY <1>0, <1>6, CallsWrite
    <2>3. Follows(a, s, t) BY ONLY <1>1 DEF Follows, Fine, termsOf
    <2> HIDE DEF t, s
    <2> QED BY ONLY <2>2, <2>3
  <1>7. ASSUME disableBorrowingOnReserve(a) PROVE \E t : Becomes(a, t) /\ Follows(a, s, t)
    <2> DEFINE t == [s EXCEPT !.borrowing = FALSE]
    <2>2. Becomes(a, t) BY <1>0, <1>7, CallsWrite
    <2>3. Follows(a, s, t) BY ONLY <1>1 DEF Follows, Fine, termsOf
    <2> HIDE DEF t, s
    <2> QED BY ONLY <2>2, <2>3
  <1>8. ASSUME enableCollateralOnReserve(a) PROVE \E t : Becomes(a, t) /\ Follows(a, s, t)
    <2> DEFINE t == [s EXCEPT !.collateral = TRUE]
    <2>2. ~s.borrowing /\ Becomes(a, t) BY <1>0, <1>8, CallsWrite
    <2>3. Follows(a, s, t) BY ONLY <1>1, <2>2 DEF Follows, Fine, termsOf
    <2> HIDE DEF t, s
    <2> QED BY ONLY <2>2, <2>3
  <1>9. ASSUME disableCollateralOnReserve(a) PROVE \E t : Becomes(a, t) /\ Follows(a, s, t)
    <2> DEFINE t == [s EXCEPT !.collateral = FALSE]
    <2>2. Becomes(a, t) BY <1>0, <1>9, CallsWrite
    <2>3. Follows(a, s, t) BY ONLY <1>1 DEF Follows, Fine, termsOf
    <2> HIDE DEF t, s
    <2> QED BY ONLY <2>2, <2>3
  <1>10. ASSUME NEW l \in Ltvs, NEW th \in Thresholds, NEW bo \in Bonuses,
                configureReserveAsCollateral(a, l, th, bo)
         PROVE  \E t : Becomes(a, t) /\ Follows(a, s, t)
    <2> DEFINE t == WithParams(s, l, th, bo)
    <2>1. l \in Nat /\ th \in Nat /\ bo \in Nat BY ConfiguratorAssumption
    <2>2. Becomes(a, t) BY <1>0, <1>10, <2>1, CallsWrite
    <2>3. Follows(a, s, t) BY ONLY <1>1 DEF Follows, Fine, termsOf, WithParams
    <2> HIDE DEF t, s
    <2> QED BY ONLY <2>2, <2>3
  <1>11. ASSUME activateReserve(a) PROVE \E t : Becomes(a, t) /\ Follows(a, s, t)
    <2> DEFINE t == [s EXCEPT !.active = TRUE]
    <2>2. Becomes(a, t) BY <1>0, <1>11, CallsWrite
    <2>3. Follows(a, s, t) BY ONLY <1>1 DEF Follows, Fine, termsOf
    <2> HIDE DEF t, s
    <2> QED BY ONLY <2>2, <2>3
  <1>12. ASSUME deactivateReserve(a) PROVE \E t : Becomes(a, t) /\ Follows(a, s, t)
    <2> DEFINE t == [s EXCEPT !.active = FALSE]
    <2>2. Becomes(a, t) BY <1>0, <1>12, CallsWrite
    <2>1. checkNoLiquidity(a) BY <1>12 DEF deactivateReserve
    <2>3. Follows(a, s, t) BY ONLY <1>1, <2>1 DEF Follows, Fine, termsOf
    <2> HIDE DEF t, s
    <2> QED BY ONLY <2>2, <2>3
  <1>13. ASSUME NEW f \in Factors, changeReserveFactor(a, f) PROVE \E t : Becomes(a, t) /\ Follows(a, s, t)
    <2> DEFINE t == [s EXCEPT !.reserveFactor = f]
    <2>1. f \in Nat BY ConfiguratorAssumption
    <2>2. Becomes(a, t) BY <1>0, <1>13, <2>1, CallsWrite
    <2>3. Follows(a, s, t) BY ONLY <1>1 DEF Follows, Fine, termsOf
    <2> HIDE DEF t, s
    <2> QED BY ONLY <2>2, <2>3
  <1> HIDE DEF s
  <1> QED BY ONLY Call(a), <1>3, <1>4, <1>5, <1>6, <1>7, <1>8, <1>9, <1>10, <1>11, <1>12,
             <1>13 DEF Call

\* What calls other than initReserve leave alone.
LEMMA CallKeeps ==
  ASSUME NEW a \in Assets, Call(a)
  PROVE  /\ UNCHANGED <<market, earning>>
         /\ rated \subseteq Assets => rated' \subseteq Assets
         /\ \/ \E d \in Decimals : initReserve(a, d)
            \/ UNCHANGED <<reservesList, id, initialized>>
  <1>1. ASSUME NEW d \in Decimals, initReserve(a, d)
        PROVE  UNCHANGED <<market, earning>> /\ (rated \subseteq Assets => rated' \subseteq Assets)
    BY <1>1 DEF initReserve, setStrategy
  <1>2. ASSUME ~\E d \in Decimals : initReserve(a, d)
        PROVE  UNCHANGED <<market, rated, earning, reservesList, id, initialized>>
    BY <1>2 DEF Call, enableBorrowingOnReserve, setReserveStableRate, setReserveFreeze,
       disableBorrowingOnReserve, enableCollateralOnReserve, disableCollateralOnReserve,
       configureReserveAsCollateral, activateReserve, deactivateReserve, changeReserveFactor,
       setConfiguration
  <1> QED BY <1>1, <1>2

\* A new reserve goes to the end of the list, and its id is its place.
LEMMA ListGrows ==
  ASSUME TypeOK, Listed, NEW a \in Assets, NEW d \in Decimals, initReserve(a, d)
  PROVE  /\ reservesList' \in Seq(Assets) /\ id' \in [Assets -> 0..255] /\ initialized' \subseteq Assets
         /\ Listed'
  <1> DEFINE n == Len(reservesList)
  <1>1. /\ reservesList \in Seq(Assets) /\ id \in [Assets -> 0..255] /\ initialized \subseteq Assets
        /\ n \in Nat
    BY DEF TypeOK
  <1>2. /\ a \notin initialized /\ n < MAX_NUMBER_RESERVES
        /\ initialized' = initialized \cup {a} /\ addReserveToList(a)
    BY DEF initReserve
  <1>3. MAX_NUMBER_RESERVES \in Nat /\ MAX_NUMBER_RESERVES <= 256 BY ConfiguratorAssumption
  <1>4. n \in 0..255 /\ n % 2^8 = n
    <2> HIDE DEF n
    <2>1. n \in 0..255 BY ONLY <1>1, <1>2, <1>3
    <2>2. n % 256 = n BY ONLY <2>1
    <2>3. 2^8 = 256 BY ONLY TRUE
    <2> QED BY ONLY <2>1, <2>2, <2>3
  <1>5. ~(id[a] # 0 \/ (reservesList # <<>> /\ reservesList[1] = a))
    <2>1. id[a] = 0 BY <1>2 DEF Listed
    <2>2. reservesList # <<>> => reservesList[1] \in initialized
      <3>1. reservesList # <<>> => 1 \in 1..n BY <1>1
      <3> QED BY <3>1 DEF Listed
    <2> QED BY <1>2, <2>1, <2>2
  <1>6. id' = [id EXCEPT ![a] = n] /\ reservesList' = Append(reservesList, a)
    BY <1>2, <1>4, <1>5 DEF addReserveToList
  <1>7. /\ Len(reservesList') = n + 1 /\ reservesList' \in Seq(Assets)
        /\ \A i \in 1..n : reservesList'[i] = reservesList[i]
        /\ reservesList'[n + 1] = a
    BY <1>1, <1>6
  <1>8. /\ id' \in [Assets -> 0..255] /\ id'[a] = n
        /\ \A x \in Assets : x # a => id'[x] = id[x]
    BY <1>1, <1>4, <1>6
  <1>9. n <= MAX_NUMBER_RESERVES /\ \A x \in initialized : id[x] + 1 \in 1..n /\ reservesList[id[x] + 1] = x
    BY DEF Listed
  <1>10. Len(reservesList') <= MAX_NUMBER_RESERVES BY <1>1, <1>2, <1>3, <1>7
  <1>11. ASSUME NEW x \in initialized'
         PROVE  id'[x] + 1 \in 1..Len(reservesList') /\ reservesList'[id'[x] + 1] = x
    <2>1. CASE x = a
      <3>1. id'[x] + 1 = n + 1 BY <1>8, <2>1
      <3>2. n + 1 \in 1..(n + 1) BY <1>1
      <3> HIDE DEF n
      <3>3. reservesList'[id'[x] + 1] = x BY ONLY <1>7, <2>1, <3>1, Zenon
      <3>4. id'[x] + 1 \in 1..Len(reservesList') BY ONLY <1>7, <3>1, <3>2, Zenon
      <3> QED BY ONLY <3>3, <3>4
    <2>2. CASE x \in initialized /\ x # a
      <3>1. id'[x] = id[x] BY <1>1, <1>8, <2>2
      <3>2. id[x] + 1 \in 1..n /\ reservesList[id[x] + 1] = x BY <1>9, <2>2
      <3>3. reservesList'[id[x] + 1] = x BY <1>7, <3>2
      <3>4. id[x] + 1 \in 1..(n + 1) BY <1>1, <3>2
      <3> QED BY <1>7, <3>1, <3>3, <3>4
    <2> QED BY <1>2, <2>1, <2>2
  <1>12. ASSUME NEW x \in Assets \ initialized' PROVE id'[x] = 0
    <2>1. x # a /\ x \in Assets \ initialized BY <1>2
    <2> QED BY <1>8, <2>1 DEF Listed
  <1>13. ASSUME NEW i \in 1..Len(reservesList') PROVE reservesList'[i] \in initialized'
    <2> HIDE DEF n
    <2>0. i \in 1..(n + 1) BY ONLY <1>7, i \in 1..Len(reservesList')
    <2>1. i \in 1..n \/ i = n + 1 BY ONLY <1>1, <2>0
    <2>2. CASE i \in 1..n
      <3>1. reservesList[i] \in initialized BY <2>2 DEF Listed, n
      <3> QED BY ONLY <1>2, <1>7, <2>2, <3>1
    <2>3. CASE i = n + 1
      <3>1. reservesList'[i] = a BY ONLY <1>7, <2>3, Zenon
      <3> QED BY ONLY <1>2, <3>1
    <2> QED BY <2>1, <2>2, <2>3
  <1> HIDE DEF n
  <1>14. initialized' \subseteq Assets BY <1>1, <1>2
  <1> QED BY ONLY <1>7, <1>8, <1>10, <1>11, <1>12, <1>13, <1>14 DEF Listed

\* At first there are no terms.
LEMMA NoTermsAtFirst ==
  /\ termsOf({}) = [params |-> [ltv |-> 0, liquidationThreshold |-> 0, liquidationBonus |-> 0],
                    decimals |-> 0, reserveFactor |-> 0, active |-> FALSE, frozen |-> FALSE,
                    borrowing |-> FALSE, stable |-> FALSE, collateral |-> FALSE]
  /\ Fine(termsOf({}))
  <1>1. \A m, s : getBits({}, m, s) = 0
    <2> SUFFICES ASSUME NEW m, NEW s PROVE getBits({}, m, s) = 0 OBVIOUS
    <2>1. {} \cap m = {} OBVIOUS
    <2>2. getBits({}, m, s) = SumFunctionOnSet([i \in {} |-> 2^(i - s)], {})
      BY <2>1 DEF getBits, Number
    <2> DEFINE w == [i \in {} |-> 2^(i - s)]
    <2> HIDE DEF w
    <2>3. IsFiniteSet({}) BY FS_EmptySet
    <2>4. SumFunctionOnSet(w, {}) = 0 BY <2>3, SumUnfolds
    <2> QED BY <2>2, <2>4 DEF w
  <1>2. \A m : getFlag({}, m) = FALSE BY DEF getFlag
  <1>3. /\ getBits({}, LTV_MASK, 0) = 0
        /\ getBits({}, LIQUIDATION_THRESHOLD_MASK, 16) = 0
        /\ getBits({}, LIQUIDATION_BONUS_MASK, 32) = 0
        /\ getBits({}, DECIMALS_MASK, 48) = 0
        /\ getFlag({}, ACTIVE_MASK) = FALSE
        /\ getFlag({}, FROZEN_MASK) = FALSE
        /\ getFlag({}, BORROWING_MASK) = FALSE
        /\ getFlag({}, STABLE_BORROWING_MASK) = FALSE
        /\ getFlag({}, COLLATERAL_MASK) = FALSE
        /\ getBits({}, RESERVE_FACTOR_MASK, 64) = 0
    BY ONLY <1>1, <1>2
  <1>4. termsOf({}) = [params |-> [ltv |-> 0, liquidationThreshold |-> 0, liquidationBonus |-> 0],
                    decimals |-> 0, reserveFactor |-> 0, active |-> FALSE, frozen |-> FALSE,
                    borrowing |-> FALSE, stable |-> FALSE, collateral |-> FALSE]
    BY ONLY <1>3, Zenon DEF termsOf, getParams, getFlags
  <1>5. Fine(termsOf({})) BY ONLY <1>4 DEF Fine
  <1> QED BY ONLY <1>4, <1>5

\* A step that leaves the words alone: the market's, the yield's or a new strategy.
Business(a) ==
  \/ \E m \in Markets : MarketChanges(a, m)
  \/ depositYield(a)
  \/ \E hasRate \in BOOLEAN : setReserveInterestRateStrategyAddress(a, hasRate)

\* What such a step does: it concerns one asset, which is active when the first
\* deposit arrives, and whose suppliers earn once all is lent on terms that pay.
Confined(a) ==
  /\ UNCHANGED <<configuration, reservesList, id, initialized>>
  /\ market' \in [Assets -> Markets] /\ rated' \subseteq Assets /\ earning' \subseteq Assets
  /\ \A x \in Assets \ {a} : market'[x] = market[x] /\ (x \in earning' <=> x \in earning)
  /\ market[a] = "empty" /\ market'[a] # "empty" => getFlags(configuration[a]).active
  /\ market[a] = "lent" /\ market'[a] = "lent" => earning' = earning
  /\ market[a] # "lent" /\ market'[a] = "lent" /\ pays(a) => a \in earning'

\* And it does no more.
LEMMA BusinessStep ==
  ASSUME TypeOK, NEW a \in Assets, Business(a)
  PROVE  Confined(a)
  <1>1. /\ market \in [Assets -> Markets] /\ rated \subseteq Assets /\ earning \subseteq Assets
    BY DEF TypeOK
  <1>2. ASSUME NEW m, updateInterestRates(a, m)
        PROVE  /\ earning' \subseteq Assets
               /\ \A x \in Assets \ {a} : x \in earning' <=> x \in earning
               /\ m = "lent" /\ pays(a) => a \in earning'
    BY <1>1, <1>2 DEF updateInterestRates
  <1>3. ASSUME NEW m \in Markets, MarketChanges(a, m) PROVE Confined(a)
    <2>1. /\ UNCHANGED <<configuration, reservesList, id, initialized, rated>>
          /\ market' = [market EXCEPT ![a] = m]
          /\ getFlags(configuration[a]).active
          /\ market[a] = "lent" => m # "lent"
          /\ IF a \in rated THEN updateInterestRates(a, m) ELSE UNCHANGED earning
      BY <1>3 DEF MarketChanges
    <2>2. /\ earning' \subseteq Assets
          /\ \A x \in Assets \ {a} : x \in earning' <=> x \in earning
          /\ m = "lent" /\ pays(a) => a \in earning'
      <3>1. CASE a \in rated BY ONLY <1>2, <2>1, <3>1
      <3>2. CASE a \notin rated BY ONLY <1>1, <2>1, <3>2 DEF pays
      <3> QED BY ONLY <3>1, <3>2
    <2> QED BY ONLY <1>1, <1>3, <2>1, <2>2, a \in Assets DEF Confined
  <1>4. ASSUME depositYield(a) PROVE Confined(a)
    <2> DEFINE m == IF market[a] = "lent" THEN "partly" ELSE market[a]
    <2>1. /\ UNCHANGED <<configuration, reservesList, id, initialized, rated>>
          /\ market' = [market EXCEPT ![a] = m]
          /\ market[a] # "empty"
          /\ updateInterestRates(a, m)
      BY <1>4 DEF depositYield
    <2>2. m \in Markets /\ m # "lent" BY <1>1 DEF Markets
    <2> HIDE DEF m
    <2> QED BY ONLY <1>1, <1>2, <2>1, <2>2, a \in Assets DEF Confined
  <1>5. ASSUME NEW hasRate \in BOOLEAN, setReserveInterestRateStrategyAddress(a, hasRate)
        PROVE  Confined(a)
    BY <1>1, <1>5 DEF setReserveInterestRateStrategyAddress, setStrategy, Confined
  <1> QED BY ONLY Business(a), <1>3, <1>4, <1>5 DEF Business

\* Every step is a call of the administration or a piece of business.
LEMMA Steps ==
  ASSUME Next
  PROVE  Remembered /\ \E a \in Assets : Call(a) \/ Business(a)
  BY DEF Next, Call, Business

\* The invariant holds at first.
LEMMA CInvAtFirst ==
  ASSUME Init
  PROVE  CInv
  <1>1. \A a \in Assets : Fine(termsOf(configuration[a]))
    <2>1. \A a \in Assets : configuration[a] = {} BY DEF Init
    <2> QED BY ONLY <2>1, NoTermsAtFirst
  <1>2. TypeOK BY DEF Init, TypeOK, Markets
  <1>3. Listed BY ConfiguratorAssumption DEF Init, Listed
  <1> QED BY ONLY <1>1, <1>2, <1>3 DEF CInv

\* No call breaks it.
LEMMA CallKeepsCInv ==
  ASSUME CInv, NEW a \in Assets, Call(a), Remembered
  PROVE  CInv'
  <1>1. TypeOK /\ Listed /\ \A x \in Assets : Fine(termsOf(configuration[x])) BY ONLY CInv DEF CInv
  <1>2. configuration \in [Assets -> SUBSET (0..79)] BY ONLY <1>1 DEF TypeOK
  <1>3. PICK t : Becomes(a, t) /\ Follows(a, termsOf(configuration[a]), t)
    BY ONLY <1>1, <1>2, a \in Assets, Call(a), CallStep
  <1>4. /\ configuration' \in [Assets -> SUBSET (0..79)]
        /\ termsOf(configuration'[a]) = t
        /\ \A x \in Assets : x # a => configuration'[x] = configuration[x]
    BY ONLY <1>2, <1>3, a \in Assets, BecomesTerms
  <1>5. \A x \in Assets : Fine(termsOf(configuration'[x]))
    <2>1. Fine(t) BY ONLY <1>3 DEF Follows
    <2> QED BY ONLY <1>1, <1>4, <2>1
  <1>6. /\ UNCHANGED <<market, earning>>
        /\ rated \subseteq Assets => rated' \subseteq Assets
    BY ONLY a \in Assets, Call(a), CallKeeps
  <1>7. /\ reservesList' \in Seq(Assets) /\ id' \in [Assets -> 0..255] /\ initialized' \subseteq Assets
        /\ Listed'
    <2>1. CASE \E d \in Decimals : initReserve(a, d) BY ONLY <1>1, <2>1, a \in Assets, ListGrows
    <2>2. CASE UNCHANGED <<reservesList, id, initialized>>
      BY ONLY <1>1, <2>2 DEF TypeOK, Listed
    <2> QED BY ONLY a \in Assets, Call(a), <2>1, <2>2, CallKeeps
  <1>8. TypeOK' BY ONLY <1>1, <1>4, <1>6, <1>7, Remembered DEF TypeOK, Remembered
  <1> QED BY ONLY <1>5, <1>7, <1>8 DEF CInv

\* Nor does business.
LEMMA BusinessKeepsCInv ==
  ASSUME CInv, NEW a \in Assets, Business(a), Remembered
  PROVE  CInv'
  <1>1. TypeOK BY DEF CInv
  <1>2. /\ UNCHANGED <<configuration, reservesList, id, initialized>>
        /\ market' \in [Assets -> Markets] /\ rated' \subseteq Assets /\ earning' \subseteq Assets
    BY ONLY <1>1, a \in Assets, Business(a), BusinessStep DEF Confined
  <1>3. TypeOK' BY ONLY <1>1, <1>2, Remembered DEF TypeOK, Remembered
  <1>4. Listed' BY ONLY CInv, <1>2 DEF CInv, Listed
  <1> QED BY ONLY CInv, <1>2, <1>3, <1>4 DEF CInv

\* The invariant is inductive.
LEMMA CInvKept ==
  ASSUME CInv, [Next]_vars
  PROVE  CInv'
  <1>1. CASE Next BY ONLY <1>1, CInv, Steps, CallKeepsCInv, BusinessKeepsCInv
  <1>2. CASE UNCHANGED vars
    BY ONLY <1>2, CInv DEF vars, CInv, TypeOK, Listed
  <1> QED BY <1>1, <1>2

\* The words have eighty bits and the list holds assets, whatever is called.
THEOREM ConfigurationTypes == Spec => []TypeOK
  <1>1. CInv => TypeOK BY DEF CInv
  <1> QED BY <1>1, CInvAtFirst, CInvKept, PTL DEF Spec

\* For any number of assets and every order of the calls, no asset is both lent and
\* collateral: each of the two switches is refused while the other is on, and no
\* setter touches the bit of another.
THEOREM NeverBoth == Spec => []LentOrCollateral
  <1>1. CInv => LentOrCollateral
    <2> SUFFICES ASSUME CInv, NEW a \in Assets
                 PROVE  ~(getFlags(configuration[a]).borrowing /\ getFlags(configuration[a]).collateral)
      BY DEF LentOrCollateral
    <2>1. Fine(termsOf(configuration[a])) BY ONLY CInv, a \in Assets DEF CInv
    <2>2. /\ termsOf(configuration[a]).borrowing = getFlags(configuration[a]).borrowing
          /\ termsOf(configuration[a]).collateral = getFlags(configuration[a]).collateral
      BY ONLY DEF termsOf
    <2> QED BY ONLY <2>1, <2>2 DEF Fine
  <1> QED BY <1>1, CInvAtFirst, CInvKept, PTL DEF Spec

\* Up to 256 reserves, the id of each one leads back to it: _addReserveToList takes
\* zero for "not in the list", and the first reserve, whose id it is, is never added
\* twice.
THEOREM IdsAreRight == Spec => []IdsLeadBack
  <1>1. CInv => IdsLeadBack BY DEF CInv, Listed, IdsLeadBack
  <1> QED BY <1>1, CInvAtFirst, CInvKept, PTL DEF Spec

-----------------------------------------------------------------------------
(* Where the check of the deposits can be deceived. *)

\* What the activity of a reserve rests on: _checkNoLiquidity sees what is there or
\* what is earned, and where all was lent on terms that pay something is earned.
DInv == CInv /\ LentEarns /\ OnlyUnpaidLockedOut

\* A call keeps deposits active: it asks for more than an empty balance.
LEMMA CallKeepsDInv ==
  ASSUME DInv, NEW a \in Assets, Call(a), Remembered
  PROVE  LentEarns' /\ OnlyUnpaidLockedOut'
  <1>1. CInv /\ LentEarns /\ OnlyUnpaidLockedOut BY ONLY DInv DEF DInv
  <1>2. /\ configuration \in [Assets -> SUBSET (0..79)]
        /\ market \in [Assets -> Markets]
    BY ONLY <1>1 DEF CInv, TypeOK
  <1>3. Fine(termsOf(configuration[a])) BY ONLY <1>1, a \in Assets DEF CInv
  <1>4. PICK t : Becomes(a, t) /\ Follows(a, termsOf(configuration[a]), t)
    BY ONLY <1>2, <1>3, a \in Assets, Call(a), CallStep
  <1>5. /\ termsOf(configuration'[a]) = t
        /\ \A x \in Assets : x # a => configuration'[x] = configuration[x]
    BY ONLY <1>2, <1>4, a \in Assets, BecomesTerms
  <1>6. UNCHANGED <<market, earning>> BY ONLY a \in Assets, Call(a), CallKeeps
  <1>7. unpaid' = unpaid BY ONLY <1>6, Remembered DEF Remembered
  <1>8. LentEarns' BY ONLY <1>1, <1>6, <1>7 DEF LentEarns
  <1>9. \A d : termsOf(d).active = getFlags(d).active BY ONLY DEF termsOf
  <1>10. ASSUME NEW x \in Assets \ unpaid, market[x] # "empty" PROVE getFlags(configuration'[x]).active
    <2>1. getFlags(configuration[x]).active BY ONLY <1>1, <1>10 DEF OnlyUnpaidLockedOut
    <2>2. CASE x # a BY ONLY <1>5, <2>1, <2>2, x \in Assets
    <2>3. CASE x = a
      <3>1. ~checkNoLiquidity(a)
        <4>1. market[a] \in {"available", "partly", "lent"} BY ONLY <1>2, <1>10, <2>3 DEF Markets
        <4>2. market[a] = "lent" => a \in earning BY ONLY <1>1, <1>10, <2>3 DEF LentEarns
        <4> QED BY ONLY <4>1, <4>2 DEF checkNoLiquidity
      <3>2. termsOf(configuration[a]).active BY ONLY <1>9, <2>1, <2>3
      <3>3. t.active BY ONLY <1>4, <3>1, <3>2 DEF Follows
      <3> QED BY ONLY <1>5, <1>9, <2>3, <3>3
    <2> QED BY ONLY <2>2, <2>3
  <1>11. OnlyUnpaidLockedOut' BY ONLY <1>6, <1>7, <1>10 DEF OnlyUnpaidLockedOut
  <1> QED BY ONLY <1>8, <1>11

\* So does business: what is deposited first finds the reserve active, and what is
\* lent last either is remembered or leaves suppliers earning.
LEMMA BusinessKeepsDInv ==
  ASSUME DInv, NEW a \in Assets, Business(a), Remembered
  PROVE  LentEarns' /\ OnlyUnpaidLockedOut'
  <1>1. CInv /\ LentEarns /\ OnlyUnpaidLockedOut /\ TypeOK BY ONLY DInv DEF DInv, CInv
  <1>2. Confined(a) BY ONLY <1>1, a \in Assets, Business(a), BusinessStep
  <1>3. ASSUME NEW x \in Assets \ unpaid', market'[x] = "lent" PROVE x \in earning'
    <2>0. x \in Assets \ unpaid /\ (market[x] = "lent" \/ pays(x))
      BY ONLY <1>3, Remembered DEF Remembered
    <2>1. CASE market[x] = "lent"
      <3>1. x \in earning BY ONLY <1>1, <2>0, <2>1 DEF LentEarns
      <3> QED BY ONLY <1>2, <1>3, <2>1, <3>1 DEF Confined
    <2>2. CASE market[x] # "lent"
      <3>1. x = a BY ONLY <1>2, <1>3, <2>2 DEF Confined
      <3> QED BY ONLY <1>2, <1>3, <2>0, <2>2, <3>1 DEF Confined
    <2> QED BY ONLY <2>1, <2>2
  <1>4. ASSUME NEW x \in Assets \ unpaid', market'[x] # "empty" PROVE getFlags(configuration'[x]).active
    <2>0. x \in Assets \ unpaid BY ONLY <1>4, Remembered DEF Remembered
    <2>1. configuration' = configuration BY ONLY <1>2 DEF Confined
    <2>2. CASE market[x] # "empty" BY ONLY <1>1, <2>0, <2>1, <2>2 DEF OnlyUnpaidLockedOut
    <2>3. CASE market[x] = "empty" BY ONLY <1>2, <1>4, <2>1, <2>3 DEF Confined
    <2> QED BY ONLY <2>2, <2>3
  <1> QED BY ONLY <1>3, <1>4 DEF LentEarns, OnlyUnpaidLockedOut

\* Whatever strategies and factors are set, and in whatever order: nobody is locked
\* out of a reserve with deposits unless the last of its liquidity was lent under a
\* strategy without a rate or for the treasury alone.  _checkNoLiquidity sees the
\* liquidity there is or, when all of it is lent, the rate that was stored.
THEOREM NobodyIsLockedOut == Spec => []OnlyUnpaidLockedOut
  <1>1. Init => DInv
    <2> SUFFICES ASSUME Init PROVE DInv OBVIOUS
    <2>1. CInv BY ONLY Init, CInvAtFirst
    <2>2. LentEarns /\ OnlyUnpaidLockedOut BY DEF Init, LentEarns, OnlyUnpaidLockedOut
    <2> QED BY ONLY <2>1, <2>2 DEF DInv
  <1>2. DInv /\ [Next]_vars => DInv'
    <2> SUFFICES ASSUME DInv, [Next]_vars PROVE DInv' OBVIOUS
    <2>1. CInv' BY ONLY DInv, [Next]_vars, CInvKept DEF DInv
    <2>2. LentEarns' /\ OnlyUnpaidLockedOut'
      <3>1. CASE Next BY ONLY <3>1, DInv, Steps, CallKeepsDInv, BusinessKeepsDInv
      <3>2. CASE UNCHANGED vars
        BY ONLY <3>2, DInv DEF vars, DInv, LentEarns, OnlyUnpaidLockedOut
      <3> QED BY <3>1, <3>2
    <2> QED BY ONLY <2>1, <2>2 DEF DInv
  <1>3. DInv => OnlyUnpaidLockedOut BY DEF DInv
  <1> QED BY <1>1, <1>2, <1>3, PTL DEF Spec

-----------------------------------------------------------------------------
(* The words implement the terms. *)

\* The change of one asset's word is the change of its terms.
LEMMA ChangeMapped ==
  ASSUME configuration \in [Assets -> SUBSET (0..79)], NEW a \in Assets, NEW t, Becomes(a, t)
  PROVE  Abstract!Change(a, t)
  <1>1. /\ configuration' \in [Assets -> SUBSET (0..79)]
        /\ termsOf(configuration'[a]) = t
        /\ \A x \in Assets : x # a => configuration'[x] = configuration[x]
    BY ONLY configuration \in [Assets -> SUBSET (0..79)], a \in Assets, Becomes(a, t), BecomesTerms
  <1>2. [x \in Assets |-> termsOf(configuration'[x])] =
          [[x \in Assets |-> termsOf(configuration[x])] EXCEPT ![a] = t]
    BY ONLY <1>1, a \in Assets
  <1> QED BY ONLY <1>2 DEF Abstract!Change, TermsHeld

\* The parameters the checks let pass are sound.
LEMMA ParamsSound ==
  ASSUME NEW a \in Assets, NEW l \in Nat, NEW th \in Nat, NEW bo \in Nat,
         configureReserveAsCollateral(a, l, th, bo)
  PROVE  LET p == [ltv |-> l, liquidationThreshold |-> th, liquidationBonus |-> bo]
         IN  /\ Abstract!Sound(p)
             /\ p # Abstract!NoParams => termsOf(configuration[a]).collateral
  <1> DEFINE p == [ltv |-> l, liquidationThreshold |-> th, liquidationBonus |-> bo]
             n == PERCENTAGE_FACTOR
  <1>0. n \in Nat \ {0} BY MathAssumption
  <1>1. CASE th = 0
    <2>1. bo = 0 /\ l = 0 BY <1>1 DEF configureReserveAsCollateral
    <2>2. p = Abstract!NoParams BY <1>1, <2>1 DEF Abstract!NoParams
    <2> QED BY <2>2 DEF Abstract!Sound
  <1>2. CASE th # 0
    <2>1. /\ l <= th /\ getFlags(configuration[a]).collateral /\ bo > n
          /\ percentMul(th, bo) <= n
      BY <1>2 DEF configureReserveAsCollateral
    <2>2. 2 * th * bo < 2 * n * n + n
      <3> DEFINE x == th * bo
                 y == n \div 2
                 z == x + y
                 q == z \div n
      <3>1. q <= n BY <2>1 DEF percentMul, MulHalfUp
      <3>2. x \in Nat BY ProductNat
      <3>3. y \in Nat /\ 2 * y <= n /\ n <= 2 * y + 1 BY <1>0
      <3> HIDE DEF x, y
      <3>4. z \in Nat BY <3>2, <3>3
      <3> HIDE DEF z
      <3>5. q \in Nat /\ n * q <= z /\ z < n * q + n BY ONLY <1>0, <3>4, DivBounds
      <3> HIDE DEF q
      <3>6. n * q <= n * n BY ONLY <1>0, <3>1, <3>5, ProductMono
      <3>7. z < n * n + n /\ n * n \in Nat
        <4> DEFINE u == n * q
                   v == n * n
        <4>1. u \in Nat /\ v \in Nat BY <1>0, <3>5, ProductNat
        <4> HIDE DEF u, v
        <4>2. z < v + n BY <1>0, <3>4, <3>5, <3>6, <4>1 DEF u, v
        <4> QED BY ONLY <4>1, <4>2 DEF v
      <3>8. 2 * x < 2 * (n * n) + n
        <4> DEFINE v == n * n
        <4> HIDE DEF v
        <4>1. z < v + n /\ v \in Nat BY ONLY <3>7 DEF v
        <4>2. x + y < v + n BY ONLY <4>1 DEF z
        <4>3. 2 * x < 2 * v + n BY ONLY <1>0, <3>2, <3>3, <4>1, <4>2
        <4> QED BY ONLY <4>3 DEF v
      <3>9. 2 * th * bo = 2 * x BY DEF x
      <3>10. 2 * n * n = 2 * (n * n) BY <1>0
      <3> QED BY ONLY <3>8, <3>9, <3>10
    <2>3. Abstract!Sound(p) BY ONLY <2>1, <2>2 DEF Abstract!Sound
    <2>4. termsOf(configuration[a]).collateral = getFlags(configuration[a]).collateral
      BY ONLY DEF termsOf
    <2> QED BY <2>1, <2>3, <2>4
  <1> QED BY <1>1, <1>2

\* Every call is one of the abstract specification's.
LEMMA CallMapped ==
  ASSUME configuration \in [Assets -> SUBSET (0..79)], NEW a \in Assets, Call(a)
  PROVE  Abstract!Next
  <1> DEFINE data == configuration[a]
             s == termsOf(data)
             V == Decimals \cup Factors
             P == [ltv: Ltvs, liquidationThreshold: Thresholds, liquidationBonus: Bonuses]
  <1>0. data = configuration[a] /\ TermsHeld[a] = s BY DEF TermsHeld
  <1>1. \A t : Becomes(a, t) => Abstract!Change(a, t)
    BY ONLY configuration \in [Assets -> SUBSET (0..79)], a \in Assets, ChangeMapped
  <1> HIDE DEF data
  <1>3. ASSUME NEW d \in Decimals, initReserve(a, d) PROVE Abstract!Open(a, d)
    <2>1. d \in Nat BY ConfiguratorAssumption
    <2>2. Becomes(a, [s EXCEPT !.decimals = d, !.active = TRUE, !.frozen = FALSE])
      BY <1>0, <1>3, <2>1, CallsWrite
    <2> HIDE DEF s
    <2>3. Abstract!Change(a, [s EXCEPT !.decimals = d, !.active = TRUE, !.frozen = FALSE])
      BY ONLY <1>1, <2>2
    <2> QED BY ONLY <1>0, <2>2, <2>3 DEF Abstract!Open
  <1>4. ASSUME NEW b \in BOOLEAN, enableBorrowingOnReserve(a, b) PROVE Abstract!Lend(a, b)
    <2>2. ~s.collateral /\ Becomes(a, [s EXCEPT !.borrowing = TRUE, !.stable = b])
      BY <1>0, <1>4, CallsWrite
    <2> HIDE DEF s
    <2>3. Abstract!Change(a, [s EXCEPT !.borrowing = TRUE, !.stable = b]) BY ONLY <1>1, <2>2
    <2> QED BY ONLY <1>0, <2>2, <2>3 DEF Abstract!Lend
  <1>5. ASSUME NEW b \in BOOLEAN, setReserveStableRate(a, b) PROVE Abstract!AllowStable(a, b)
    <2>2. Becomes(a, [s EXCEPT !.stable = b]) BY <1>0, <1>5, CallsWrite
    <2> HIDE DEF s
    <2>3. Abstract!Change(a, [s EXCEPT !.stable = b]) BY ONLY <1>1, <2>2
    <2> QED BY ONLY <1>0, <2>2, <2>3 DEF Abstract!AllowStable
  <1>6. ASSUME NEW b \in BOOLEAN, setReserveFreeze(a, b) PROVE Abstract!Freeze(a, b)
    <2>2. Becomes(a, [s EXCEPT !.frozen = b]) BY <1>0, <1>6, CallsWrite
    <2> HIDE DEF s
    <2>3. Abstract!Change(a, [s EXCEPT !.frozen = b]) BY ONLY <1>1, <2>2
    <2> QED BY ONLY <1>0, <2>2, <2>3 DEF Abstract!Freeze
  <1>7. ASSUME disableBorrowingOnReserve(a) PROVE Abstract!StopLending(a)
    <2>2. Becomes(a, [s EXCEPT !.borrowing = FALSE]) BY <1>0, <1>7, CallsWrite
    <2> HIDE DEF s
    <2>3. Abstract!Change(a, [s EXCEPT !.borrowing = FALSE]) BY ONLY <1>1, <2>2
    <2> QED BY ONLY <1>0, <2>2, <2>3 DEF Abstract!StopLending
  <1>8. ASSUME enableCollateralOnReserve(a) PROVE Abstract!Accept(a)
    <2>2. ~s.borrowing /\ Becomes(a, [s EXCEPT !.collateral = TRUE]) BY <1>0, <1>8, CallsWrite
    <2> HIDE DEF s
    <2>3. Abstract!Change(a, [s EXCEPT !.collateral = TRUE]) BY ONLY <1>1, <2>2
    <2> QED BY ONLY <1>0, <2>2, <2>3 DEF Abstract!Accept
  <1>9. ASSUME disableCollateralOnReserve(a) PROVE Abstract!Refuse(a)
    <2>2. Becomes(a, [s EXCEPT !.collateral = FALSE]) BY <1>0, <1>9, CallsWrite
    <2> HIDE DEF s
    <2>3. Abstract!Change(a, [s EXCEPT !.collateral = FALSE]) BY ONLY <1>1, <2>2
    <2> QED BY ONLY <1>0, <2>2, <2>3 DEF Abstract!Refuse
  <1>10. ASSUME NEW l \in Ltvs, NEW th \in Thresholds, NEW bo \in Bonuses,
                configureReserveAsCollateral(a, l, th, bo)
         PROVE  \E p \in P : Abstract!Agree(a, p)
    <2> DEFINE p == [ltv |-> l, liquidationThreshold |-> th, liquidationBonus |-> bo]
    <2>1. l \in Nat /\ th \in Nat /\ bo \in Nat BY ConfiguratorAssumption
    <2>2. Abstract!Change(a, WithParams(s, l, th, bo)) BY <1>0, <1>1, <1>10, <2>1, CallsWrite
    <2>3. Abstract!Change(a, [s EXCEPT !.params = p]) BY ONLY <2>2 DEF WithParams
    <2>4. Abstract!Sound(p) /\ (p # Abstract!NoParams => s.collateral)
      BY ONLY <1>0, <1>10, <2>1, a \in Assets, ParamsSound
    <2>5. p \in P OBVIOUS
    <2> HIDE DEF p, s
    <2>6. Abstract!Agree(a, p) BY ONLY <1>0, <2>3, <2>4 DEF Abstract!Agree
    <2> HIDE DEF P
    <2> QED BY ONLY <2>5, <2>6
  <1>11. ASSUME activateReserve(a) PROVE Abstract!Activate(a, TRUE)
    <2>2. Becomes(a, [s EXCEPT !.active = TRUE]) BY <1>0, <1>11, CallsWrite
    <2> HIDE DEF s
    <2>3. Abstract!Change(a, [s EXCEPT !.active = TRUE]) BY ONLY <1>1, <2>2
    <2> QED BY ONLY <1>0, <2>2, <2>3 DEF Abstract!Activate
  <1>12. ASSUME deactivateReserve(a) PROVE Abstract!Activate(a, FALSE)
    <2>2. Becomes(a, [s EXCEPT !.active = FALSE]) BY <1>0, <1>12, CallsWrite
    <2> HIDE DEF s
    <2>3. Abstract!Change(a, [s EXCEPT !.active = FALSE]) BY ONLY <1>1, <2>2
    <2> QED BY ONLY <1>0, <2>2, <2>3 DEF Abstract!Activate
  <1>13. ASSUME NEW f \in Factors, changeReserveFactor(a, f) PROVE Abstract!Share(a, f)
    <2>1. f \in Nat BY ConfiguratorAssumption
    <2>2. Becomes(a, [s EXCEPT !.reserveFactor = f]) BY <1>0, <1>13, <2>1, CallsWrite
    <2> HIDE DEF s
    <2>3. Abstract!Change(a, [s EXCEPT !.reserveFactor = f]) BY ONLY <1>1, <2>2
    <2> QED BY ONLY <1>0, <2>2, <2>3 DEF Abstract!Share
  <1> HIDE DEF s, P, data
  <1> QED
   
      BY ONLY Call(a), a \in Assets, <1>3, <1>4, <1>5, <1>6, <1>7, <1>8, <1>9, <1>10, <1>11, <1>12, <1>13
    DEF Call, P, Abstract!Next

\* The bitmap implements the terms, for all parameters, decimals and factors: a call
\* changes the aspect it is for and nothing else, and the terms of a collateral are
\* sound whenever they are not absent.
THEOREM WordsImplementTerms == Spec => ImplementsTerms
  <1>1. Init => Abstract!Init
    <2> SUFFICES ASSUME Init PROVE Abstract!Init OBVIOUS
    <2>1. \A a \in Assets : configuration[a] = {} BY DEF Init
    <2>2. termsOf({}) = Abstract!NoTerms
      BY ONLY NoTermsAtFirst DEF Abstract!NoTerms, Abstract!NoParams
    <2> QED BY ONLY <2>1, <2>2 DEF Abstract!Init, TermsHeld
  <1>2. CInv /\ [Next]_vars => [Abstract!Next]_TermsHeld
    <2> SUFFICES ASSUME CInv, [Next]_vars PROVE [Abstract!Next]_TermsHeld OBVIOUS
    <2>1. configuration \in [Assets -> SUBSET (0..79)] BY ONLY CInv DEF CInv, TypeOK
    <2>2. UNCHANGED configuration => UNCHANGED TermsHeld BY DEF TermsHeld
    <2>3. CASE UNCHANGED vars BY <2>2, <2>3 DEF vars
    <2>4. CASE Next
      <3>1. PICK a \in Assets : Call(a) \/ Business(a) BY ONLY <2>4, Steps
      <3>2. CASE Call(a) BY ONLY <2>1, <3>2, a \in Assets, CallMapped
      <3>3. CASE Business(a)
        <4>1. UNCHANGED configuration
          BY ONLY CInv, <3>3, a \in Assets, BusinessStep DEF CInv, Confined
        <4> QED BY ONLY <2>2, <4>1
      <3> QED BY ONLY <3>1, <3>2, <3>3
    <2> QED BY <2>3, <2>4
  <1> QED BY <1>1, <1>2, CInvAtFirst, CInvKept, PTL DEF Spec, ImplementsTerms, Abstract!Spec
=============================================================================

------------------------- MODULE YieldManagerProofs -------------------------
(***************************************************************************)
(* For any reward tokens and reserves, any volumes and amounts: a reward   *)
(* token keeps its adapter, a distribution spends everything, and every    *)
(* reserve gets its share up to the roundings the bound names.             *)
(***************************************************************************)
EXTENDS YieldManager, WadRayMathProofs

\* A share by percentage, rounded twice, against the exact one: t is what is split,
\* v of V the volume, n one hundred per cent.
LEMMA ShareBounds ==
  ASSUME NEW t \in Nat, NEW v \in Nat, NEW V \in Nat \ {0}, NEW n \in Nat \ {0}
  PROVE  LET q == MulHalfUp(t, (v * n) \div V, n)
         IN  /\ q \in Nat
             /\ (2 * n * V) * q <= (2 * n * t) * v + n * V
             /\ (2 * n * t) * v <= (2 * n * V) * q + V * (2 * t + n)
  <1> DEFINE vn == v * n
             p == vn \div V
             tp == t * p
             h == n \div 2
             z == tp + h
             q == z \div n
  <1>1. vn \in Nat BY ProductNat
  <1> HIDE DEF vn
  <1>2. p \in Nat /\ V * p <= vn /\ vn < V * p + V BY ONLY V \in Nat \ {0}, <1>1, DivBounds
  <1> HIDE DEF p
  <1>3. tp \in Nat BY <1>2, ProductNat
  <1>4. h \in Nat /\ 2 * h <= n /\ n <= 2 * h + 1 OBVIOUS
  <1> HIDE DEF tp, h
  <1>5. z \in Nat BY <1>3, <1>4
  <1> HIDE DEF z
  <1>6. q \in Nat /\ n * q <= z /\ z < n * q + n BY ONLY n \in Nat \ {0}, <1>5, DivBounds
  <1> HIDE DEF q
  <1> DEFINE nq == n * q
             Vp == V * p
  <1>7. nq \in Nat /\ Vp \in Nat BY <1>2, <1>6, ProductNat
  <1>8. nq <= z /\ z < nq + n /\ Vp <= vn /\ vn <= Vp + V BY <1>1, <1>2, <1>6, <1>7
  <1> HIDE DEF nq, Vp
  <1>9. 2 * nq <= 2 * tp + n /\ 2 * tp <= 2 * nq + n
    <2>1. nq <= tp + h /\ tp + h < nq + n BY ONLY <1>8 DEF z
    <2> QED BY ONLY n \in Nat \ {0}, <1>3, <1>4, <1>7, <2>1
  <1>10. V * (2 * nq) <= V * (2 * tp + n) /\ V * (2 * tp) <= V * (2 * nq + n)
    <2>1. 2 * nq \in Nat /\ 2 * tp \in Nat /\ 2 * nq + n \in Nat /\ 2 * tp + n \in Nat /\ V \in Nat
      BY <1>3, <1>7
    <2> QED BY ONLY <1>9, <2>1, ProductMono
  <1>11. t * Vp <= t * vn /\ t * vn <= t * (Vp + V)
    <2>1. Vp + V \in Nat BY <1>7
    <2> QED BY ONLY t \in Nat, <1>1, <1>7, <1>8, <2>1, ProductMono
  <1>12. V * tp = t * Vp
    <2>1. V * (t * p) = t * (V * p) BY <1>2
    <2> QED BY ONLY <2>1 DEF tp, Vp
  <1>13. /\ V * (2 * nq) = (2 * n * V) * q
    <2>1. V * (2 * (n * q)) = (2 * n * V) * q BY <1>6
    <2> QED BY ONLY <2>1 DEF nq
  <1>14. (2 * n * t) * v = 2 * (t * vn)
    <2>1. (2 * n * t) * v = 2 * (t * (v * n)) OBVIOUS
    <2> QED BY ONLY <2>1 DEF vn
  <1> DEFINE A == V * tp
             R == t * vn
             K == V * n
             N == t * V
             X == (2 * n * V) * q
  <1>15. A \in Nat /\ R \in Nat /\ K \in Nat /\ N \in Nat BY <1>1, <1>3, ProductNat
  <1>16. V * (2 * tp + n) = 2 * A + K /\ V * (2 * tp) = 2 * A BY <1>3
  <1>17. V * (2 * nq + n) = X + K
    <2>1. V * (2 * nq + n) = V * (2 * nq) + V * n BY <1>7
    <2> QED BY ONLY <1>13, <2>1
  <1>18. t * (Vp + V) = A + N
    <2>1. t * (Vp + V) = t * Vp + t * V BY <1>7
    <2> QED BY ONLY <1>12, <2>1
  <1>19. X \in Nat
    <2>1. V * (2 * nq) \in Nat BY <1>7, ProductNat
    <2> QED BY ONLY <1>13, <2>1
  <1>20. X <= 2 * A + K /\ 2 * A <= X + K /\ A <= R /\ R <= A + N
    BY ONLY <1>10, <1>11, <1>12, <1>13, <1>16, <1>17, <1>18
  <1>21. n * V = K /\ V * (2 * t + n) = 2 * N + K OBVIOUS
  <1> HIDE DEF A, R, K, N, X
  <1>22. X <= 2 * R + K /\ 2 * R <= X + (2 * N + K) BY ONLY <1>15, <1>19, <1>20
  <1>23. (2 * n * t) * v = 2 * R BY ONLY <1>14 DEF R
  <1>24. X = (2 * n * V) * q BY DEF X
  <1>25. /\ q \in Nat
         /\ (2 * n * V) * q <= (2 * n * t) * v + n * V
         /\ (2 * n * t) * v <= (2 * n * V) * q + V * (2 * t + n)
    BY ONLY <1>6, <1>21, <1>22, <1>23, <1>24
  <1>26. q = MulHalfUp(t, (v * n) \div V, n) BY DEF q, z, h, tp, p, vn, MulHalfUp
  <1> QED BY ONLY <1>25, <1>26

\* The parts y of t: their shares, and what is left for the last one.
Parts(y, B, last, t, share) ==
  /\ y \in [B -> Int]
  /\ SumFunctionOnSet(y, B) = t
  /\ y[last] = t - SumFunctionOnSet(share, B \ {last})
  /\ \A s \in B \ {last} : y[s] = share[s]

\* The parts add up to the whole, as the last one takes what is left.
LEMMA PartsAddUp ==
  ASSUME NEW B, IsFiniteSet(B), NEW last \in B, NEW t \in Nat, NEW share \in [B -> Nat],
         NEW y, y = [share EXCEPT ![last] = t - SumFunctionOnSet(share, B \ {last})]
  PROVE  Parts(y, B, last, t, share)
  <1> DEFINE C == B \ {last}
             rest == SumFunctionOnSet(share, C)
  <1>1. IsFiniteSet(C) BY FS_RemoveElement
  <1>2. rest \in Nat
    <2>1. \A s \in C : share[s] \in Nat OBVIOUS
    <2> QED BY ONLY <1>1, <2>1, SumNat
  <1>3. y = [share EXCEPT ![last] = t - rest] OBVIOUS
  <1> HIDE DEF rest
  <1>4. y \in [B -> Int] /\ y[last] = t - rest /\ \A s \in C : y[s] = share[s]
    BY <1>2, <1>3
  <1>5. SumFunctionOnSet(y, C) = SumFunctionOnSet(share, C)
    <2>1. \A s \in C : share[s] \in Int /\ y[s] = share[s] BY <1>4
    <2> QED BY ONLY <1>1, <2>1, SumEqual
  <1>6. SumFunctionOnSet(y, B) = y[last] + SumFunctionOnSet(y, C)
    <2>1. \A s \in B : y[s] \in Int BY <1>4
    <2> QED BY ONLY <2>1, IsFiniteSet(B), last \in B, SumRemove
  <1>7. SumFunctionOnSet(y, B) = (t - rest) + rest BY ONLY <1>4, <1>5, <1>6 DEF rest
  <1>8. SumFunctionOnSet(y, B) = t BY ONLY t \in Nat, <1>2, <1>7
  <1> QED BY ONLY <1>4, <1>8 DEF rest, Parts

\* What is left for the last one, against its exact share: the others may each have
\* lost one per cent of the hundred and a half to truncation and rounding.
LEMMA LastBound ==
  ASSUME NEW B, IsFiniteSet(B), NEW last \in B, NEW t \in Nat, NEW share \in [B -> Nat],
         NEW v \in [B -> Nat], NEW V, V = SumFunctionOnSet(v, B), V \in Nat \ {0},
         NEW n \in Nat \ {0},
         \A s \in B : (2 * n * t) * v[s] <= (2 * n * V) * share[s] + V * (2 * t + n)
  PROVE  (2 * n * V) * (t - SumFunctionOnSet(share, B \ {last}))
           <= (2 * n * t) * v[last] + (Cardinality(B) - 1) * (V * (2 * t + n))
  <1> DEFINE C == B \ {last}
             a == 2 * n * t
             k == 2 * n * V
             w == V * (2 * t + n)
             f == [s \in C |-> k * share[s]]
             c == [s \in C |-> w]
             g == [s \in C |-> a * v[s]]
             h == [s \in C |-> k * share[s] + w]
             R == SumFunctionOnSet(share, C)
             U == SumFunctionOnSet(v, C)
  <1>1. IsFiniteSet(C) /\ Cardinality(C) = Cardinality(B) - 1 /\ Cardinality(C) \in Nat
    BY FS_RemoveElement, FS_CardinalityType
  <1>2. a \in Nat /\ k \in Nat /\ w \in Nat
    <2>1. 2 * n \in Nat /\ V \in Nat /\ 2 * t + n \in Nat OBVIOUS
    <2> QED BY ONLY <2>1, t \in Nat, ProductNat
  <1>3. \A s \in C : a * v[s] <= k * share[s] + w OBVIOUS
  <1>4. \A s \in C : share[s] \in Int /\ v[s] \in Int OBVIOUS
  <1>5. R \in Int /\ U \in Int BY ONLY <1>1, <1>4, SumRemove
  <1>6. V = v[last] + U
    <2>1. \A s \in B : v[s] \in Int OBVIOUS
    <2> QED BY ONLY <2>1, IsFiniteSet(B), last \in B, V = SumFunctionOnSet(v, B), SumRemove
  <1>7. a * V = k * t OBVIOUS
  <1>8. v[last] \in Int /\ V \in Int /\ t \in Int OBVIOUS
  <1> HIDE DEF a, k, w
  <1>9. SumFunctionOnSet(f, C) = k * R
    <2>1. \A s \in C : share[s] \in Int /\ f[s] = k * share[s] BY ONLY <1>4
    <2>2. k \in Int BY <1>2
    <2> HIDE DEF f, C
    <2> QED BY ONLY <1>1, <2>1, <2>2, SumScale
  <1>10. SumFunctionOnSet(g, C) = a * U
    <2>1. \A s \in C : v[s] \in Int /\ g[s] = a * v[s] BY ONLY <1>4
    <2>2. a \in Int BY <1>2
    <2> HIDE DEF g, C
    <2> QED BY ONLY <1>1, <2>1, <2>2, SumScale
  <1>11. SumFunctionOnSet(c, C) = w * Cardinality(C)
    <2>1. \A s \in C : c[s] = w OBVIOUS
    <2>2. w \in Int BY <1>2
    <2> HIDE DEF c, C
    <2> QED BY ONLY <1>1, <2>1, <2>2, SumConstant
  <1>12. SumFunctionOnSet(h, C) = SumFunctionOnSet(f, C) + SumFunctionOnSet(c, C)
    <2>1. \A s \in C : f[s] \in Int /\ c[s] \in Int /\ h[s] = f[s] + c[s]
      BY ONLY <1>2, <1>4
    <2> HIDE DEF f, c, h, C
    <2> QED BY ONLY <1>1, <2>1, SumAdd
  <1>13. SumFunctionOnSet(g, C) <= SumFunctionOnSet(h, C)
    <2>1. \A s \in C : g[s] \in Int /\ h[s] \in Int BY ONLY <1>2, <1>4
    <2>2. \A s \in C : g[s] <= h[s] BY ONLY <1>3
    <2> HIDE DEF g, h, C
    <2> QED BY ONLY <1>1, <2>1, <2>2, SumMonotonic
  <1> HIDE DEF f, c, g, h, R, U, C
  <1>14. a * U <= k * R + w * Cardinality(C) BY ONLY <1>9, <1>10, <1>11, <1>12, <1>13
  <1>15. k * (t - R) = k * t - k * R BY ONLY <1>2, <1>5, <1>8
  <1>16. a * V = a * v[last] + a * U BY ONLY <1>2, <1>5, <1>6, <1>8
  <1> DEFINE kR == k * R
             aU == a * U
             al == a * v[last]
             kt == k * t
             wc == w * Cardinality(C)
  <1>17. kR \in Int /\ aU \in Int /\ al \in Int /\ kt \in Int /\ wc \in Int
    BY ONLY <1>1, <1>2, <1>5, <1>8
  <1>18. aU <= kR + wc /\ kt = al + aU BY ONLY <1>7, <1>14, <1>16
  <1>19. k * (t - R) = kt - kR BY ONLY <1>15
  <1>20. wc = (Cardinality(B) - 1) * w BY ONLY <1>1, <1>2
  <1> HIDE DEF kR, aU, al, kt, wc
  <1>21. kt - kR <= al + wc BY ONLY <1>17, <1>18
  <1>22. k * (t - R) <= a * v[last] + (Cardinality(B) - 1) * w BY ONLY <1>19, <1>20, <1>21 DEF al
  <1> QED BY ONLY <1>22 DEF k, R, a, w, C

-----------------------------------------------------------------------------
(* The split of a distribution. *)

\* There are finitely many reserves.
LEMMA FinitelyMany ==
  IsFiniteSet(Stables) /\ IsFiniteSet(borrowingAssets) /\ borrowingAssets \subseteq Stables
  <1>1. Reserves \in Seq(Stables) BY YieldManagerAssumption
  <1> DEFINE n == Len(Reserves)
  <1>2. n \in Nat /\ Reserves \in [1..n -> Stables] /\ DOMAIN Reserves = 1..n BY <1>1
  <1>3. \A s \in Stables : \E i \in 1..n : Reserves[i] = s BY <1>2 DEF Stables
  <1>4. Reserves \in Surjection(1..n, Stables) BY <1>2, <1>3 DEF Surjection
  <1>5. IsFiniteSet(1..n) BY <1>2, FS_Interval
  <1> HIDE DEF n
  <1>6. IsFiniteSet(Stables) BY ONLY <1>4, <1>5, FS_Surjection
  <1>7. borrowingAssets \subseteq Stables BY DEF borrowingAssets
  <1> QED BY ONLY <1>6, <1>7, FS_Subset

\* If any reserve lends, the last one that does lends.
LEMMA LastLends ==
  ASSUME borrowingAssets # {}
  PROVE  lastAsset \in borrowingAssets
  <1> DEFINE I == {i \in DOMAIN Reserves : Reserves[i] \in borrowingAssets}
  <1>1. Reserves \in Seq(Stables) BY YieldManagerAssumption
  <1>2. DOMAIN Reserves = 1..Len(Reserves) /\ Len(Reserves) \in Nat BY <1>1
  <1>3. I \subseteq Int BY <1>2
  <1>4. IsFiniteSet(I)
    <2>1. IsFiniteSet(1..Len(Reserves)) BY <1>2, FS_Interval
    <2>2. I \subseteq 1..Len(Reserves) BY <1>2
    <2> QED BY ONLY <2>1, <2>2, FS_Subset
  <1>5. I # {}
    <2>1. PICK s \in borrowingAssets : TRUE OBVIOUS
    <2>2. s \in Stables BY <2>1, FinitelyMany
    <2>3. PICK i \in DOMAIN Reserves : Reserves[i] = s BY <2>2 DEF Stables
    <2> QED BY <2>1, <2>3
  <1>6. \A i \in I : Reserves[i] \in borrowingAssets OBVIOUS
  <1>7. lastAsset = Reserves[Max(I)] BY DEF lastAsset
  <1> HIDE DEF I
  <1>8. \E x \in I : \A y \in I : x >= y BY ONLY <1>3, <1>4, <1>5, GreatestMember
  <1>9. Max(I) \in I BY ONLY <1>8 DEF Max
  <1> QED BY ONLY <1>6, <1>7, <1>9

\* The volume of every reserve that lends.
Volumes == [s \in borrowingAssets |-> volume(s)]

\* The share of every reserve that lends, by percentage.
Shares(total) ==
  [s \in borrowingAssets |-> percentMul(total, (volume(s) * PERCENTAGE_FACTOR) \div totalVolume)]

\* Volumes are numbers, and so is their sum.
LEMMA VolumesAreNat ==
  ASSUME reserve \in [Stables -> [supply: Nat, borrowable: BOOLEAN]]
  PROVE  /\ Volumes \in [borrowingAssets -> Nat]
         /\ totalVolume = SumFunctionOnSet(Volumes, borrowingAssets)
         /\ totalVolume \in Nat
         /\ totalVolume # 0 => borrowingAssets # {}
  <1>1. ASSUME NEW s \in borrowingAssets PROVE volume(s) \in Nat
    <2>1. s \in Stables BY FinitelyMany
    <2>2. reserve[s].supply \in Nat BY <2>1
    <2>3. TOKEN_UNIT \in Nat \ {0} BY YieldManagerAssumption
    <2> DEFINE x == reserve[s].supply
    <2> HIDE DEF x
    <2>4. x \div TOKEN_UNIT \in Nat
      <3>1. x \in Nat BY ONLY <2>2 DEF x
      <3> QED BY ONLY <2>3, <3>1, DivBounds
    <2> QED BY ONLY <2>4 DEF x, volume
  <1>2. Volumes \in [borrowingAssets -> Nat] BY <1>1 DEF Volumes
  <1>3. totalVolume = SumFunctionOnSet(Volumes, borrowingAssets) BY DEF totalVolume, Volumes
  <1>4. IsFiniteSet(borrowingAssets) BY FinitelyMany
  <1>5. totalVolume \in Nat
    <2>1. \A s \in borrowingAssets : Volumes[s] \in Nat BY ONLY <1>2
    <2> QED BY ONLY <1>3, <1>4, <2>1, SumNat
  <1>6. borrowingAssets = {} => totalVolume = 0
    <2>1. IsFiniteSet({}) BY FS_EmptySet
    <2>2. SumFunctionOnSet(Volumes, {}) = 0 BY ONLY <2>1, SumUnfolds
    <2> QED BY ONLY <1>3, <2>2
  <1> QED BY ONLY <1>2, <1>3, <1>5, <1>6

\* The bound a part is held to.
Held(s, part, total) ==
  2 * PERCENTAGE_FACTOR * totalVolume * part
    <= 2 * PERCENTAGE_FACTOR * total * volume(s)
         + (IF s # lastAsset THEN PERCENTAGE_FACTOR * totalVolume
            ELSE (Cardinality(borrowingAssets) - 1) * totalVolume * (2 * total + PERCENTAGE_FACTOR))

\* The parts are all there is, each within its bound.
LEMMA Split ==
  ASSUME reserve \in [Stables -> [supply: Nat, borrowable: BOOLEAN]], totalVolume # 0,
         NEW total \in Nat
  PROVE  /\ getAssetYields(total) \in [borrowingAssets -> Int]
         /\ SumFunctionOnSet(getAssetYields(total), borrowingAssets) = total
         /\ \A s \in borrowingAssets : Held(s, getAssetYields(total)[s], total)
  <1> DEFINE B == borrowingAssets
             V == totalVolume
             n == PERCENTAGE_FACTOR
             v == Volumes
             share == Shares(total)
             y == getAssetYields(total)
             last == lastAsset
  <1>1. /\ v \in [B -> Nat] /\ V = SumFunctionOnSet(v, B) /\ V \in Nat \ {0} /\ B # {}
    BY VolumesAreNat
  <1>2. IsFiniteSet(B) BY FinitelyMany
  <1>3. last \in B BY <1>1, LastLends
  <1>4. n \in Nat \ {0} BY MathAssumption
  <1>5. \A s \in B : v[s] = volume(s) BY DEF Volumes
  <1>6. ASSUME NEW s \in B
        PROVE  /\ share[s] \in Nat
               /\ (2 * n * V) * share[s] <= (2 * n * total) * v[s] + n * V
               /\ (2 * n * total) * v[s] <= (2 * n * V) * share[s] + V * (2 * total + n)
    <2> DEFINE x == v[s]
               q == MulHalfUp(total, (x * n) \div V, n)
    <2>1. share[s] = q
      <3>1. share[s] = percentMul(total, (volume(s) * n) \div V) BY DEF Shares
      <3>2. percentMul(total, (volume(s) * n) \div V) = q BY <1>5 DEF percentMul
      <3> QED BY ONLY <3>1, <3>2
    <2>2. x \in Nat BY ONLY <1>1, <1>6
    <2> HIDE DEF x, V, n, share
    <2>3. /\ q \in Nat
          /\ (2 * n * V) * q <= (2 * n * total) * x + n * V
          /\ (2 * n * total) * x <= (2 * n * V) * q + V * (2 * total + n)
      BY ONLY <1>1, <1>4, <2>2, total \in Nat, ShareBounds
    <2> HIDE DEF q
    <2> QED BY ONLY <2>1, <2>3 DEF x
  <1>7. share \in [B -> Nat] BY ONLY <1>6 DEF Shares
  <1>8. y = [share EXCEPT ![last] = total - SumFunctionOnSet(share, B \ {last})]
    BY DEF getAssetYields, Shares
  <1> HIDE DEF B, V, n, v, share, y, last
  <1>9. /\ y \in [B -> Int]
        /\ SumFunctionOnSet(y, B) = total
        /\ y[last] = total - SumFunctionOnSet(share, B \ {last})
        /\ \A s \in B \ {last} : y[s] = share[s]
    <2>1. Parts(y, B, last, total, share)
      BY ONLY <1>2, <1>3, <1>7, <1>8, total \in Nat, PartsAddUp
    <2> QED BY ONLY <2>1 DEF Parts
  <1> DEFINE w == V * (2 * total + n)
  <1>10. (2 * n * V) * y[last] <= (2 * n * total) * v[last] + (Cardinality(B) - 1) * w
    <2>1. \A s \in B : (2 * n * total) * v[s] <= (2 * n * V) * share[s] + V * (2 * total + n)
      BY ONLY <1>6
    <2>2. (2 * n * V) * (total - SumFunctionOnSet(share, B \ {last}))
            <= (2 * n * total) * v[last] + (Cardinality(B) - 1) * (V * (2 * total + n))
      BY ONLY <1>1, <1>2, <1>3, <1>4, <1>7, <2>1, total \in Nat, LastBound
    <2> QED BY ONLY <1>9, <2>2
  <1>11. ASSUME NEW s \in B PROVE Held(s, y[s], total)
    <2>1. CASE s # last
      <3>1. (2 * n * V) * y[s] <= (2 * n * total) * v[s] + n * V BY ONLY <1>6, <1>9, <1>11, <2>1
      <3>2. v[s] = volume(s) BY ONLY <1>5, <1>11
      <3> QED BY ONLY <2>1, <3>1, <3>2 DEF Held, n, V, last
    <2>2. CASE s = last
      <3>1. v[last] = volume(last) BY ONLY <1>3, <1>5
      <3>2. (Cardinality(B) - 1) * w = (Cardinality(B) - 1) * V * (2 * total + n)
        <4>1. Cardinality(B) \in Nat BY ONLY <1>2, FS_CardinalityType
        <4> DEFINE m == Cardinality(B) - 1
        <4>2. m \in Int BY ONLY <4>1
        <4> HIDE DEF m
        <4>3. m * (V * (2 * total + n)) = m * V * (2 * total + n) BY ONLY <1>1, <1>4, <4>2, total \in Nat
        <4> QED BY ONLY <4>3 DEF m, w
      <3>3. (2 * n * V) * y[s] <= (2 * n * total) * volume(s)
              + (Cardinality(B) - 1) * V * (2 * total + n)
        BY ONLY <1>10, <2>2, <3>1, <3>2
      <3> QED BY ONLY <2>2, <3>3 DEF Held, n, V, last, B
    <2> QED BY ONLY <2>1, <2>2
  <1> QED BY ONLY <1>9, <1>11 DEF B, y

-----------------------------------------------------------------------------
(* A distribution. *)

\* What a swap returns is a number.
LEMMA SwapIsNat ==
  ASSUME NEW amount \in Nat, NEW loss \in Slippages
  PROVE  swapExactTokensForTokens(amount, loss) \in Nat
  <1> DEFINE n == PERCENTAGE_FACTOR
             m == n - loss
             x == amount * m
             h == n \div 2
  <1>1. n \in Nat \ {0} BY MathAssumption
  <1>2. loss \in 0..n BY YieldManagerAssumption
  <1> HIDE DEF n
  <1>3. m \in Nat BY ONLY <1>1, <1>2
  <1>4. h \in Nat BY ONLY <1>1
  <1> HIDE DEF m
  <1>5. x \in Nat BY ONLY amount \in Nat, <1>3, ProductNat
  <1> HIDE DEF x, h
  <1>6. x + h \in Nat BY ONLY <1>4, <1>5
  <1>7. (x + h) \div n \in Nat BY ONLY <1>1, <1>6, DivBounds
  <1> QED BY ONLY <1>7 DEF x, h, m, n, swapExactTokensForTokens, percentMul, MulHalfUp

\* The slots of a window hold finitely many reward tokens.
LEMMA WindowIsFinite ==
  ASSUME assetsList \in Seq(Entry), NEW offset \in Nat, NEW count \in Nat,
         offset + count <= Len(assetsList)
  PROVE  Window(offset, count) \subseteq RewardAssets /\ IsFiniteSet(Window(offset, count))
  <1> DEFINE I == (offset + 1)..(offset + count)
             f == [i \in I |-> assetsList[i].asset]
             W == Window(offset, count)
  <1>1. \A i \in I : assetsList[i] \in Entry
    <2>1. \A i \in I : i \in 1..Len(assetsList) OBVIOUS
    <2> QED BY <2>1
  <1>2. \A i \in I : f[i] \in RewardAssets BY <1>1 DEF Entry
  <1>3. W = {f[i] : i \in I} BY DEF Window
  <1>4. IsFiniteSet(I) BY FS_Interval
  <1>5. DOMAIN f = I OBVIOUS
  <1>6. f = [i \in I |-> f[i]] OBVIOUS
  <1> HIDE DEF f, I, W
  <1>7. f \in Surjection(I, W) BY ONLY <1>3, <1>6 DEF Surjection
  <1>8. IsFiniteSet(W) BY ONLY <1>4, <1>7, FS_Surjection
  <1>9. W \subseteq RewardAssets BY ONLY <1>2, <1>3
  <1> QED BY ONLY <1>8, <1>9 DEF W

\* The balances after the swaps are numbers.
LEMMA SwappedBalances ==
  ASSUME TypeOK, NEW W, W \subseteq RewardAssets, IsFiniteSet(W), NEW loss \in Slippages
  PROVE  converted(W, loss) \in [RewardAssets \cup Stables -> Nat]
  <1>1. balances \in [RewardAssets \cup Stables -> Nat] /\ exchangeToken \in Stables BY DEF TypeOK
  <1> DEFINE f == [b \in W |-> swapExactTokensForTokens(balances[b], loss)]
             sum == SumFunctionOnSet(f, W)
  <1>2. sum \in Nat
    <2>1. ASSUME NEW b \in W PROVE f[b] \in Nat
      <3>1. balances[b] \in Nat BY <1>1
      <3>2. swapExactTokensForTokens(balances[b], loss) \in Nat
        BY ONLY <3>1, loss \in Slippages, SwapIsNat
      <3> QED BY <3>2
    <2> HIDE DEF f
    <2> QED BY ONLY IsFiniteSet(W), <2>1, SumNat
  <1>3. converted(W, loss) = [a \in DOMAIN balances |->
           IF a \in W THEN 0 ELSE IF a = exchangeToken THEN balances[a] + sum ELSE balances[a]]
    BY DEF converted
  <1> HIDE DEF sum
  <1> QED BY ONLY <1>1, <1>2, <1>3

\* Nothing is left of the exchange token once a distribution has assigned it.
KeptStep == spent' # spent => balances'[exchangeToken] = 0

\* What a distribution makes of balances, reserves and assignments.
Distributed ==
  /\ balances' \in [RewardAssets \cup Stables -> Nat]
  /\ reserve' \in [Stables -> [supply: Nat, borrowable: BOOLEAN]]
  /\ spent' \in [Stables -> Nat]
  /\ KeptStep
  /\ FairStep

\* A distribution where no reserve has volume only swaps.
LEMMA SwapsOnly ==
  ASSUME TypeOK, NEW swapped \in [RewardAssets \cup Stables -> Nat], balances' = swapped,
         UNCHANGED <<reserve, spent>>
  PROVE  Distributed
  BY DEF TypeOK, Distributed, KeptStep, FairStep

\* What the parts of a distribution do.
Assigned(swapped, yields, loss) ==
  /\ Covered(yields)
  /\ balances' = [swapped EXCEPT ![exchangeToken] = @ - SumFunctionOnSet(yields, borrowingAssets)]
  /\ spent' = [s \in Stables |-> spent[s] + IF s \in borrowingAssets THEN yields[s] ELSE 0]
  /\ reserve' = [s \in Stables |->
       [reserve[s] EXCEPT !.supply =
          @ + IF s \in borrowingAssets THEN received(yields, s, loss) ELSE 0]]

\* A distribution to reserves assigns all of it, within the bounds.
LEMMA Assigns ==
  ASSUME TypeOK, NEW swapped \in [RewardAssets \cup Stables -> Nat], totalVolume # 0,
         NEW loss \in Slippages,
         Assigned(swapped, getAssetYields(swapped[exchangeToken]), loss)
  PROVE  Distributed
  <1> DEFINE total == swapped[exchangeToken]
             y == getAssetYields(total)
             B == borrowingAssets
  <1>1. /\ exchangeToken \in Stables /\ spent \in [Stables -> Nat]
        /\ reserve \in [Stables -> [supply: Nat, borrowable: BOOLEAN]]
    BY DEF TypeOK
  <1>2. total \in Nat BY <1>1
  <1>3. /\ y \in [B -> Int] /\ SumFunctionOnSet(y, B) = total
        /\ \A s \in B : Held(s, y[s], total)
    <2> HIDE DEF total
    <2> QED BY ONLY <1>1, <1>2, totalVolume # 0, Split
  <1>4. Assigned(swapped, y, loss) OBVIOUS
  <1>5. IsFiniteSet(Stables) /\ IsFiniteSet(B) /\ B \subseteq Stables BY FinitelyMany
  <1> HIDE DEF y
  <1>6. \A s \in B : y[s] \in Nat BY ONLY <1>3, <1>4 DEF Assigned, Covered
  <1>7. /\ balances' \in [RewardAssets \cup Stables -> Nat]
        /\ balances'[exchangeToken] = 0
    <2>1. balances' = [swapped EXCEPT ![exchangeToken] = total - SumFunctionOnSet(y, B)]
      BY ONLY <1>4 DEF Assigned
    <2> HIDE DEF total
    <2>2. total - SumFunctionOnSet(y, B) = 0 BY ONLY <1>2, <1>3
    <2>3. balances' = [swapped EXCEPT ![exchangeToken] = 0] BY ONLY <2>1, <2>2
    <2> QED BY ONLY <1>1, <2>3, swapped \in [RewardAssets \cup Stables -> Nat]
  <1>8. spent' \in [Stables -> Nat] /\ \A s \in Stables : spent'[s] - spent[s] = IF s \in B THEN y[s] ELSE 0
    <2>1. spent' = [s \in Stables |-> spent[s] + IF s \in B THEN y[s] ELSE 0]
      BY ONLY <1>4 DEF Assigned
    <2> QED BY ONLY <1>1, <1>6, <2>1
  <1>9. reserve' \in [Stables -> [supply: Nat, borrowable: BOOLEAN]]
    <2> DEFINE r == [s \in Stables |-> IF s \in B THEN received(y, s, loss) ELSE 0]
    <2>1. ASSUME NEW s \in Stables PROVE r[s] \in Nat
      <3>1. ASSUME s \in B PROVE received(y, s, loss) \in Nat
        <4>1. y[s] \in Nat BY ONLY <1>6, <3>1
        <4>2. swapExactTokensForTokens(y[s], loss) \in Nat
          BY ONLY <4>1, loss \in Slippages, SwapIsNat
        <4> QED BY ONLY <4>1, <4>2 DEF received
      <3> QED BY <3>1
    <2>2. reserve' = [s \in Stables |-> [reserve[s] EXCEPT !.supply = @ + r[s]]]
      BY ONLY <1>4 DEF Assigned
    <2> HIDE DEF r
    <2> QED BY ONLY <1>1, <2>1, <2>2
  <1>10. FairStep
    <2> DEFINE got == [s \in Stables |-> spent'[s] - spent[s]]
    <2>1. \A s \in Stables : got[s] = IF s \in B THEN y[s] ELSE 0 BY ONLY <1>8
    <2>2. SumFunctionOnSet(got, Stables) = total
      <3>1. \A s \in Stables : got[s] \in Int BY ONLY <1>6, <2>1
      <3>2. \A s \in Stables \ B : got[s] = 0 BY ONLY <2>1
      <3>3. \A s \in B : y[s] \in Int /\ got[s] = y[s] BY ONLY <1>3, <1>5, <2>1
      <3> HIDE DEF got, B, total
      <3>4. SumFunctionOnSet(got, Stables) = SumFunctionOnSet(got, B)
        BY ONLY <1>5, <3>1, <3>2, SumSupport
      <3>5. SumFunctionOnSet(got, B) = SumFunctionOnSet(y, B) BY ONLY <1>5, <3>3, SumEqual
      <3> QED BY ONLY <1>3, <3>4, <3>5
    <2>3. \A s \in B : Held(s, got[s], SumFunctionOnSet(got, Stables))
      <3> HIDE DEF got, B, total
      <3>1. \A s \in B : got[s] = y[s] BY ONLY <1>5, <2>1
      <3> QED BY ONLY <1>3, <2>2, <3>1
    <2> QED BY ONLY <2>3 DEF FairStep, Held
  <1> QED BY ONLY <1>7, <1>8, <1>9, <1>10 DEF Distributed, KeptStep

\* A distribution, whatever window of tokens it swaps.
LEMMA Distributes ==
  ASSUME TypeOK, NEW offset \in Nat, NEW count \in Nat, NEW loss \in Slippages,
         distributeYield(offset, count, loss)
  PROVE  Distributed /\ UNCHANGED <<assetsList, assetsCount, exchangeToken, curvePools>>
  <1> DEFINE W == Window(offset, count)
             swapped == converted(W, loss)
  <1>1. assetsList \in Seq(Entry) BY DEF TypeOK
  <1>2. offset + count <= Len(assetsList) BY DEF distributeYield
  <1>3. W \subseteq RewardAssets /\ IsFiniteSet(W)
    BY ONLY <1>1, <1>2, offset \in Nat, count \in Nat, WindowIsFinite
  <1>4. \/ totalVolume = 0 /\ balances' = swapped /\ UNCHANGED <<reserve, spent>>
        \/ totalVolume # 0 /\ Assigned(swapped, getAssetYields(swapped[exchangeToken]), loss)
    BY DEF distributeYield, Assigned
  <1>5. UNCHANGED <<assetsList, assetsCount, exchangeToken, curvePools>> BY DEF distributeYield
  <1> HIDE DEF W
  <1>6. swapped \in [RewardAssets \cup Stables -> Nat]
    BY ONLY TypeOK, <1>3, loss \in Slippages, SwappedBalances
  <1> HIDE DEF swapped
  <1>7. Distributed BY ONLY TypeOK, <1>4, <1>6, loss \in Slippages, SwapsOnly, Assigns
  <1> QED BY ONLY <1>5, <1>7

-----------------------------------------------------------------------------
(* The theorems. *)

\* The inductive invariant: a removed slot is filled from the last one, asset and
\* adapter together.
IInv == TypeOK /\ SwapTypeFollowsAsset

\* Registration fills the slot behind the count, or a new one.
LEMMA RegisterKeeps ==
  ASSUME IInv, NEW a \in RewardAssets, registerAsset(a)
  PROVE  IInv'
  <1> DEFINE entry == [asset |-> a, swapType |-> SwapTypes[a]]
             n == Len(assetsList)
  <1>1. /\ assetsList \in Seq(Entry) /\ assetsCount \in 0..n /\ n \in Nat
        /\ \A i \in 1..n : assetsList[i].swapType = SwapTypes[assetsList[i].asset]
    BY DEF IInv, TypeOK, SwapTypeFollowsAsset
  <1>2. entry \in Entry /\ entry.swapType = SwapTypes[entry.asset]
    BY YieldManagerAssumption DEF Entry
  <1>3. /\ assetsList' = IF assetsCount < n THEN [assetsList EXCEPT ![assetsCount + 1] = entry]
                         ELSE Append(assetsList, entry)
        /\ assetsCount' = assetsCount + 1
        /\ UNCHANGED <<exchangeToken, curvePools, balances, reserve, spent>>
    BY DEF registerAsset
  <1> HIDE DEF entry
  <1>4. CASE assetsCount < n
    <2>1. assetsList' = [assetsList EXCEPT ![assetsCount + 1] = entry] /\ assetsCount + 1 \in 1..n
      BY ONLY <1>1, <1>3, <1>4
    <2>2. assetsList' \in Seq(Entry) /\ Len(assetsList') = n BY <1>1, <1>2, <2>1
    <2>3. \A i \in 1..n : assetsList'[i] = IF i = assetsCount + 1 THEN entry ELSE assetsList[i]
      BY <1>1, <2>1
    <2>4. \A i \in 1..n : assetsList'[i].swapType = SwapTypes[assetsList'[i].asset]
      BY ONLY <1>1, <1>2, <2>3
    <2>5. assetsCount' \in 0..n BY ONLY <1>1, <1>3, <1>4
    <2>6. DOMAIN assetsList' = 1..n BY <2>2
    <2>7. TypeOK' BY ONLY IInv, <1>3, <2>2, <2>5 DEF IInv, TypeOK
    <2>8. SwapTypeFollowsAsset' BY ONLY <2>4, <2>6 DEF SwapTypeFollowsAsset
    <2> QED BY ONLY <2>7, <2>8 DEF IInv
  <1>5. CASE ~(assetsCount < n)
    <2>1. assetsList' = Append(assetsList, entry) /\ assetsCount = n BY ONLY <1>1, <1>3, <1>5
    <2>2. assetsList' \in Seq(Entry) /\ Len(assetsList') = n + 1 BY <1>1, <1>2, <2>1
    <2>3. \A i \in 1..(n + 1) : assetsList'[i] = IF i = n + 1 THEN entry ELSE assetsList[i]
      BY <1>1, <2>1
    <2>4. \A i \in 1..(n + 1) : i = n + 1 \/ i \in 1..n BY ONLY <1>1
    <2>5. \A i \in 1..(n + 1) : assetsList'[i].swapType = SwapTypes[assetsList'[i].asset]
      BY ONLY <1>1, <1>2, <2>3, <2>4
    <2>6. assetsCount' \in 0..(n + 1) BY ONLY <1>1, <1>3, <2>1
    <2>7. DOMAIN assetsList' = 1..(n + 1) BY <2>2
    <2>8. TypeOK' BY ONLY IInv, <1>3, <2>2, <2>6 DEF IInv, TypeOK
    <2>9. SwapTypeFollowsAsset' BY ONLY <2>5, <2>7 DEF SwapTypeFollowsAsset
    <2> QED BY ONLY <2>8, <2>9 DEF IInv
  <1> QED BY <1>4, <1>5

\* Removal moves a whole slot.
LEMMA UnregisterKeeps ==
  ASSUME IInv, NEW k \in 1..assetsCount, unregisterAsset(k - 1)
  PROVE  IInv'
  <1> DEFINE n == Len(assetsList)
  <1>1. /\ assetsList \in Seq(Entry) /\ assetsCount \in 0..n /\ n \in Nat
        /\ \A i \in 1..n : assetsList[i].swapType = SwapTypes[assetsList[i].asset]
    BY DEF IInv, TypeOK, SwapTypeFollowsAsset
  <1>2. UNCHANGED <<exchangeToken, curvePools, balances, reserve, spent>> BY DEF unregisterAsset
  <1>3. CASE UNCHANGED <<assetsList, assetsCount>>
    BY ONLY IInv, <1>2, <1>3 DEF IInv, TypeOK, SwapTypeFollowsAsset
  <1>4. CASE /\ assetsList' = [assetsList EXCEPT ![(k - 1) + 1] = assetsList[assetsCount]]
             /\ assetsCount' = assetsCount - 1
    <2>1. k \in 1..n /\ assetsCount \in 1..n /\ (k - 1) + 1 = k BY <1>1
    <2>2. assetsList' = [assetsList EXCEPT ![k] = assetsList[assetsCount]] BY ONLY <1>4, <2>1
    <2>3. assetsList[assetsCount] \in Entry BY ONLY <1>1, <2>1
    <2>4. assetsList' \in Seq(Entry) /\ Len(assetsList') = n BY <1>1, <2>1, <2>2, <2>3
    <2>5. \A i \in 1..n : assetsList'[i] = IF i = k THEN assetsList[assetsCount] ELSE assetsList[i]
      BY <1>1, <2>2
    <2>6. \A i \in 1..n : assetsList'[i].swapType = SwapTypes[assetsList'[i].asset]
      BY ONLY <1>1, <2>1, <2>5
    <2>7. assetsCount' \in 0..n BY ONLY <1>1, <1>4, <2>1
    <2>8. DOMAIN assetsList' = 1..n BY <2>4
    <2>9. TypeOK' BY ONLY IInv, <1>2, <2>4, <2>7 DEF IInv, TypeOK
    <2>10. SwapTypeFollowsAsset' BY ONLY <2>6, <2>8 DEF SwapTypeFollowsAsset
    <2> QED BY ONLY <2>9, <2>10 DEF IInv
  <1> QED BY <1>3, <1>4 DEF unregisterAsset

\* Every step keeps the invariant, spends all it distributes, and splits it fairly.
LEMMA StepKeeps ==
  ASSUME IInv, [Next]_vars
  PROVE  IInv' /\ KeptStep /\ FairStep
  <1>0. /\ exchangeToken \in Stables /\ curvePools \subseteq Stables \X Stables
        /\ balances \in [RewardAssets \cup Stables -> Nat]
        /\ reserve \in [Stables -> [supply: Nat, borrowable: BOOLEAN]]
    BY DEF IInv, TypeOK
  <1> DEFINE Quiet == IInv' /\ KeptStep /\ FairStep
  <1>1. ASSUME UNCHANGED spent PROVE KeptStep /\ FairStep BY ONLY <1>1 DEF KeptStep, FairStep
  <1>2. ASSUME NEW token \in Stables, setExchangeToken(token) PROVE Quiet
    <2>1. UNCHANGED spent BY <1>2 DEF setExchangeToken
    <2>2. IInv' BY <1>2 DEF setExchangeToken, IInv, TypeOK, SwapTypeFollowsAsset
    <2> QED BY <1>1, <2>1, <2>2
  <1>3. ASSUME NEW a \in RewardAssets, registerAsset(a) PROVE Quiet
    <2>1. UNCHANGED spent BY <1>3 DEF registerAsset
    <2>2. IInv' BY ONLY IInv, a \in RewardAssets, <1>3, RegisterKeeps
    <2> QED BY <1>1, <2>1, <2>2
  <1>4. ASSUME NEW i \in 1..assetsCount, unregisterAsset(i - 1) PROVE Quiet
    <2>1. UNCHANGED spent BY <1>4 DEF unregisterAsset
    <2>2. IInv' BY ONLY IInv, i \in 1..assetsCount, <1>4, UnregisterKeeps
    <2> QED BY <1>1, <2>1, <2>2
  <1>5. ASSUME NEW s \in Stables, NEW t \in Stables, setCurvePool(s, t) PROVE Quiet
    <2>1. UNCHANGED spent BY <1>5 DEF setCurvePool
    <2>2. IInv' BY <1>5 DEF setCurvePool, IInv, TypeOK, SwapTypeFollowsAsset
    <2> QED BY <1>1, <2>1, <2>2
  <1>6. ASSUME NEW offset \in 0..Len(assetsList), NEW count \in 0..Len(assetsList),
               NEW loss \in Slippages, distributeYield(offset, count, loss)
        PROVE  Quiet
    <2>1. TypeOK /\ offset \in Nat /\ count \in Nat BY DEF IInv
    <2>2. Distributed /\ UNCHANGED <<assetsList, assetsCount, exchangeToken, curvePools>>
      BY ONLY <2>1, loss \in Slippages, <1>6, Distributes
    <2>3. TypeOK' BY ONLY <2>1, <2>2 DEF TypeOK, Distributed
    <2>4. SwapTypeFollowsAsset' BY ONLY IInv, <2>2 DEF IInv, SwapTypeFollowsAsset
    <2> QED BY ONLY <2>2, <2>3, <2>4 DEF Distributed, IInv
  <1>7. ASSUME NEW a \in RewardAssets, NEW amount \in Yields, VaultSends(a, amount) PROVE Quiet
    <2>1. UNCHANGED spent BY <1>7 DEF VaultSends
    <2>2. amount \in Nat BY YieldManagerAssumption
    <2>3. balances' \in [RewardAssets \cup Stables -> Nat] BY <1>0, <1>7, <2>2 DEF VaultSends
    <2>4. IInv' BY ONLY IInv, <1>7, <2>3 DEF VaultSends, IInv, TypeOK, SwapTypeFollowsAsset
    <2> QED BY <1>1, <2>1, <2>4
  <1>8. ASSUME NEW s \in Stables, NEW supply \in Supplies, NEW b \in BOOLEAN,
               ReserveChanges(s, supply, b)
        PROVE  Quiet
    <2>1. UNCHANGED spent BY <1>8 DEF ReserveChanges
    <2>2. supply \in Nat BY YieldManagerAssumption
    <2>3. reserve' \in [Stables -> [supply: Nat, borrowable: BOOLEAN]]
      BY <1>0, <1>8, <2>2 DEF ReserveChanges
    <2>4. IInv' BY ONLY IInv, <1>8, <2>3 DEF ReserveChanges, IInv, TypeOK, SwapTypeFollowsAsset
    <2> QED BY <1>1, <2>1, <2>4
  <1>9. ASSUME UNCHANGED vars PROVE Quiet
    <2>1. UNCHANGED spent BY <1>9 DEF vars
    <2>2. IInv' BY ONLY IInv, <1>9 DEF vars, IInv, TypeOK, SwapTypeFollowsAsset
    <2> QED BY <1>1, <2>1, <2>2
  <1> HIDE DEF Quiet
  <1>10. ASSUME Next PROVE Quiet
    BY ONLY <1>10, <1>2, <1>3, <1>4, <1>5, <1>6, <1>7, <1>8 DEF Next
  <1>11. Quiet BY ONLY [Next]_vars, <1>9, <1>10
  <1> QED BY <1>11 DEF Quiet

\* The invariant holds at first.
LEMMA AtFirst ==
  ASSUME Init
  PROVE  IInv
  <1>1. Reserves \in Seq(Stables) /\ Reserves # <<>> /\ Supplies \subseteq Nat
    BY YieldManagerAssumption
  <1>2. Reserves[1] \in Stables BY <1>1
  <1>3. curvePools \subseteq Stables \X Stables BY <1>2 DEF Init
  <1>4. reserve \in [Stables -> [supply: Nat, borrowable: BOOLEAN]] BY <1>1 DEF Init
  <1>5. assetsList = <<>> /\ assetsCount = 0 BY DEF Init
  <1>6. assetsList \in Seq(Entry) /\ assetsCount \in 0..Len(assetsList) BY <1>5
  <1>7. TypeOK BY <1>2, <1>3, <1>4, <1>6 DEF Init, TypeOK
  <1>8. SwapTypeFollowsAsset BY <1>5 DEF SwapTypeFollowsAsset
  <1> QED BY ONLY <1>7, <1>8 DEF IInv

\* For any tokens, reserves and amounts the manager's balances, the supplies and the
\* assignments stay natural numbers: a distribution is refused before a part is
\* below zero.
THEOREM ManagerTypes == Spec => []TypeOK
  <1>1. IInv => TypeOK BY DEF IInv
  <1> QED BY <1>1, AtFirst, StepKeeps, PTL DEF Spec

\* However often tokens are registered and removed, each is swapped by the adapter it
\* was registered with.
THEOREM AdapterStaysWithAsset == Spec => []SwapTypeFollowsAsset
  <1>1. IInv => SwapTypeFollowsAsset BY DEF IInv
  <1> QED BY <1>1, AtFirst, StepKeeps, PTL DEF Spec

\* A distribution that reaches a reserve spends every exchange token, with any number
\* of reserves and whatever the percentages round to.
THEOREM EverythingIsSpent == Spec => NothingLeftBehind
  <1>1. IInv /\ [Next]_vars => [spent' # spent => balances'[exchangeToken] = 0]_vars
    BY StepKeeps DEF KeptStep
  <1> QED BY <1>1, AtFirst, StepKeeps, PTL DEF Spec, NothingLeftBehind

\* No reserve gets more than its share of the volume and half a unit; the last one
\* gets at most what truncation and rounding kept from the others on top: for each, one
\* part in PERCENTAGE_FACTOR of the total and half a unit.
THEOREM SplitIsFair == Spec => FairSplit
  <1>1. IInv /\ [Next]_vars => [FairStep]_vars BY StepKeeps
  <1> QED BY <1>1, AtFirst, StepKeeps, PTL DEF Spec, FairSplit
=============================================================================

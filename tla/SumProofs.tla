------------------------------ MODULE SumProofs ------------------------------
(***************************************************************************)
(* Products, quotients and sums of integers: what truncating division      *)
(* loses, and what SumFunctionOnSet computes, for every finite set.  The   *)
(* accounting proofs of the tokens and of the reward distributors rest on  *)
(* these facts.                                                            *)
(*                                                                         *)
(* An induction over finite sets is an argument about a smallest           *)
(* counterexample: a nonempty set of finite sets has one member that none  *)
(* of the others is strictly contained in.                                 *)
(***************************************************************************)
EXTENDS Functions, Integers, FiniteSetTheorems, WellFoundedInduction, TLAPS

\* Euclidean division: the bounds every rounding argument below starts from.
LEMMA DivBounds ==
  ASSUME NEW a \in Nat, NEW b \in Nat \ {0}
  PROVE  /\ a \div b \in Nat
         /\ b * (a \div b) <= a
         /\ a < b * (a \div b) + b
  OBVIOUS

\* A product of naturals is a natural.
LEMMA ProductNat ==
  ASSUME NEW a \in Nat, NEW b \in Nat
  PROVE  a * b \in Nat
  OBVIOUS

\* A product grows with a factor.
LEMMA ProductMono ==
  ASSUME NEW a \in Nat, NEW b \in Nat, NEW k \in Nat, a <= b
  PROVE  k * a <= k * b
  OBVIOUS

\* If q * b <= a then q does not exceed the quotient of a by b.
LEMMA DivLower ==
  ASSUME NEW a \in Nat, NEW b \in Nat \ {0}, NEW q \in Nat, q * b <= a
  PROVE  q <= a \div b
  <1> DEFINE p == a \div b
  <1>1. p \in Nat /\ a < b * p + b BY DivBounds
  <1>2. SUFFICES ASSUME p + 1 <= q PROVE FALSE BY <1>1
  <1>3. b * (p + 1) <= b * q BY <1>1, <1>2, ProductMono
  <1>4. b * (p + 1) = b * p + b BY <1>1
  <1> QED BY <1>1, <1>3, <1>4

-----------------------------------------------------------------------------
\* The element a sum takes first.
First(s) == CHOOSE x \in s : TRUE

\* g is the table of the sums of f over the subsets of T.
IsSums(g, f, T) ==
  g = [s \in SUBSET T |-> IF s = {} THEN 0 ELSE f[First(s)] + g[s \ {First(s)}]]

\* A set of subsets of a finite set that is not empty has a smallest member.
LEMMA SmallestSubset ==
  ASSUME NEW S, IsFiniteSet(S), NEW Bad, Bad \subseteq SUBSET S, Bad # {}
  PROVE  \E T \in Bad : \A U \in Bad : U \subseteq T => U = T
  <1>1. IsWellFoundedOn(StrictSubsetOrdering(S), SUBSET S)
    BY FS_StrictSubsetOrderingWellFounded, FS_FiniteSubsetsOfFinite
  <1>2. PICK T \in Bad : \A U \in Bad : <<U, T>> \notin StrictSubsetOrdering(S)
    BY <1>1, WFMin
  <1>3. ASSUME NEW U \in Bad, U \subseteq T, U # T PROVE FALSE
    <2>1. <<U, T>> \in (SUBSET S) \X (SUBSET S) OBVIOUS
    <2>2. <<U, T>> \in StrictSubsetOrdering(S) BY <1>3, <2>1 DEF StrictSubsetOrdering
    <2> QED BY <1>2, <2>2
  <1> QED BY <1>3

\* First picks a member.
LEMMA FirstIsMember ==
  ASSUME NEW s, s # {}
  PROVE  First(s) \in s
  BY DEF First

\* Two tables agree wherever both are defined.
LEMMA SumsAgree ==
  ASSUME NEW T, NEW U, IsFiniteSet(T), NEW f, NEW g, NEW h, IsSums(g, f, T), IsSums(h, f, U),
         NEW V, V \subseteq T, V \subseteq U
  PROVE  g[V] = h[V]
  <1> DEFINE Bad == {W \in SUBSET T : W \subseteq U /\ g[W] # h[W]}
  <1> SUFFICES ASSUME Bad # {} PROVE FALSE OBVIOUS
  <1>1. PICK W \in Bad : \A X \in Bad : X \subseteq W => X = W
    <2> HIDE DEF Bad
    <2>1. Bad \subseteq SUBSET T BY DEF Bad
    <2> QED BY <2>1, SmallestSubset
  <1>2. g[W] = IF W = {} THEN 0 ELSE f[First(W)] + g[W \ {First(W)}]
    BY <1>1 DEF IsSums
  <1>3. h[W] = IF W = {} THEN 0 ELSE f[First(W)] + h[W \ {First(W)}]
    BY <1>1 DEF IsSums
  <1>4. W # {} BY <1>1, <1>2, <1>3
  <1>5. g[W \ {First(W)}] = h[W \ {First(W)}]
    BY <1>1, <1>4, FirstIsMember
  <1> QED BY <1>1, <1>2, <1>3, <1>5

\* There is such a table.
LEMMA SumsExist ==
  ASSUME NEW S, IsFiniteSet(S), NEW f
  PROVE  \E g : IsSums(g, f, S)
  <1> DEFINE Bad == {T \in SUBSET S : ~\E g : IsSums(g, f, T)}
  <1> SUFFICES ASSUME Bad # {} PROVE FALSE OBVIOUS
  <1>1. PICK T \in Bad : \A X \in Bad : X \subseteq T => X = T
    <2> HIDE DEF Bad
    <2>1. Bad \subseteq SUBSET S BY DEF Bad
    <2> QED BY <2>1, SmallestSubset
  <1> DEFINE table(V) == CHOOSE g : IsSums(g, f, V)
             G == [s \in SUBSET T |-> IF s = {} THEN 0
                                      ELSE f[First(s)] + table(s \ {First(s)})[s \ {First(s)}]]
  <1>2. ASSUME NEW V, V \subseteq T, V # T
        PROVE  IsSums(table(V), f, V) /\ IsFiniteSet(V)
    <2>1. IsFiniteSet(V) BY <1>2, FS_Subset
    <2>2. \E g : IsSums(g, f, V) BY <1>1, <1>2
    <2>3. IsSums(table(V), f, V) BY <2>2
    <2> QED BY <2>1, <2>3
  <1>3. ASSUME NEW V, V \subseteq T, V # T
        PROVE  G[V] = table(V)[V]
    <2>1. table(V)[V] = IF V = {} THEN 0 ELSE f[First(V)] + table(V)[V \ {First(V)}]
      <3>1. IsSums(table(V), f, V) BY <1>2, <1>3
      <3> HIDE DEF table
      <3> QED BY <3>1 DEF IsSums
    <2>2. G[V] = IF V = {} THEN 0 ELSE f[First(V)] + table(V \ {First(V)})[V \ {First(V)}]
      BY <1>3
    <2>3. CASE V = {} BY <2>1, <2>2, <2>3
    <2>4. CASE V # {}
      <3> DEFINE W == V \ {First(V)}
      <3>1. W \subseteq T /\ W # T /\ W \subseteq V BY <1>3
      <3>2. IsSums(table(W), f, W) /\ IsSums(table(V), f, V) /\ IsFiniteSet(W) /\ IsFiniteSet(V)
        BY <3>1, <1>2, <1>3
      <3> HIDE DEF table, W
      <3>3. table(W)[W] = table(V)[W] BY <3>1, <3>2, SumsAgree
      <3> QED BY <2>1, <2>2, <2>4, <3>3 DEF W
    <2> QED BY <2>3, <2>4
  <1>4. G = [s \in SUBSET T |-> IF s = {} THEN 0 ELSE f[First(s)] + G[s \ {First(s)}]]
    <2>1. ASSUME NEW s \in SUBSET T, s # {}
          PROVE  G[s \ {First(s)}] = table(s \ {First(s)})[s \ {First(s)}]
      BY <1>3, <2>1, FirstIsMember
    <2> HIDE DEF table
    <2> QED BY <2>1
  <1>5. IsSums(G, f, T) BY <1>4 DEF IsSums
  <1> QED BY <1>1, <1>5

\* The sum as the last entry of its table.
LEMMA SumIsLastEntry ==
  ASSUME NEW S, IsFiniteSet(S), NEW f
  PROVE  \E g : IsSums(g, f, S) /\ SumFunctionOnSet(f, S) = g[S]
  <1> DEFINE g == CHOOSE g : IsSums(g, f, S)
  <1>1. IsSums(g, f, S) BY SumsExist
  <1>2. SumFunctionOnSet(f, S) = g[S]
    BY DEF SumFunctionOnSet, FoldFunctionOnSet, MapThenFoldSet, IsSums, First
  <1> QED BY <1>1, <1>2

\* Unfolding at the element taken first.
LEMMA SumUnfolds ==
  ASSUME NEW S, IsFiniteSet(S), NEW f
  PROVE  /\ SumFunctionOnSet(f, {}) = 0
         /\ S # {} => SumFunctionOnSet(f, S)
                        = f[First(S)] + SumFunctionOnSet(f, S \ {First(S)})
  <1>1. SumFunctionOnSet(f, {}) = 0
    <2>1. PICK g : IsSums(g, f, {}) /\ SumFunctionOnSet(f, {}) = g[{}]
      BY SumIsLastEntry, FS_EmptySet
    <2> QED BY <2>1 DEF IsSums
  <1>2. ASSUME S # {}
        PROVE  SumFunctionOnSet(f, S) = f[First(S)] + SumFunctionOnSet(f, S \ {First(S)})
    <2> DEFINE R == S \ {First(S)}
    <2>1. PICK g : IsSums(g, f, S) /\ SumFunctionOnSet(f, S) = g[S] BY SumIsLastEntry
    <2>2. IsFiniteSet(R) BY FS_RemoveElement
    <2> HIDE DEF R
    <2>3. PICK h : IsSums(h, f, R) /\ SumFunctionOnSet(f, R) = h[R] BY <2>2, SumIsLastEntry
    <2>4. g[R] = h[R] BY <2>1, <2>3, SumsAgree DEF R
    <2>5. g[S] = f[First(S)] + g[R] BY <1>2, <2>1 DEF IsSums, R
    <2> QED BY <2>1, <2>3, <2>4, <2>5 DEF R
  <1> QED BY <1>1, <1>2

\* A sum of integers is an integer, and any element may be taken first.
LEMMA SumRemove ==
  ASSUME NEW S, IsFiniteSet(S), NEW f, \A x \in S : f[x] \in Int
  PROVE  /\ SumFunctionOnSet(f, S) \in Int
         /\ \A x \in S : SumFunctionOnSet(f, S) = f[x] + SumFunctionOnSet(f, S \ {x})
  <1> DEFINE Good(T) == /\ SumFunctionOnSet(f, T) \in Int
                        /\ \A x \in T : SumFunctionOnSet(f, T) = f[x] + SumFunctionOnSet(f, T \ {x})
             Bad == {T \in SUBSET S : ~Good(T)}
  <1> SUFFICES ASSUME Bad # {} PROVE FALSE OBVIOUS
  <1>1. PICK T \in Bad : \A X \in Bad : X \subseteq T => X = T
    <2> HIDE DEF Bad
    <2>1. Bad \subseteq SUBSET S BY DEF Bad
    <2> QED BY <2>1, SmallestSubset
  <1>2. \A X \in SUBSET T : X # T => Good(X) /\ IsFiniteSet(X)
    <2> SUFFICES ASSUME NEW X \in SUBSET T, X # T PROVE Good(X) /\ IsFiniteSet(X) OBVIOUS
    <2> HIDE DEF Good
    <2> QED BY <1>1, FS_Subset
  <1>3. IsFiniteSet(T) BY <1>1, FS_Subset
  <1>4. T # {}
    <2>1. SumFunctionOnSet(f, {}) = 0 BY FS_EmptySet, SumUnfolds
    <2>2. Good({}) BY <2>1
    <2> QED BY <1>1, <2>2
  <1> DEFINE y == First(T)
  <1>5. y \in T /\ f[y] \in Int BY <1>4, <1>1, FirstIsMember
  <1>6. SumFunctionOnSet(f, T) = f[y] + SumFunctionOnSet(f, T \ {y}) BY <1>3, <1>4, SumUnfolds
  <1> HIDE DEF y
  <1>7. SumFunctionOnSet(f, T) \in Int BY <1>2, <1>5, <1>6
  <1>8. ASSUME NEW x \in T, x # y
        PROVE  SumFunctionOnSet(f, T) = f[x] + SumFunctionOnSet(f, T \ {x})
    <2>1. /\ SumFunctionOnSet(f, T \ {y}) = f[x] + SumFunctionOnSet(f, (T \ {y}) \ {x})
          /\ SumFunctionOnSet(f, T \ {x}) = f[y] + SumFunctionOnSet(f, (T \ {x}) \ {y})
      BY <1>2, <1>5, <1>8
    <2>2. (T \ {y}) \ {x} = (T \ {x}) \ {y} OBVIOUS
    <2>3. SumFunctionOnSet(f, (T \ {y}) \ {x}) \in Int BY <1>2, <1>5
    <2>4. f[x] \in Int BY <1>1
    <2>5. SumFunctionOnSet(f, (T \ {y}) \ {x}) = SumFunctionOnSet(f, (T \ {x}) \ {y}) BY <2>2
    <2> QED BY <1>5, <1>6, <2>1, <2>3, <2>4, <2>5
  <1>9. Good(T) BY <1>6, <1>7, <1>8
  <1> QED BY <1>1, <1>9

\* Sums are pointwise: equal terms make equal sums, smaller terms smaller ones.
LEMMA SumMonotonic ==
  ASSUME NEW S, IsFiniteSet(S), NEW f, NEW g, \A x \in S : f[x] \in Int /\ g[x] \in Int,
         \A x \in S : f[x] <= g[x]
  PROVE  SumFunctionOnSet(f, S) <= SumFunctionOnSet(g, S)
  <1> DEFINE Bad == {T \in SUBSET S : ~(SumFunctionOnSet(f, T) <= SumFunctionOnSet(g, T))}
  <1> SUFFICES ASSUME Bad # {} PROVE FALSE OBVIOUS
  <1>1. PICK T \in Bad : \A X \in Bad : X \subseteq T => X = T
    <2> HIDE DEF Bad
    <2>1. Bad \subseteq SUBSET S BY DEF Bad
    <2> QED BY <2>1, SmallestSubset
  <1>2. IsFiniteSet(T) BY <1>1, FS_Subset
  <1>3. T # {}
    <2>1. SumFunctionOnSet(f, {}) = 0 /\ SumFunctionOnSet(g, {}) = 0 BY FS_EmptySet, SumUnfolds
    <2>2. {} \notin Bad BY <2>1
    <2> QED BY <1>1, <2>2
  <1>4. PICK x \in T : TRUE BY <1>3
  <1>5. IsFiniteSet(T \ {x}) BY <1>2, FS_RemoveElement
  <1>6. /\ SumFunctionOnSet(f, T) = f[x] + SumFunctionOnSet(f, T \ {x})
        /\ SumFunctionOnSet(g, T) = g[x] + SumFunctionOnSet(g, T \ {x})
    BY <1>1, <1>2, SumRemove
  <1>7. SumFunctionOnSet(f, T \ {x}) \in Int /\ SumFunctionOnSet(g, T \ {x}) \in Int
    BY <1>1, <1>5, SumRemove
  <1>8. SumFunctionOnSet(f, T \ {x}) <= SumFunctionOnSet(g, T \ {x}) BY <1>1
  <1>9. f[x] \in Int /\ g[x] \in Int /\ f[x] <= g[x] BY <1>1
  <1> QED BY <1>1, <1>6, <1>7, <1>8, <1>9

\* Functions that agree on the set have the same sum.
LEMMA SumEqual ==
  ASSUME NEW S, IsFiniteSet(S), NEW f, NEW g, \A x \in S : f[x] \in Int /\ g[x] = f[x]
  PROVE  SumFunctionOnSet(g, S) = SumFunctionOnSet(f, S)
  <1>1. SumFunctionOnSet(f, S) \in Int /\ SumFunctionOnSet(g, S) \in Int BY SumRemove
  <1>2. SumFunctionOnSet(f, S) <= SumFunctionOnSet(g, S) BY SumMonotonic
  <1>3. SumFunctionOnSet(g, S) <= SumFunctionOnSet(f, S) BY SumMonotonic
  <1> QED BY <1>1, <1>2, <1>3

\* A sum of naturals is one, at least as large as each of them; of zeros it is zero.
LEMMA SumNat ==
  ASSUME NEW S, IsFiniteSet(S), NEW f, \A x \in S : f[x] \in Nat
  PROVE  /\ SumFunctionOnSet(f, S) \in Nat
         /\ \A x \in S : f[x] <= SumFunctionOnSet(f, S)
  <1>1. \A T \in SUBSET S : SumFunctionOnSet(f, T) \in Nat
    <2> DEFINE Bad == {T \in SUBSET S : SumFunctionOnSet(f, T) \notin Nat}
    <2> SUFFICES ASSUME Bad # {} PROVE FALSE OBVIOUS
    <2>1. PICK T \in Bad : \A X \in Bad : X \subseteq T => X = T
      <3> HIDE DEF Bad
      <3>1. Bad \subseteq SUBSET S BY DEF Bad
      <3> QED BY <3>1, SmallestSubset
    <2>2. T # {}
      <3>1. SumFunctionOnSet(f, {}) = 0 BY FS_EmptySet, SumUnfolds
      <3>2. {} \notin Bad BY <3>1
      <3> QED BY <2>1, <3>2
    <2>3. PICK x \in T : TRUE BY <2>2
    <2>4. SumFunctionOnSet(f, T) = f[x] + SumFunctionOnSet(f, T \ {x})
      <3>1. IsFiniteSet(T) BY <2>1, FS_Subset
      <3>2. \A y \in T : f[y] \in Int BY <2>1
      <3> QED BY <3>1, <3>2, SumRemove
    <2>5. SumFunctionOnSet(f, T \ {x}) \in Nat /\ f[x] \in Nat BY <2>1
    <2> QED BY <2>1, <2>4, <2>5
  <1>2. ASSUME NEW x \in S PROVE f[x] <= SumFunctionOnSet(f, S)
    <2>1. SumFunctionOnSet(f, S) = f[x] + SumFunctionOnSet(f, S \ {x}) BY SumRemove
    <2>2. SumFunctionOnSet(f, S \ {x}) \in Nat BY <1>1
    <2> QED BY <2>1, <2>2
  <1> QED BY <1>1, <1>2

\* A sum changes by what its only changed term changes by.
LEMMA SumChange ==
  ASSUME NEW S, IsFiniteSet(S), NEW f, NEW g, NEW x \in S,
         \A y \in S : f[y] \in Int, g[x] \in Int, \A y \in S \ {x} : g[y] = f[y]
  PROVE  SumFunctionOnSet(g, S) = SumFunctionOnSet(f, S) - f[x] + g[x]
  <1>1. IsFiniteSet(S \ {x}) BY FS_RemoveElement
  <1>2. SumFunctionOnSet(g, S \ {x}) = SumFunctionOnSet(f, S \ {x}) BY <1>1, SumEqual
  <1>3. \A y \in S : g[y] \in Int OBVIOUS
  <1>4. SumFunctionOnSet(f, S) = f[x] + SumFunctionOnSet(f, S \ {x}) BY SumRemove
  <1>5. SumFunctionOnSet(g, S) = g[x] + SumFunctionOnSet(g, S \ {x}) BY <1>3, SumRemove
  <1>6. SumFunctionOnSet(f, S \ {x}) \in Int BY <1>1, SumRemove
  <1> QED BY <1>2, <1>4, <1>5, <1>6

\* The sum of sums.
LEMMA SumAdd ==
  ASSUME NEW S, IsFiniteSet(S), NEW f, NEW g, NEW h,
         \A x \in S : f[x] \in Int /\ g[x] \in Int /\ h[x] = f[x] + g[x]
  PROVE  SumFunctionOnSet(h, S) = SumFunctionOnSet(f, S) + SumFunctionOnSet(g, S)
  <1> DEFINE Bad == {T \in SUBSET S : SumFunctionOnSet(h, T)
                                        # SumFunctionOnSet(f, T) + SumFunctionOnSet(g, T)}
  <1> SUFFICES ASSUME Bad # {} PROVE FALSE OBVIOUS
  <1>1. PICK T \in Bad : \A X \in Bad : X \subseteq T => X = T
    <2> HIDE DEF Bad
    <2>1. Bad \subseteq SUBSET S BY DEF Bad
    <2> QED BY <2>1, SmallestSubset
  <1>2. IsFiniteSet(T) BY <1>1, FS_Subset
  <1>3. T # {}
    <2>1. /\ SumFunctionOnSet(f, {}) = 0 /\ SumFunctionOnSet(g, {}) = 0
          /\ SumFunctionOnSet(h, {}) = 0
      BY FS_EmptySet, SumUnfolds
    <2>2. {} \notin Bad BY <2>1
    <2> QED BY <1>1, <2>2
  <1>4. PICK x \in T : TRUE BY <1>3
  <1>5. IsFiniteSet(T \ {x}) BY <1>2, FS_RemoveElement
  <1>6. /\ SumFunctionOnSet(f, T) = f[x] + SumFunctionOnSet(f, T \ {x})
        /\ SumFunctionOnSet(g, T) = g[x] + SumFunctionOnSet(g, T \ {x})
    BY <1>1, <1>2, SumRemove
  <1>7. /\ SumFunctionOnSet(f, T \ {x}) \in Int /\ SumFunctionOnSet(g, T \ {x}) \in Int
    BY <1>1, <1>5, SumRemove
  <1>8. \A y \in S : h[y] \in Int OBVIOUS
  <1>9. SumFunctionOnSet(h, T) = h[x] + SumFunctionOnSet(h, T \ {x}) BY <1>1, <1>2, <1>8, SumRemove
  <1>10. SumFunctionOnSet(h, T \ {x}) = SumFunctionOnSet(f, T \ {x}) + SumFunctionOnSet(g, T \ {x})
    BY <1>1
  <1>11. f[x] \in Int /\ g[x] \in Int /\ h[x] = f[x] + g[x] BY <1>1
  <1> QED BY <1>1, <1>6, <1>7, <1>9, <1>10, <1>11

\* A sum of multiples.
LEMMA SumScale ==
  ASSUME NEW S, IsFiniteSet(S), NEW f, NEW h, NEW k \in Int,
         \A x \in S : f[x] \in Int /\ h[x] = k * f[x]
  PROVE  SumFunctionOnSet(h, S) = k * SumFunctionOnSet(f, S)
  <1> DEFINE Bad == {T \in SUBSET S : SumFunctionOnSet(h, T) # k * SumFunctionOnSet(f, T)}
  <1> SUFFICES ASSUME Bad # {} PROVE FALSE OBVIOUS
  <1>1. PICK T \in Bad : \A X \in Bad : X \subseteq T => X = T
    <2> HIDE DEF Bad
    <2>1. Bad \subseteq SUBSET S BY DEF Bad
    <2> QED BY <2>1, SmallestSubset
  <1>2. IsFiniteSet(T) BY <1>1, FS_Subset
  <1>3. \A y \in S : h[y] \in Int OBVIOUS
  <1>4. T # {}
    <2>1. SumFunctionOnSet(f, {}) = 0 /\ SumFunctionOnSet(h, {}) = 0 BY FS_EmptySet, SumUnfolds
    <2>2. {} \notin Bad BY <2>1
    <2> QED BY <1>1, <2>2
  <1>5. PICK x \in T : TRUE BY <1>4
  <1>6. SumFunctionOnSet(f, T) = f[x] + SumFunctionOnSet(f, T \ {x}) BY <1>1, <1>2, SumRemove
  <1>7. SumFunctionOnSet(h, T) = h[x] + SumFunctionOnSet(h, T \ {x})
    BY <1>1, <1>2, <1>3, SumRemove
  <1>8. SumFunctionOnSet(h, T \ {x}) = k * SumFunctionOnSet(f, T \ {x}) BY <1>1
  <1>9. IsFiniteSet(T \ {x}) BY <1>2, FS_RemoveElement
  <1>10. SumFunctionOnSet(f, T \ {x}) \in Int BY <1>1, <1>9, SumRemove
  <1>11. f[x] \in Int /\ h[x] = k * f[x] BY <1>1
  <1>12. \A m, n \in Int : k * m + k * n = k * (m + n) OBVIOUS
  <1> QED BY <1>1, <1>6, <1>7, <1>8, <1>10, <1>11, <1>12

\* Nothing but zeros adds up to zero.
LEMMA SumZero ==
  ASSUME NEW S, IsFiniteSet(S), NEW f, \A x \in S : f[x] = 0
  PROVE  SumFunctionOnSet(f, S) = 0
  <1>1. \A x \in S : f[x] \in Int /\ f[x] = f[x] + f[x] OBVIOUS
  <1>2. SumFunctionOnSet(f, S) = SumFunctionOnSet(f, S) + SumFunctionOnSet(f, S)
    BY <1>1, SumAdd
  <1>3. SumFunctionOnSet(f, S) \in Int BY <1>1, SumRemove
  <1>4. \A n \in Int : n = n + n => n = 0 OBVIOUS
  <1> QED BY <1>2, <1>3, <1>4, Zenon

\* Two entries of a table set anew.
LEMMA SumChangeTwo ==
  ASSUME NEW S, IsFiniteSet(S), NEW f, NEW g, NEW x \in S, NEW y \in S, x # y,
         \A z \in S : f[z] \in Int, g[x] \in Int, g[y] \in Int,
         \A z \in S \ {x, y} : g[z] = f[z]
  PROVE  SumFunctionOnSet(g, S) = SumFunctionOnSet(f, S) - f[x] + g[x] - f[y] + g[y]
  <1> DEFINE h == [z \in S |-> IF z = x THEN g[x] ELSE f[z]]
  <1>1. /\ h[x] = g[x] /\ h[x] \in Int /\ \A z \in S \ {x} : h[z] = f[z]
        /\ h[y] = f[y] /\ g[y] \in Int /\ \A z \in S \ {y} : g[z] = h[z]
        /\ \A z \in S : h[z] \in Int
    OBVIOUS
  <1> HIDE DEF h
  <1>2. SumFunctionOnSet(h, S) = SumFunctionOnSet(f, S) - f[x] + h[x] BY <1>1, SumChange
  <1>3. SumFunctionOnSet(g, S) = SumFunctionOnSet(h, S) - h[y] + g[y]
    <2>1. /\ g[y] \in Int /\ \A z \in S : h[z] \in Int
          /\ \A z \in S \ {y} : g[z] = h[z]
      BY <1>1
    <2> QED BY ONLY <2>1, SumChange, IsFiniteSet(S), y \in S
  <1>4. SumFunctionOnSet(f, S) \in Int /\ f[x] \in Int /\ f[y] \in Int BY SumRemove
  <1> QED BY <1>1, <1>2, <1>3, <1>4

\* Equal entries add up to their number times the entry.
LEMMA SumConstant ==
  ASSUME NEW S, IsFiniteSet(S), NEW f, NEW c \in Int, \A x \in S : f[x] = c
  PROVE  SumFunctionOnSet(f, S) = c * Cardinality(S)
  <1> DEFINE Bad == {T \in SUBSET S : SumFunctionOnSet(f, T) # c * Cardinality(T)}
  <1> SUFFICES ASSUME Bad # {} PROVE FALSE OBVIOUS
  <1>1. PICK T \in Bad : \A X \in Bad : X \subseteq T => X = T
    <2> HIDE DEF Bad
    <2>1. Bad \subseteq SUBSET S BY DEF Bad
    <2> QED BY <2>1, SmallestSubset
  <1>2. IsFiniteSet(T) BY <1>1, FS_Subset
  <1>3. \A y \in S : f[y] \in Int OBVIOUS
  <1>4. T # {}
    <2>1. SumFunctionOnSet(f, {}) = 0 /\ Cardinality({}) = 0 BY FS_EmptySet, SumUnfolds
    <2>2. {} \notin Bad BY <2>1
    <2> QED BY <1>1, <2>2
  <1>5. PICK x \in T : TRUE BY <1>4
  <1>6. SumFunctionOnSet(f, T) = c + SumFunctionOnSet(f, T \ {x})
    BY <1>1, <1>2, <1>3, SumRemove
  <1>7. SumFunctionOnSet(f, T \ {x}) = c * Cardinality(T \ {x}) BY <1>1
  <1>8. Cardinality(T \ {x}) = Cardinality(T) - 1 BY <1>2, FS_RemoveElement
  <1>9. Cardinality(T) \in Int BY <1>2, FS_CardinalityType
  <1>10. \A m \in Int : c + c * (m - 1) = c * m OBVIOUS
  <1>11. SumFunctionOnSet(f, T) = c * Cardinality(T) BY ONLY <1>6, <1>7, <1>8, <1>9, <1>10
  <1> QED BY <1>1, <1>11

\* Entries that are zero need not be added.
LEMMA SumSupport ==
  ASSUME NEW S, IsFiniteSet(S), NEW B, B \subseteq S, NEW f, \A x \in S : f[x] \in Int,
         \A x \in S \ B : f[x] = 0
  PROVE  SumFunctionOnSet(f, S) = SumFunctionOnSet(f, B)
  <1> DEFINE Bad == {T \in SUBSET S : SumFunctionOnSet(f, T) # SumFunctionOnSet(f, T \cap B)}
  <1>0. ASSUME Bad # {} PROVE FALSE
    <2>1. PICK T \in Bad : \A X \in Bad : X \subseteq T => X = T
      <3> HIDE DEF Bad
      <3>1. Bad \subseteq SUBSET S BY DEF Bad
      <3> QED BY <1>0, <3>1, SmallestSubset
    <2>2. IsFiniteSet(T) /\ IsFiniteSet(T \cap B) BY <2>1, FS_Subset
    <2>3. T # {}
      <3>1. {} \cap B = {} OBVIOUS
      <3>2. {} \notin Bad BY <3>1
      <3> QED BY <2>1, <3>2
    <2>4. PICK x \in T : TRUE BY <2>3
    <2>5. SumFunctionOnSet(f, T) = f[x] + SumFunctionOnSet(f, T \ {x}) BY <2>1, <2>2, SumRemove
    <2>6. SumFunctionOnSet(f, T \ {x}) = SumFunctionOnSet(f, (T \ {x}) \cap B) BY <2>1
    <2>7. CASE x \in B
      <3>1. (T \ {x}) \cap B = (T \cap B) \ {x} /\ x \in T \cap B BY <2>7
      <3>2. SumFunctionOnSet(f, T \cap B) = f[x] + SumFunctionOnSet(f, (T \cap B) \ {x})
        BY <2>1, <2>2, <3>1, SumRemove
      <3> QED BY <2>1, <2>5, <2>6, <3>1, <3>2
    <2>8. CASE x \notin B
      <3>1. (T \ {x}) \cap B = T \cap B BY <2>8
      <3>2. f[x] = 0 BY <2>1, <2>8
      <3>3. SumFunctionOnSet(f, T \cap B) \in Int BY <2>1, <2>2, SumRemove
      <3> QED BY <2>1, <2>5, <2>6, <3>1, <3>2, <3>3
    <2> QED BY <2>7, <2>8
  <1>1. S \notin Bad BY <1>0
  <1>2. S \cap B = B OBVIOUS
  <1> QED BY <1>1, <1>2

\* A nonempty finite set of integers has a greatest member.
LEMMA GreatestMember ==
  ASSUME NEW S, IsFiniteSet(S), S \subseteq Int, S # {}
  PROVE  \E x \in S : \A y \in S : x >= y
  <1> DEFINE Above(i) == {j \in S : j > i}
             Bad == {Above(i) : i \in S}
  <1>1. Bad \subseteq SUBSET S /\ Bad # {} OBVIOUS
  <1> HIDE DEF Bad
  <1>2. PICK T \in Bad : \A U \in Bad : U \subseteq T => U = T
    BY ONLY IsFiniteSet(S), <1>1, SmallestSubset
  <1> USE DEF Bad
  <1>3. PICK i \in S : T = Above(i) BY <1>2
  <1>4. ASSUME NEW j \in S, j > i PROVE FALSE
    <2>1. Above(j) \in Bad OBVIOUS
    <2>2. Above(j) \subseteq T
      <3>1. \A k \in S : k > j => k > i BY ONLY S \subseteq Int, i \in S, <1>4
      <3> QED BY <1>3, <3>1
    <2>3. Above(j) = T BY <1>2, <2>1, <2>2
    <2>4. j \in T BY <1>3, <1>4
    <2> QED BY <2>3, <2>4
  <1> QED BY <1>4
=============================================================================

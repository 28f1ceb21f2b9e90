-------------------------- MODULE IncentivesProofs --------------------------
(***************************************************************************)
(* No distributor promises more than its emission released, and no call    *)
(* takes rewards from anybody, for any number of users and distributors.   *)
(*                                                                         *)
(* Two things the code permits break both and are excluded by hypothesis:  *)
(* an emission of zero (movements are then ignored: the run zero_emission) *)
(* and a movement of the token while a distributor that has an emission is *)
(* not in the adapter's list, so that the movement is not announced to it. *)
(***************************************************************************)
EXTENDS IncentivesController, SumProofs

\* The token moves while every stable distributor with an emission is listed, and so
\* hears of it.  The order in which a distributor is configured and listed is free.
MovesAnnounced ==
  staked' # staked =>
    \A d \in StableDistributors :
      assets[d].emissionPerSecond = 0 \/ d \in Range(sDistributors)

\* The index of the asset a at time t, for any supply.
IndexAt(a, total, t) ==
  IF \/ a.emissionPerSecond = 0
     \/ total = 0
     \/ a.lastUpdateTimestamp = t
     \/ a.lastUpdateTimestamp >= a.distributionEnd
  THEN a.index
  ELSE a.index + (a.emissionPerSecond
                    * ((IF t > a.distributionEnd THEN a.distributionEnd ELSE t)
                         - a.lastUpdateTimestamp) * PRECISION) \div total

\* All that user u is credited by a, in units of 1 / PRECISION: what was claimed
\* (c), what is unclaimed, and the exact share of the growth not yet settled.
Credits(a, c, s) ==
  [u \in Users |-> PRECISION * (c[u] + a.unclaimed[u]) + s[u] * (a.index - a.users[u])]

\* The credits, with the emission since the last update, are within what was emitted.
Sound(a, c, s, em, t) ==
  /\ a.lastUpdateTimestamp <= t
  /\ \A u \in Users : a.users[u] <= a.index
  /\ a.emissionPerSecond = 0 => a.index = 0
  /\ SumFunctionOnSet(Credits(a, c, s), Users)
       + PRECISION * (a.emissionPerSecond * (t - a.lastUpdateTimestamp)) <= PRECISION * em

\* What the view shows every user, with what was claimed.
Views(a, c, s, t) ==
  [u \in Users |-> c[u] + (a.unclaimed[u]
                     + getRewards(s[u], IndexAt(a, SumFunctionOnSet(s, Users), t), a.users[u]))]

IInv ==
  /\ TypeOK
  /\ \A d \in Distributors : Sound(assets[d], claimed[d], staked, emitted[d], now)
-----------------------------------------------------------------------------
(* The arithmetic of one distributor *)

\* Rewards of a growth of the index: whole units, never more than the exact share.
LEMMA GrowthRoundsDown ==
  ASSUME NEW s \in Nat, NEW i \in Nat, NEW j \in Nat, i <= j
  PROVE  /\ getRewards(s, j, i) \in Nat
         /\ PRECISION * getRewards(s, j, i) <= s * (j - i)
         /\ s * (j - i) \in Nat
         /\ getRewards(s, i, i) = 0
  <1>1. j - i \in Nat OBVIOUS
  <1>2. s * (j - i) \in Nat BY <1>1, ProductNat
  <1> DEFINE p == s * (j - i)
  <1> HIDE DEF p
  <1>3. p \div PRECISION \in Nat /\ PRECISION * (p \div PRECISION) <= p
    <2>1. p \in Nat BY <1>2 DEF p
    <2> QED BY <2>1, ControllerAssumption, DivBounds
  <1>4. getRewards(s, j, i) = p \div PRECISION BY DEF getRewards, p
  <1>5. getRewards(s, i, i) = 0
    <2>1. s * (i - i) = 0 OBVIOUS
    <2>2. 0 \div PRECISION = 0 BY ControllerAssumption
    <2> QED BY <2>1, <2>2 DEF getRewards
  <1> QED BY <1>2, <1>3, <1>4, <1>5 DEF p

\* A larger index is never worth less.
LEMMA GrowthMono ==
  ASSUME NEW s \in Nat, NEW i \in Nat, NEW j \in Nat, NEW k \in Nat, i <= j, j <= k
  PROVE  getRewards(s, j, i) <= getRewards(s, k, i)
  <1> DEFINE p == s * (j - i)
             q == s * (k - i)
             w == p \div PRECISION
  <1>1. j - i \in Nat /\ k - i \in Nat /\ j - i <= k - i OBVIOUS
  <1>2. p \in Nat /\ q \in Nat /\ p <= q BY <1>1, ProductNat, ProductMono
  <1>3. getRewards(s, j, i) = w /\ getRewards(s, k, i) = q \div PRECISION BY DEF getRewards
  <1> HIDE DEF p, q
  <1>4. w \in Nat /\ PRECISION * w <= p /\ PRECISION \in Nat \ {0}
    BY <1>2, ControllerAssumption, DivBounds
  <1> HIDE DEF w
  <1>5. w * PRECISION \in Nat /\ w * PRECISION = PRECISION * w BY <1>4, ProductNat
  <1>6. w * PRECISION <= q BY <1>2, <1>4, <1>5
  <1>7. w <= q \div PRECISION BY ONLY <1>2, <1>4, <1>6, DivLower
  <1> QED BY <1>3, <1>7

\* The index never falls, and rises by at most what the emission since the last
\* update pays for.
LEMMA IndexRises ==
  ASSUME NEW a \in AssetData, NEW total \in Nat, NEW t \in Nat, a.lastUpdateTimestamp <= t
  PROVE  /\ IndexAt(a, total, t) \in Nat
         /\ a.index <= IndexAt(a, total, t)
         /\ total * (IndexAt(a, total, t) - a.index)
              <= PRECISION * (a.emissionPerSecond * (t - a.lastUpdateTimestamp))
         /\ a.emissionPerSecond = 0 \/ a.lastUpdateTimestamp = t
              => IndexAt(a, total, t) = a.index
  <1> DEFINE e == a.emissionPerSecond
             last == a.lastUpdateTimestamp
             end == a.distributionEnd
             cur == IF t > end THEN end ELSE t
             x == a.index
             i == IndexAt(a, total, t)
             stays == e = 0 \/ total = 0 \/ last = t \/ last >= end
             sum == e * (cur - last) * PRECISION
             all == PRECISION * (e * (t - last))
             rise == sum \div total
  <1>1. /\ e \in Nat /\ last \in Nat /\ end \in Nat /\ x \in Nat /\ PRECISION \in Nat
    BY ControllerAssumption DEF AssetData
  <1>2. all \in Nat
    <2>1. t - last \in Nat BY <1>1
    <2>2. e * (t - last) \in Nat BY <1>1, <2>1, ProductNat
    <2> QED BY <1>1, <2>2, ProductNat
  <1>3. CASE stays
    <2>1. i = x BY <1>3 DEF IndexAt
    <2>2. x - x = 0 /\ total * 0 = 0 BY <1>1
    <2> QED BY <1>1, <1>2, <2>1, <2>2
  <1>4. CASE ~stays
    <2>1. i = x + rise BY <1>4 DEF IndexAt
    <2>2. cur - last \in Nat /\ cur - last <= t - last /\ t - last \in Nat /\ total \in Nat \ {0}
      BY <1>1, <1>4
    <2> DEFINE k == cur - last
               m == t - last
    <2>3. k \in Nat /\ m \in Nat /\ k <= m BY <2>2
    <2> HIDE DEF k, m
    <2>4. /\ e * k \in Nat /\ e * m \in Nat /\ e * k <= e * m BY <1>1, <2>3, ProductNat, ProductMono
    <2>5. /\ PRECISION * (e * k) \in Nat /\ PRECISION * (e * k) <= PRECISION * (e * m)
      BY <1>1, <2>4, ProductNat, ProductMono
    <2>6. PRECISION * (e * k) = e * k * PRECISION BY <1>1, <2>4
    <2>7. sum \in Nat /\ sum <= all BY <2>5, <2>6 DEF k, m
    <2> HIDE DEF sum, all, stays
    <2>8. rise \in Nat /\ total * rise <= sum BY <2>2, <2>7, DivBounds
    <2> HIDE DEF rise, i
    <2>9. i - x = rise /\ i \in Nat /\ x <= i BY <1>1, <2>1, <2>8
    <2>10. total * rise \in Nat BY <2>2, <2>8, ProductNat
    <2>11. total * (i - x) <= all BY <1>2, <2>7, <2>8, <2>9, <2>10
    <2> QED BY <1>4, <2>9, <2>11 DEF stays, i, all
  <1> QED BY <1>3, <1>4

\* Time only adds to it.
LEMMA IndexMono ==
  ASSUME NEW a \in AssetData, NEW total \in Nat, NEW t \in Nat, a.lastUpdateTimestamp <= t
  PROVE  IndexAt(a, total, t) <= IndexAt(a, total, t + 1)
  <1> DEFINE e == a.emissionPerSecond
             last == a.lastUpdateTimestamp
             end == a.distributionEnd
             k == (IF t > end THEN end ELSE t) - last
             m == (IF t + 1 > end THEN end ELSE t + 1) - last
             p == e * k * PRECISION
             q == e * m * PRECISION
             w == p \div total
             v == q \div total
  <1>1. /\ e \in Nat /\ last \in Nat /\ end \in Nat /\ a.index \in Nat /\ PRECISION \in Nat
        /\ t + 1 \in Nat /\ last <= t + 1
    BY ControllerAssumption DEF AssetData
  <1>2. CASE e = 0 \/ total = 0 \/ last = t \/ last >= end
    <2>1. IndexAt(a, total, t) = a.index BY <1>2 DEF IndexAt
    <2>2. a.index <= IndexAt(a, total, t + 1)
      <3> DEFINE n == t + 1
      <3>1. n \in Nat /\ a.lastUpdateTimestamp <= n BY <1>1
      <3> HIDE DEF n
      <3>2. a.index <= IndexAt(a, total, n) BY <3>1, IndexRises
      <3> QED BY <3>2 DEF n
    <2> QED BY <2>1, <2>2
  <1>3. CASE ~(e = 0 \/ total = 0 \/ last = t \/ last >= end)
    <2>1. last # t + 1 BY <1>1
    <2>2. IndexAt(a, total, t) = a.index + w /\ IndexAt(a, total, t + 1) = a.index + v
      BY <1>3, <2>1 DEF IndexAt
    <2>3. k \in Nat /\ m \in Nat /\ k <= m /\ total \in Nat \ {0} BY <1>1, <1>3
    <2> HIDE DEF k, m
    <2>4. e * k \in Nat /\ e * m \in Nat /\ e * k <= e * m BY <1>1, <2>3, ProductNat, ProductMono
    <2>5. /\ PRECISION * (e * k) <= PRECISION * (e * m)
          /\ PRECISION * (e * k) \in Nat /\ PRECISION * (e * m) \in Nat
      BY <1>1, <2>4, ProductMono, ProductNat
    <2>6. p = PRECISION * (e * k) /\ q = PRECISION * (e * m) BY <1>1, <2>4
    <2>7. p \in Nat /\ q \in Nat /\ p <= q BY <2>5, <2>6
    <2> HIDE DEF p, q
    <2>8. w \in Nat /\ v \in Nat /\ total * w <= p BY <2>3, <2>7, DivBounds
    <2> HIDE DEF w
    <2>9. w * total = total * w /\ total * w \in Nat BY <2>3, <2>8, ProductNat
    <2>10. w * total <= q BY <2>7, <2>8, <2>9
    <2>11. w <= q \div total BY ONLY <2>3, <2>7, <2>8, <2>10, DivLower
    <2> HIDE DEF v
    <2> QED BY <1>1, <2>2, <2>8, <2>11 DEF v
  <1> QED BY <1>2, <1>3

\* Credits are natural numbers.
LEMMA CreditsNat ==
  ASSUME NEW a \in AssetData, NEW c \in [Users -> Nat], NEW s \in [Users -> Nat],
         NEW j \in Nat, \A u \in Users : a.users[u] <= j
  PROVE  \A u \in Users : /\ PRECISION * (c[u] + a.unclaimed[u]) \in Nat
                          /\ s[u] * (j - a.users[u]) \in Nat
  <1> SUFFICES ASSUME NEW u \in Users
               PROVE  /\ PRECISION * (c[u] + a.unclaimed[u]) \in Nat
                      /\ s[u] * (j - a.users[u]) \in Nat
    OBVIOUS
  <1>1. /\ c[u] \in Nat /\ a.unclaimed[u] \in Nat /\ s[u] \in Nat /\ a.users[u] \in Nat
        /\ PRECISION \in Nat
    BY ControllerAssumption DEF AssetData
  <1>2. c[u] + a.unclaimed[u] \in Nat /\ j - a.users[u] \in Nat BY <1>1
  <1> QED BY <1>1, <1>2, ProductNat

\* An update of the index, whatever it settles on the way: sound as long as nobody
\* is credited more than the share of the growth.
LEMMA UpdateSound ==
  ASSUME NEW a \in AssetData, NEW n \in AssetData, NEW s \in [Users -> Nat],
         NEW c \in [Users -> Nat], NEW c2 \in [Users -> Nat], NEW em \in Nat, NEW t \in Nat,
         Sound(a, c, s, em, t), n.lastUpdateTimestamp = t,
         n.index = IndexAt(a, SumFunctionOnSet(s, Users), t),
         n.emissionPerSecond = 0 => n.index = 0,
         \A u \in Users :
           /\ n.users[u] <= n.index
           /\ Credits(n, c2, s)[u]
                <= PRECISION * (c[u] + a.unclaimed[u]) + s[u] * (n.index - a.users[u])
  PROVE  Sound(n, c2, s, em, t)
  <1> DEFINE j == n.index
             x == a.index
             total == SumFunctionOnSet(s, Users)
             grown == [u \in Users |-> PRECISION * (c[u] + a.unclaimed[u]) + s[u] * (j - a.users[u])]
             old == Credits(a, c, s)
             new == Credits(n, c2, s)
             rise == [u \in Users |-> (j - x) * s[u]]
             all == PRECISION * (a.emissionPerSecond * (t - a.lastUpdateTimestamp))
  <1>1. IsFiniteSet(Users) /\ PRECISION \in Nat BY ControllerAssumption
  <1>2. \A u \in Users : s[u] \in Nat OBVIOUS
  <1>3. total \in Nat BY <1>1, <1>2, SumNat
  <1>4. /\ a.lastUpdateTimestamp <= t /\ \A u \in Users : a.users[u] <= a.index
        /\ SumFunctionOnSet(old, Users) + all <= PRECISION * em
    BY DEF Sound
  <1>5. j \in Nat /\ x \in Nat /\ x <= j /\ total * (j - x) <= all
    <2>1. x \in Nat BY DEF AssetData
    <2> HIDE DEF total
    <2>2. /\ IndexAt(a, total, t) \in Nat /\ x <= IndexAt(a, total, t)
          /\ total * (IndexAt(a, total, t) - x) <= all
      BY <1>3, <1>4, IndexRises
    <2> QED BY <2>1, <2>2 DEF total
  <1>6. \A u \in Users : a.users[u] \in Nat /\ a.users[u] <= x /\ a.users[u] <= j
    BY <1>4, <1>5 DEF AssetData
  <1>7. \A u \in Users : old[u] \in Int /\ grown[u] \in Int /\ rise[u] \in Int
                         /\ new[u] \in Int /\ grown[u] = old[u] + rise[u]
    <2> SUFFICES ASSUME NEW u \in Users
                 PROVE  old[u] \in Int /\ grown[u] \in Int /\ rise[u] \in Int
                        /\ new[u] \in Int /\ grown[u] = old[u] + rise[u]
      OBVIOUS
    <2> DEFINE w == PRECISION * (c[u] + a.unclaimed[u])
               b == a.users[u]
               m == s[u]
    <2>1. w \in Nat /\ b \in Nat /\ m \in Nat /\ m * (x - b) \in Nat /\ m * (j - b) \in Nat
      <3>1. \A v \in Users : /\ PRECISION * (c[v] + a.unclaimed[v]) \in Nat
                             /\ s[v] * (x - a.users[v]) \in Nat
        BY <1>5, <1>6, CreditsNat
      <3>2. \A v \in Users : s[v] * (j - a.users[v]) \in Nat
        BY <1>5, <1>6, CreditsNat
      <3> QED BY <1>2, <1>6, <3>1, <3>2
    <2>2. old[u] = w + m * (x - b) /\ grown[u] = w + m * (j - b) /\ rise[u] = (j - x) * m
      BY DEF Credits
    <2>3. new[u] \in Int
      <3>1. \A v \in Users : /\ PRECISION * (c2[v] + n.unclaimed[v]) \in Nat
                             /\ s[v] * (j - n.users[v]) \in Nat
        BY <1>5, CreditsNat
      <3> QED BY <3>1 DEF Credits
    <2> HIDE DEF w, b, m, j, x, old, grown, rise, new
    <2>4. m * (j - b) = m * (x - b) + (j - x) * m BY <1>5, <2>1
    <2>5. (j - x) * m \in Int BY <1>5, <2>1
    <2> QED BY ONLY <2>1, <2>2, <2>3, <2>4, <2>5
  <1>8. \A u \in Users : new[u] <= grown[u] OBVIOUS
  <1> HIDE DEF old, new, grown
  <1>9. SumFunctionOnSet(grown, Users) = SumFunctionOnSet(old, Users) + SumFunctionOnSet(rise, Users)
    <2> HIDE DEF rise
    <2> QED BY ONLY <1>1, <1>7, SumAdd
  <1>10. SumFunctionOnSet(rise, Users) = (j - x) * total
    <2>1. j - x \in Int BY <1>5
    <2>2. \A u \in Users : s[u] \in Int /\ rise[u] = (j - x) * s[u] BY <1>2
    <2> DEFINE k == j - x
    <2> HIDE DEF rise, k
    <2> QED BY ONLY <1>1, <2>1, <2>2, SumScale DEF k
  <1>11. SumFunctionOnSet(new, Users) <= SumFunctionOnSet(grown, Users)
    BY ONLY <1>1, <1>7, <1>8, SumMonotonic
  <1>12. /\ SumFunctionOnSet(old, Users) \in Int /\ SumFunctionOnSet(new, Users) \in Int
         /\ SumFunctionOnSet(grown, Users) \in Int
    BY ONLY <1>1, <1>7, SumRemove
  <1>13. (j - x) * total = total * (j - x) /\ total * (j - x) \in Int
    <2> HIDE DEF j, x, total
    <2> QED BY <1>3, <1>5
  <1>14. all \in Int /\ PRECISION * em \in Int
    <2>1. a.emissionPerSecond \in Nat /\ a.lastUpdateTimestamp \in Nat BY DEF AssetData
    <2>2. t - a.lastUpdateTimestamp \in Int BY <2>1
    <2>3. a.emissionPerSecond * (t - a.lastUpdateTimestamp) \in Int BY <2>1, <2>2
    <2> QED BY <1>1, <2>3
  <1> DEFINE So == SumFunctionOnSet(old, Users)
             Sn == SumFunctionOnSet(new, Users)
             Sg == SumFunctionOnSet(grown, Users)
             Pe == PRECISION * em
  <1>15. Sn <= Pe
    <2>1. Sg = So + (total * (j - x)) BY <1>9, <1>10, <1>13
    <2>2. So + all <= Pe /\ Sn <= Sg /\ total * (j - x) <= all BY <1>4, <1>5, <1>11
    <2>3. So \in Int /\ Sn \in Int /\ Sg \in Int /\ Pe \in Int BY <1>12, <1>14
    <2> HIDE DEF So, Sn, Sg, Pe, all, total, j, x
    <2> QED BY ONLY <1>13, <1>14, <2>1, <2>2, <2>3
  <1>16. PRECISION * (n.emissionPerSecond * (t - n.lastUpdateTimestamp)) = 0
    <2>1. n.emissionPerSecond \in Nat /\ t - n.lastUpdateTimestamp = 0 BY DEF AssetData
    <2>2. n.emissionPerSecond * 0 = 0 /\ PRECISION * 0 = 0 BY <1>1, <2>1
    <2> QED BY <2>1, <2>2
  <1>17. SumFunctionOnSet(Credits(n, c2, s), Users) + 0 <= PRECISION * em
    BY <1>12, <1>15 DEF new
  <1> QED BY <1>16, <1>17 DEF Sound

\* The stakes of those who are settled may change.
LEMMA StakeSound ==
  ASSUME NEW a \in AssetData, NEW c \in [Users -> Nat], NEW s \in [Users -> Nat],
         NEW s2 \in [Users -> Nat], NEW em, NEW t, Sound(a, c, s, em, t),
         \A u \in Users : s2[u] = s[u] \/ a.users[u] = a.index
  PROVE  Sound(a, c, s2, em, t)
  <1>1. Credits(a, c, s2) = Credits(a, c, s)
    <2>1. ASSUME NEW u \in Users
          PROVE  s2[u] * (a.index - a.users[u]) = s[u] * (a.index - a.users[u])
      <3>1. CASE s2[u] = s[u] BY <3>1
      <3>2. CASE a.users[u] = a.index
        <4>1. a.index - a.users[u] = 0 /\ s[u] \in Nat /\ s2[u] \in Nat BY <3>2 DEF AssetData
        <4> QED BY <4>1
      <3> QED BY <3>1, <3>2
    <2> QED BY <2>1 DEF Credits
  <1> QED BY <1>1 DEF Sound

\* A second passes: the emission is released and not yet accounted for.
LEMMA TimeSound ==
  ASSUME NEW a \in AssetData, NEW c \in [Users -> Nat], NEW s \in [Users -> Nat],
         NEW em \in Nat, NEW t \in Nat, Sound(a, c, s, em, t),
         NEW em2, em2 = em + a.emissionPerSecond, NEW t2, t2 = t + 1
  PROVE  Sound(a, c, s, em2, t2)
  <1> DEFINE e == a.emissionPerSecond
             last == a.lastUpdateTimestamp
             k == t - last
             S == SumFunctionOnSet(Credits(a, c, s), Users)
  <1>1. e \in Nat /\ last \in Nat /\ PRECISION \in Nat /\ IsFiniteSet(Users)
    BY ControllerAssumption DEF AssetData
  <1>2. last <= t /\ S + PRECISION * (e * k) <= PRECISION * em BY DEF Sound
  <1>3. k \in Int /\ t + 1 - last = k + 1 BY <1>1
  <1>4. S \in Int
    <2>1. /\ a.index \in Nat /\ \A u \in Users : a.users[u] <= a.index
      BY DEF Sound, AssetData
    <2>2. \A u \in Users : /\ PRECISION * (c[u] + a.unclaimed[u]) \in Nat
                           /\ s[u] * (a.index - a.users[u]) \in Nat
      BY <2>1, CreditsNat
    <2>3. \A u \in Users : Credits(a, c, s)[u] \in Int BY <2>2 DEF Credits
    <2> QED BY <1>1, <2>3, SumRemove
  <1> HIDE DEF S, k, e, last
  <1>5. e * (k + 1) = e * k + e /\ e * k \in Int BY ONLY <1>1, <1>3
  <1>6. /\ PRECISION * (e * k + e) = PRECISION * (e * k) + PRECISION * e
        /\ PRECISION * (em + e) = PRECISION * em + PRECISION * e
        /\ PRECISION * (e * k) \in Int /\ PRECISION * e \in Int /\ PRECISION * em \in Int
    BY <1>1, <1>5
  <1>7. S + PRECISION * (e * (k + 1)) <= PRECISION * (em + e)
    BY ONLY <1>2, <1>4, <1>5, <1>6
  <1>8. last <= t + 1 BY <1>1, <1>2
  <1>9. S + PRECISION * (e * (t2 - last)) <= PRECISION * em2
    <2>1. t2 - last = k + 1 BY ONLY t2 = t + 1, t \in Nat, <1>1, <1>3
    <2>2. em2 = em + e BY DEF e
    <2> QED BY ONLY <1>7, <2>1, <2>2
  <1>10. /\ \A u \in Users : a.users[u] <= a.index
         /\ a.emissionPerSecond = 0 => a.index = 0
    BY DEF Sound
  <1>11. /\ a.lastUpdateTimestamp <= t2
         /\ SumFunctionOnSet(Credits(a, c, s), Users)
              + PRECISION * (a.emissionPerSecond * (t2 - a.lastUpdateTimestamp))
                <= PRECISION * em2
    <2>1. last <= t2 BY <1>8
    <2> QED BY ONLY <1>9, <2>1 DEF S, e, last
  <1> QED BY ONLY <1>10, <1>11 DEF Sound

\* What the views show is within the credits, and so within what was emitted.
LEMMA ViewsBounded ==
  ASSUME NEW a \in AssetData, NEW c \in [Users -> Nat], NEW s \in [Users -> Nat],
         NEW em \in Nat, NEW t \in Nat, Sound(a, c, s, em, t)
  PROVE  /\ SumFunctionOnSet(Views(a, c, s, t), Users) <= em
         /\ \A u \in Users : Views(a, c, s, t)[u] \in Nat
  <1> DEFINE total == SumFunctionOnSet(s, Users)
             j == IndexAt(a, total, t)
             x == a.index
             all == PRECISION * (a.emissionPerSecond * (t - a.lastUpdateTimestamp))
             old == Credits(a, c, s)
             grown == [u \in Users |-> PRECISION * (c[u] + a.unclaimed[u]) + s[u] * (j - a.users[u])]
             rise == [u \in Users |-> (j - x) * s[u]]
             view == Views(a, c, s, t)
             scaled == [u \in Users |-> PRECISION * view[u]]
  <1>1. IsFiniteSet(Users) /\ PRECISION \in Nat \ {0} BY ControllerAssumption
  <1>2. \A u \in Users : s[u] \in Nat OBVIOUS
  <1>3. total \in Nat BY <1>1, <1>2, SumNat
  <1>4. /\ a.lastUpdateTimestamp <= t /\ \A u \in Users : a.users[u] <= a.index
        /\ SumFunctionOnSet(old, Users) + all <= PRECISION * em
    BY DEF Sound
  <1>5. j \in Nat /\ x \in Nat /\ x <= j /\ total * (j - x) <= all
    <2>1. x \in Nat BY DEF AssetData
    <2> HIDE DEF total
    <2>2. j \in Nat /\ x <= j /\ total * (j - x) <= all BY <1>3, <1>4, IndexRises
    <2> QED BY <2>1, <2>2
  <1>6. \A u \in Users : a.users[u] \in Nat /\ a.users[u] <= x /\ a.users[u] <= j
    BY <1>4, <1>5 DEF AssetData
  <1>7. \A u \in Users : /\ old[u] \in Int /\ grown[u] \in Int /\ rise[u] \in Int
                         /\ grown[u] = old[u] + rise[u] /\ view[u] \in Nat
                         /\ scaled[u] \in Nat /\ scaled[u] = PRECISION * view[u]
                         /\ scaled[u] <= grown[u]
    <2> SUFFICES ASSUME NEW u \in Users
                 PROVE  /\ old[u] \in Int /\ grown[u] \in Int /\ rise[u] \in Int
                        /\ grown[u] = old[u] + rise[u] /\ view[u] \in Nat
                        /\ scaled[u] \in Nat /\ scaled[u] = PRECISION * view[u]
                        /\ scaled[u] <= grown[u]
      OBVIOUS
    <2> DEFINE w == c[u] + a.unclaimed[u]
               b == a.users[u]
               m == s[u]
               g == getRewards(m, j, b)
    <2>1. /\ PRECISION * w \in Nat /\ b \in Nat /\ m \in Nat /\ m * (x - b) \in Nat
          /\ m * (j - b) \in Nat /\ w \in Nat
      <3>1. \A v \in Users : /\ PRECISION * (c[v] + a.unclaimed[v]) \in Nat
                             /\ s[v] * (x - a.users[v]) \in Nat
        BY <1>5, <1>6, CreditsNat
      <3>2. \A v \in Users : s[v] * (j - a.users[v]) \in Nat
        BY <1>5, <1>6, CreditsNat
      <3>3. w \in Nat BY DEF AssetData
      <3> QED BY <1>2, <1>6, <3>1, <3>2, <3>3
    <2>2. /\ old[u] = PRECISION * w + m * (x - b) /\ grown[u] = PRECISION * w + m * (j - b)
          /\ rise[u] = (j - x) * m /\ scaled[u] = PRECISION * view[u]
      BY DEF Credits
    <2>3. view[u] = w + g
      <3>1. view[u] = c[u] + (a.unclaimed[u] + g) BY DEF Views
      <3>2. c[u] \in Nat /\ a.unclaimed[u] \in Nat BY DEF AssetData
      <3>3. g \in Nat
        <4> HIDE DEF j
        <4> QED BY <1>5, <1>6, <2>1, GrowthRoundsDown
      <3> HIDE DEF g, view
      <3> QED BY <3>1, <3>2, <3>3
    <2>4. b <= j BY <1>6
    <2> HIDE DEF w, b, m, j, x, old, grown, rise, view, scaled
    <2>5. g \in Nat /\ PRECISION * g <= m * (j - b) BY ONLY <1>5, <2>1, <2>4, GrowthRoundsDown DEF g
    <2> HIDE DEF g
    <2>6. m * (j - b) = m * (x - b) + (j - x) * m BY <1>5, <2>1
    <2>7. (j - x) * m \in Int BY <1>5, <2>1
    <2>8. PRECISION * (w + g) = PRECISION * w + PRECISION * g /\ PRECISION * g \in Nat
      BY <1>1, <2>1, <2>5, ProductNat
    <2> QED BY ONLY <2>1, <2>2, <2>3, <2>5, <2>6, <2>7, <2>8
  <1> HIDE DEF old, grown, view, scaled
  <1>8. SumFunctionOnSet(grown, Users) = SumFunctionOnSet(old, Users) + SumFunctionOnSet(rise, Users)
    <2> HIDE DEF rise
    <2> QED BY ONLY <1>1, <1>7, SumAdd
  <1>9. SumFunctionOnSet(rise, Users) = (j - x) * total
    <2>1. j - x \in Int BY <1>5
    <2>2. \A u \in Users : s[u] \in Int /\ rise[u] = (j - x) * s[u] BY <1>2
    <2> DEFINE k == j - x
    <2> HIDE DEF rise, k
    <2> QED BY ONLY <1>1, <2>1, <2>2, SumScale DEF k
  <1>10. SumFunctionOnSet(scaled, Users) <= SumFunctionOnSet(grown, Users)
    BY ONLY <1>1, <1>7, SumMonotonic
  <1> DEFINE V == SumFunctionOnSet(view, Users)
             So == SumFunctionOnSet(old, Users)
             Sg == SumFunctionOnSet(grown, Users)
  <1>11. SumFunctionOnSet(scaled, Users) = PRECISION * V
    <2>1. PRECISION \in Int BY <1>1
    <2> QED BY ONLY <1>1, <1>7, <2>1, SumScale
  <1>12. So \in Int /\ Sg \in Int BY ONLY <1>1, <1>7, SumRemove
  <1>13. V \in Nat BY ONLY <1>1, <1>7, SumNat
  <1>14. (j - x) * total = total * (j - x) /\ total * (j - x) \in Int
    <2> HIDE DEF j, x, total
    <2> QED BY <1>3, <1>5
  <1>15. all \in Int
    <2>1. a.emissionPerSecond \in Nat /\ a.lastUpdateTimestamp \in Nat BY DEF AssetData
    <2>2. t - a.lastUpdateTimestamp \in Int BY <2>1
    <2>3. a.emissionPerSecond * (t - a.lastUpdateTimestamp) \in Int BY <2>1, <2>2
    <2> QED BY <1>1, <2>3
  <1>16. PRECISION * V <= PRECISION * em
    <2>1. Sg = So + (total * (j - x)) BY <1>8, <1>9, <1>14
    <2>2. So + all <= PRECISION * em /\ PRECISION * V <= Sg /\ total * (j - x) <= all
      BY <1>4, <1>5, <1>10, <1>11
    <2>3. PRECISION * V \in Int /\ PRECISION * em \in Int
      <3> HIDE DEF V
      <3> QED BY <1>1, <1>13
    <2> HIDE DEF So, Sg, V, all, total, j, x
    <2> QED BY ONLY <1>12, <1>14, <1>15, <2>1, <2>2, <2>3
  <1>17. V <= em
    <2> HIDE DEF V
    <2> SUFFICES ASSUME em + 1 <= V PROVE FALSE BY <1>13
    <2>1. em + 1 \in Nat /\ PRECISION \in Nat BY <1>1
    <2>2. PRECISION * (em + 1) <= PRECISION * V BY ONLY <1>13, <2>1, em + 1 <= V, ProductMono
    <2>3. /\ PRECISION * (em + 1) = PRECISION * em + PRECISION
          /\ PRECISION * em \in Int /\ PRECISION * V \in Int
      BY <1>1, <1>13
    <2> QED BY ONLY <1>1, <1>16, <2>2, <2>3
  <1> QED BY <1>7, <1>17 DEF view

\* From a to n, with the claims c2 and the stakes s2 after it: the index is brought
\* up to date, and a user is settled or left alone.
Settles(a, n, c, c2, s, s2, t) ==
  /\ n.lastUpdateTimestamp = t
  /\ n.index = IndexAt(a, SumFunctionOnSet(s, Users), t)
  /\ \A u \in Users :
       \/ /\ n.users[u] = n.index
          /\ c2[u] + n.unclaimed[u]
               = c[u] + (a.unclaimed[u] + getRewards(s[u], n.index, a.users[u]))
       \/ /\ n.users[u] = a.users[u] /\ n.unclaimed[u] = a.unclaimed[u]
          /\ c2[u] = c[u] /\ s2[u] = s[u]

\* Such a step is sound, and shows every user what the view showed before it.
LEMMA SettlingKeeps ==
  ASSUME NEW a \in AssetData, NEW n \in AssetData, NEW s \in [Users -> Nat],
         NEW s2 \in [Users -> Nat], NEW c \in [Users -> Nat], NEW c2 \in [Users -> Nat],
         NEW em \in Nat, NEW t \in Nat, Sound(a, c, s, em, t), Settles(a, n, c, c2, s, s2, t),
         n.emissionPerSecond = 0 => n.index = 0
  PROVE  /\ Sound(n, c2, s2, em, t)
         /\ \A u \in Users : Views(n, c2, s2, t)[u] = Views(a, c, s, t)[u]
  <1> DEFINE total == SumFunctionOnSet(s, Users)
             j == n.index
  <1>1. IsFiniteSet(Users) /\ PRECISION \in Nat BY ControllerAssumption
  <1>2. total \in Nat
    <2>1. \A u \in Users : s[u] \in Nat OBVIOUS
    <2> QED BY <1>1, <2>1, SumNat
  <1>3. a.lastUpdateTimestamp <= t /\ \A u \in Users : a.users[u] <= a.index BY DEF Sound
  <1>4. j \in Nat /\ a.index \in Nat /\ a.index <= j
    <2>1. a.index \in Nat BY DEF AssetData
    <2>2. j = IndexAt(a, total, t) BY DEF Settles
    <2> HIDE DEF total, j
    <2>3. IndexAt(a, total, t) \in Nat /\ a.index <= IndexAt(a, total, t)
      BY <1>2, <1>3, IndexRises
    <2> QED BY <2>1, <2>2, <2>3
  <1>5. ASSUME NEW u \in Users
        PROVE  /\ n.users[u] <= j
               /\ s2[u] = s[u] \/ n.users[u] = j
               /\ Credits(n, c2, s)[u]
                    <= PRECISION * (c[u] + a.unclaimed[u]) + s[u] * (j - a.users[u])
               /\ Views(n, c2, s2, t)[u] = Views(a, c, s, t)[u]
    <2> DEFINE b == a.users[u]
               m == s[u]
               g == getRewards(m, j, b)
               w == c[u] + a.unclaimed[u]
               x == c2[u] + n.unclaimed[u]
    <2>1. /\ b \in Nat /\ m \in Nat /\ c[u] \in Nat /\ a.unclaimed[u] \in Nat /\ b <= j
          /\ c2[u] \in Nat /\ n.unclaimed[u] \in Nat /\ s2[u] \in Nat
      BY <1>3, <1>4 DEF AssetData
    <2>2. /\ g \in Nat /\ PRECISION * g <= m * (j - b) /\ m * (j - b) \in Nat
          /\ getRewards(s2[u], j, j) = 0
      <3> HIDE DEF j, b, m
      <3>1. /\ g \in Nat /\ PRECISION * g <= m * (j - b) /\ m * (j - b) \in Nat
        BY ONLY <1>4, <2>1, GrowthRoundsDown
      <3>2. getRewards(s2[u], j, j) = 0
        <4> DEFINE q == s2[u]
        <4>1. q \in Nat BY <2>1
        <4>2. j <= j BY <1>4
        <4> HIDE DEF q
        <4>3. getRewards(q, j, j) = 0 BY ONLY <1>4, <4>1, <4>2, GrowthRoundsDown
        <4> QED BY <4>3 DEF q
      <3> QED BY <3>1, <3>2
    <2>3. \/ n.users[u] = j /\ x = c[u] + (a.unclaimed[u] + g)
          \/ /\ n.users[u] = b /\ n.unclaimed[u] = a.unclaimed[u] /\ c2[u] = c[u]
             /\ s2[u] = m
      BY DEF Settles
    <2>4. Views(n, c2, s2, t)[u] = c2[u] + (n.unclaimed[u] + getRewards(s2[u], j, n.users[u]))
      <3>1. n.lastUpdateTimestamp = t BY DEF Settles
      <3>2. IndexAt(n, SumFunctionOnSet(s2, Users), t) = j BY <3>1 DEF IndexAt
      <3> QED BY <3>2 DEF Views
    <2>5. Views(a, c, s, t)[u] = c[u] + (a.unclaimed[u] + g)
      <3>1. j = IndexAt(a, total, t) BY DEF Settles
      <3> QED BY <3>1 DEF Views
    <2>6. Credits(n, c2, s)[u] = PRECISION * x + m * (j - n.users[u]) BY DEF Credits
    <2>7. CASE n.users[u] = j /\ x = c[u] + (a.unclaimed[u] + g)
      <3>1. m * (j - n.users[u]) = 0
        <4>1. j - n.users[u] = 0 BY <1>4, <2>7
        <4> HIDE DEF m, j
        <4> QED BY <2>1, <4>1
      <3>2. x = w + g BY <2>1, <2>2, <2>7
      <3>3. w \in Nat BY <2>1
      <3> HIDE DEF x, w, g, m, b, j
      <3>4. /\ PRECISION * (w + g) = PRECISION * w + PRECISION * g
            /\ PRECISION * w \in Int /\ PRECISION * g \in Int
        BY <1>1, <2>2, <3>3
      <3>5. Credits(n, c2, s)[u] <= PRECISION * w + m * (j - b)
        BY ONLY <2>2, <2>6, <3>1, <3>2, <3>4
      <3>6. Views(n, c2, s2, t)[u] = x
        <4>1. x = c2[u] + n.unclaimed[u] /\ c2[u] \in Nat /\ n.unclaimed[u] \in Nat
          BY <2>1 DEF x
        <4>2. n.users[u] = j BY <2>7
        <4> QED BY ONLY <2>2, <2>4, <4>1, <4>2
      <3>7. n.users[u] = j /\ j <= j BY <1>4, <2>7
      <3> QED BY <2>5, <2>7, <3>5, <3>6, <3>7 DEF w, m, b
    <2>8. CASE /\ n.users[u] = b /\ n.unclaimed[u] = a.unclaimed[u] /\ c2[u] = c[u]
               /\ s2[u] = m
      <3>1. Credits(n, c2, s)[u] = PRECISION * w + m * (j - b) BY <2>6, <2>8
      <3>2. PRECISION * w + m * (j - b) \in Int
        <4>1. w \in Nat BY <2>1
        <4> HIDE DEF w, m, b, j
        <4>2. PRECISION * w \in Int BY <1>1, <4>1
        <4> QED BY <2>2, <4>2
      <3>3. Credits(n, c2, s)[u] <= PRECISION * w + m * (j - b)
        <4> DEFINE q == PRECISION * w + m * (j - b)
        <4>1. Credits(n, c2, s)[u] = q /\ q \in Int BY <3>1, <3>2
        <4> HIDE DEF q
        <4>2. Credits(n, c2, s)[u] <= q BY <4>1
        <4> QED BY <4>2 DEF q
      <3>4. Views(n, c2, s2, t)[u] = Views(a, c, s, t)[u] BY <2>4, <2>5, <2>8
      <3> QED BY <2>1, <2>8, <3>3, <3>4
    <2> QED BY <2>3, <2>7, <2>8
  <1>6. Sound(n, c2, s, em, t)
    <2>1. n.lastUpdateTimestamp = t /\ n.index = IndexAt(a, SumFunctionOnSet(s, Users), t)
      BY DEF Settles
    <2>2. \A u \in Users :
            /\ n.users[u] <= n.index
            /\ Credits(n, c2, s)[u]
                 <= PRECISION * (c[u] + a.unclaimed[u]) + s[u] * (n.index - a.users[u])
      BY <1>5
    <2> QED BY <2>1, <2>2, UpdateSound
  <1>7. Sound(n, c2, s2, em, t)
    <2>1. \A u \in Users : s2[u] = s[u] \/ n.users[u] = n.index BY <1>5
    <2> QED BY <1>6, <2>1, StakeSound
  <1> QED BY <1>5, <1>7
-----------------------------------------------------------------------------
(* The steps *)

\* The distributor d stays sound through a step, and nobody's view falls.
StepKept(d) ==
  /\ Sound(assets'[d], claimed'[d], staked', emitted'[d], now')
  /\ assets'[d].distributionEnd = assets[d].distributionEnd =>
       \A u \in Users : Views(assets'[d], claimed'[d], staked', now')[u]
                          >= Views(assets[d], claimed[d], staked, now)[u]

Kept == TypeOK' /\ \A d \in Distributors : StepKept(d)

\* The index of the code is the index at the present time.
LEMMA IndexNow ==
  ASSUME NEW a, NEW total
  PROVE  getAssetIndex(a, total) = IndexAt(a, total, now)
  BY DEF getAssetIndex, IndexAt

\* What the invariant says of one distributor.
LEMMA OneDistributor ==
  ASSUME IInv, NEW d \in Distributors
  PROVE  /\ assets[d] \in AssetData /\ claimed[d] \in [Users -> Nat] /\ staked \in [Users -> Nat]
         /\ emitted[d] \in Nat /\ now \in Nat
         /\ Sound(assets[d], claimed[d], staked, emitted[d], now)
         /\ scaledTotalSupply \in Nat /\ scaledTotalSupply = SumFunctionOnSet(staked, Users)
         /\ assets[d].lastUpdateTimestamp <= now
         /\ \A u \in Users : assets[d].users[u] <= assets[d].index
  <1>1. /\ assets[d] \in AssetData /\ claimed[d] \in [Users -> Nat] /\ staked \in [Users -> Nat]
        /\ emitted[d] \in Nat /\ now \in Nat
        /\ Sound(assets[d], claimed[d], staked, emitted[d], now)
    BY DEF IInv, TypeOK
  <1>2. scaledTotalSupply = SumFunctionOnSet(staked, Users) BY DEF scaledTotalSupply
  <1>3. scaledTotalSupply \in Nat
    <2>1. IsFiniteSet(Users) /\ \A u \in Users : staked[u] \in Nat BY <1>1, ControllerAssumption
    <2> QED BY <1>2, <2>1, SumNat
  <1>4. /\ assets[d].lastUpdateTimestamp <= now
        /\ \A u \in Users : assets[d].users[u] <= assets[d].index
    BY <1>1 DEF Sound
  <1> QED BY <1>1, <1>2, <1>3, <1>4

\* A distributor whose emission is zero has no growth anybody could be paid for.
LEMMA Dormant ==
  ASSUME NEW a \in AssetData, NEW c \in [Users -> Nat], NEW s \in [Users -> Nat],
         NEW s2 \in [Users -> Nat], NEW em, NEW t, Sound(a, c, s, em, t),
         a.emissionPerSecond = 0
  PROVE  /\ Sound(a, c, s2, em, t)
         /\ \A u \in Users : Views(a, c, s2, t)[u] = Views(a, c, s, t)[u]
  <1>1. \A u \in Users : a.users[u] = 0 /\ a.index = 0 BY DEF Sound, AssetData
  <1>2. Sound(a, c, s2, em, t)
    <2>1. \A u \in Users : s2[u] = s[u] \/ a.users[u] = a.index BY <1>1
    <2> QED BY <2>1, StakeSound
  <1>3. ASSUME NEW u \in Users PROVE Views(a, c, s2, t)[u] = Views(a, c, s, t)[u]
    <2>1. \A total : IndexAt(a, total, t) = 0 BY <1>1 DEF IndexAt
    <2>2. s[u] \in Nat /\ s2[u] \in Nat OBVIOUS
    <2> DEFINE p == s[u]
               q == s2[u]
               z == 0
    <2> HIDE DEF p, q, z
    <2>3. p \in Nat /\ q \in Nat /\ z \in Nat /\ z <= z BY <2>2 DEF p, q, z
    <2>4. getRewards(p, z, z) = 0 BY ONLY <2>3, GrowthRoundsDown
    <2>5. getRewards(q, z, z) = 0 BY ONLY <2>3, GrowthRoundsDown
    <2> QED BY <1>1, <2>1, <2>4, <2>5 DEF Views, p, q, z
  <1> QED BY <1>2, <1>3

\* The distributor d is left alone, and had nothing to settle.
Untouched(d) ==
  assets'[d] = assets[d] /\ (assets[d].emissionPerSecond = 0 \/ staked' = staked)

\* A movement of the token: every distributor with an emission has settled those
\* whose stake changes, the others have nothing to settle.
LEMMA MovementKept ==
  ASSUME IInv, staked' \in [Users -> Nat], assets' \in [Distributors -> AssetData],
         UNCHANGED <<now, sDistributors, sCount, claimed, emitted>>,
         \A d \in Distributors : assets'[d].emissionPerSecond = assets[d].emissionPerSecond,
         \A d \in Distributors :
           \/ Untouched(d)
           \/ /\ assets[d].emissionPerSecond # 0
              /\ Settles(assets[d], assets'[d], claimed[d], claimed[d], staked, staked', now)
  PROVE  Kept
  <1>1. TypeOK' BY DEF IInv, TypeOK
  <1>3. ASSUME NEW d \in Distributors PROVE StepKept(d)
    <2> DEFINE a == assets[d]
               n == assets'[d]
               c == claimed[d]
               em == emitted[d]
               s2 == staked'
    <2>1. /\ a \in AssetData /\ c \in [Users -> Nat] /\ staked \in [Users -> Nat]
          /\ em \in Nat /\ now \in Nat /\ Sound(a, c, staked, em, now)
      BY OneDistributor
    <2>2. n \in AssetData /\ s2 \in [Users -> Nat] OBVIOUS
    <2>3. claimed'[d] = c /\ emitted'[d] = em /\ now' = now OBVIOUS
    <2>4. /\ n.emissionPerSecond = a.emissionPerSecond
          /\ \/ n = a /\ (a.emissionPerSecond = 0 \/ s2 = staked)
             \/ a.emissionPerSecond # 0 /\ Settles(a, n, c, c, staked, s2, now)
      BY DEF Untouched
    <2> HIDE DEF a, n, c, em, s2
    <2>5. /\ Sound(n, c, s2, em, now)
          /\ \A u \in Users : Views(n, c, s2, now)[u] = Views(a, c, staked, now)[u]
      <3>1. CASE n = a /\ a.emissionPerSecond = 0
        <4>1. /\ Sound(a, c, s2, em, now)
              /\ \A u \in Users : Views(a, c, s2, now)[u] = Views(a, c, staked, now)[u]
          BY ONLY <2>1, <2>2, <3>1, Dormant
        <4> QED BY ONLY <3>1, <4>1
      <3>2. CASE n = a /\ s2 = staked BY ONLY <2>1, <3>2
      <3>3. CASE a.emissionPerSecond # 0 /\ Settles(a, n, c, c, staked, s2, now)
        <4>1. n.emissionPerSecond = 0 => n.index = 0 BY <2>4, <3>3
        <4>2. Settles(a, n, c, c, staked, s2, now) BY <3>3
        <4>3. /\ a \in AssetData /\ n \in AssetData /\ staked \in [Users -> Nat] /\ s2 \in [Users -> Nat]
              /\ c \in [Users -> Nat] /\ em \in Nat /\ now \in Nat /\ Sound(a, c, staked, em, now)
          BY <2>1, <2>2
        <4>4. Sound(n, c, s2, em, now) BY ONLY <4>1, <4>2, <4>3, SettlingKeeps
        <4>5. \A u \in Users : Views(n, c, s2, now)[u] = Views(a, c, staked, now)[u]
          BY ONLY <4>1, <4>2, <4>3, SettlingKeeps
        <4> QED BY <4>4, <4>5
      <3> QED BY <2>4, <3>1, <3>2, <3>3
    <2>6. \A u \in Users : Views(a, c, staked, now)[u] \in Nat
      BY ONLY <2>1, ViewsBounded
    <2>7. \A u \in Users : Views(n, c, s2, now)[u] >= Views(a, c, staked, now)[u]
      BY <2>5, <2>6
    <2> QED BY <2>3, <2>5, <2>7 DEF StepKept, a, n, c, em, s2
  <1> QED BY <1>1, <1>3 DEF Kept

\* n is a brought up to date, and user u, whose stake is b, settled.
SettledOne(a, n, u, b, total) ==
  /\ n \in AssetData
  /\ n.emissionPerSecond = a.emissionPerSecond
  /\ n.lastUpdateTimestamp = now
  /\ n.index = IndexAt(a, total, now) /\ a.index <= n.index
  /\ n.users[u] = n.index
  /\ n.unclaimed[u] = a.unclaimed[u] + getRewards(b, n.index, a.users[u])
  /\ \A v \in Users \ {u} : n.users[v] = a.users[v] /\ n.unclaimed[v] = a.unclaimed[v]

\* updateUserAsset brings the asset up to date and settles one user.
LEMMA UserUpdated ==
  ASSUME NEW a \in AssetData, NEW u \in Users, NEW b \in Nat, NEW total \in Nat, now \in Nat,
         a.lastUpdateTimestamp <= now, a.users[u] <= a.index, IndexFits(a, total),
         NEW n, n = updateUserAsset(a, u, b, total)
  PROVE  SettledOne(a, n, u, b, total)
  <1> DEFINE i == getAssetIndex(a, total)
             g == getRewards(b, i, a.users[u])
             r == a.unclaimed[u] + g
             m == [a EXCEPT !.index = i, !.lastUpdateTimestamp = now]
  <1>1. i = IndexAt(a, total, now) /\ i <= MAX_INDEX BY IndexNow DEF IndexFits
  <1>2. i \in Nat /\ a.index <= i BY <1>1, IndexRises
  <1>3. a.index \in Nat /\ a.users[u] \in Nat /\ a.unclaimed[u] \in Nat /\ MAX_INDEX \in Nat
    BY ControllerAssumption DEF AssetData
  <1>4. i \in 0..MAX_INDEX BY <1>1, <1>2, <1>3
  <1> HIDE DEF i
  <1>5. g \in Nat
    <2> DEFINE o == a.users[u]
    <2>1. o \in Nat /\ o <= i BY <1>2, <1>3
    <2> HIDE DEF o
    <2>2. getRewards(b, i, o) \in Nat BY <1>2, <2>1, GrowthRoundsDown
    <2> QED BY <2>2 DEF o
  <1>6. r \in Nat BY <1>3, <1>5
  <1>7. /\ m \in AssetData /\ m.users = a.users /\ m.unclaimed = a.unclaimed /\ m.index = i
        /\ m.lastUpdateTimestamp = now /\ m.emissionPerSecond = a.emissionPerSecond
    BY <1>4 DEF AssetData
  <1>8. n = [m EXCEPT !.users[u] = i, !.unclaimed[u] = r]
    <2>1. m.unclaimed[u] + g = r BY <1>7
    <2> QED BY <2>1 DEF updateUserAsset, updateAssetState, i
  <1> HIDE DEF m, r
  <1>9. n \in AssetData
    <2> DEFINE us == [m.users EXCEPT ![u] = i]
               un == [m.unclaimed EXCEPT ![u] = r]
    <2>1. us \in [Users -> Nat] /\ un \in [Users -> Nat] BY <1>2, <1>6, <1>7 DEF AssetData
    <2>2. n = [m EXCEPT !.users = us, !.unclaimed = un] BY <1>8
    <2> HIDE DEF us, un
    <2> QED BY <1>7, <2>1, <2>2 DEF AssetData
  <1>10. /\ n.emissionPerSecond = m.emissionPerSecond /\ n.index = m.index
         /\ n.lastUpdateTimestamp = m.lastUpdateTimestamp
    BY <1>7, <1>8 DEF AssetData
  <1>11. /\ n.users[u] = i /\ n.unclaimed[u] = r
         /\ \A v \in Users \ {u} : n.users[v] = m.users[v] /\ n.unclaimed[v] = m.unclaimed[v]
    BY <1>7, <1>8 DEF AssetData
  <1> QED BY <1>1, <1>2, <1>7, <1>9, <1>10, <1>11 DEF r, SettledOne

\* handleAction of one distributor that has an emission.
LEMMA NotifiedSettles ==
  ASSUME NEW a \in AssetData, NEW u \in Users, NEW b \in Nat, NEW total \in Nat, now \in Nat,
         a.lastUpdateTimestamp <= now, a.users[u] <= a.index, IndexFits(a, total),
         a.emissionPerSecond # 0, NEW n, n = notified(a, u, b, total)
  PROVE  SettledOne(a, n, u, b, total)
  <1>1. n = updateUserAsset(a, u, b, total) BY DEF notified
  <1> QED BY <1>1, UserUpdated

\* A distributor that is not told of a movement and has an emission sees none.
LEMMA ToldOrUntouched ==
  ASSUME IInv, MovesAnnounced, NEW d \in Distributors,
         assets[d].emissionPerSecond # 0, d # Controller, d \notin Range(sDistributors)
  PROVE  staked' = staked
  BY DEF MovesAnnounced, Distributors

\* A user is announced to all distributors before the stake changes.
LEMMA StakeKept ==
  ASSUME IInv, MovesAnnounced, NEW u \in Users, Notifiable,
         assets' = handleAction(assets, u, staked[u], scaledTotalSupply),
         NEW b \in Nat, staked' = [staked EXCEPT ![u] = b],
         UNCHANGED <<now, sDistributors, sCount, claimed, emitted>>
  PROVE  Kept
  <1>1. staked \in [Users -> Nat] /\ staked[u] \in Nat /\ now \in Nat BY DEF IInv, TypeOK
  <1>2. staked' \in [Users -> Nat] /\ \A v \in Users \ {u} : staked'[v] = staked[v] BY <1>1
  <1>3. ASSUME NEW d \in Distributors
        PROVE  /\ assets'[d] \in AssetData
               /\ assets'[d].emissionPerSecond = assets[d].emissionPerSecond
               /\ \/ Untouched(d)
                  \/ /\ assets[d].emissionPerSecond # 0
                     /\ Settles(assets[d], assets'[d], claimed[d], claimed[d], staked, staked', now)
    <2> DEFINE a == assets[d]
               n == assets'[d]
               total == scaledTotalSupply
               m == staked[u]
    <2>1. /\ a \in AssetData /\ claimed[d] \in [Users -> Nat] /\ total \in Nat
          /\ total = SumFunctionOnSet(staked, Users) /\ a.lastUpdateTimestamp <= now
          /\ \A v \in Users : a.users[v] <= a.index
      BY OneDistributor
    <2>2. CASE a.emissionPerSecond = 0
      <3>1. n = a BY <2>2 DEF handleAction, notified
      <3> QED BY <2>1, <2>2, <3>1 DEF Untouched
    <2>3. CASE a.emissionPerSecond # 0 /\ d # Controller /\ d \notin Range(sDistributors)
      <3>1. n = a BY <2>3 DEF handleAction
      <3> QED BY <2>1, <2>3, <3>1, ToldOrUntouched DEF Untouched
    <2>4. CASE a.emissionPerSecond # 0 /\ (d = Controller \/ d \in Range(sDistributors))
      <3>2. n = notified(a, u, m, total) /\ IndexFits(a, total)
        BY <2>4 DEF handleAction, Notifiable
      <3>3. m \in Nat /\ a.users[u] <= a.index BY <1>1, <2>1
      <3>4. a.unclaimed[u] \in Nat /\ claimed[d][u] \in Nat BY <2>1 DEF AssetData
      <3> HIDE DEF a, n, total, m
      <3>5. /\ n \in AssetData /\ n.emissionPerSecond = a.emissionPerSecond
            /\ n.lastUpdateTimestamp = now /\ n.index = IndexAt(a, total, now)
            /\ n.users[u] = n.index
            /\ n.unclaimed[u] = a.unclaimed[u] + getRewards(m, n.index, a.users[u])
            /\ \A v \in Users \ {u} : n.users[v] = a.users[v] /\ n.unclaimed[v] = a.unclaimed[v]
        <4>1. SettledOne(a, n, u, m, total)
          BY ONLY u \in Users, <1>1, <2>1, <2>4, <3>2, <3>3, NotifiedSettles
        <4> QED BY ONLY <4>1 DEF SettledOne
      <3>6. Settles(a, n, claimed[d], claimed[d], staked, staked', now)
        <4>1. claimed[d][u] + n.unclaimed[u]
                = claimed[d][u] + (a.unclaimed[u] + getRewards(staked[u], n.index, a.users[u]))
          BY <3>5 DEF m
        <4> QED BY ONLY <1>2, <2>1, <3>5, <4>1 DEF Settles
      <3> QED BY <2>4, <3>5, <3>6 DEF a, n
    <2> QED BY <2>2, <2>3, <2>4
  <1>4. assets' \in [Distributors -> AssetData]
    <2>1. assets' = [d \in Distributors |-> assets'[d]] BY DEF handleAction
    <2> QED BY <1>3, <2>1
  <1> QED BY <1>2, <1>3, <1>4, MovementKept

\* Both parties of a transfer are announced before either stake changes.
LEMMA TransferKept ==
  ASSUME IInv, MovesAnnounced, NEW from \in Users, NEW to \in Users, NEW amount \in Nat,
         transfer(from, to, amount)
  PROVE  Kept
  <1> DEFINE total == scaledTotalSupply
             first == handleAction(assets, from, staked[from], total)
  <1>1. staked \in [Users -> Nat] /\ now \in Nat BY DEF IInv, TypeOK
  <1>2. /\ Notifiable /\ UNCHANGED <<now, sDistributors, sCount, claimed, emitted>>
        /\ from = to => assets' = first
        /\ from # to => assets' = handleAction(first, to, staked[to], total)
    BY DEF transfer
  <1>3. /\ staked' \in [Users -> Nat]
        /\ \A v \in Users \ {from, to} : staked'[v] = staked[v]
        /\ from = to => staked' = staked
    <2> DEFINE less == staked[from] - amount
               mid == [staked EXCEPT ![from] = less]
               more == mid[to] + amount
    <2>1. less \in Nat BY <1>1 DEF transfer
    <2>2. staked' = [mid EXCEPT ![to] = more] BY DEF transfer
    <2>3. from = to => more = staked[from] BY <1>1
    <2>4. more \in Nat
      <3>1. mid[to] \in Nat BY <1>1, <2>1
      <3> HIDE DEF mid
      <3> QED BY <3>1
    <2> HIDE DEF less, more
    <2> QED BY <1>1, <2>1, <2>2, <2>3, <2>4
  <1>4. ASSUME NEW d \in Distributors
        PROVE  /\ assets'[d] \in AssetData
               /\ assets'[d].emissionPerSecond = assets[d].emissionPerSecond
               /\ \/ Untouched(d)
                  \/ /\ assets[d].emissionPerSecond # 0
                     /\ Settles(assets[d], assets'[d], claimed[d], claimed[d], staked, staked', now)
    <2> DEFINE a == assets[d]
               f == first[d]
               n == assets'[d]
               m == staked[from]
               k == staked[to]
               c == claimed[d]
    <2>1. /\ a \in AssetData /\ c \in [Users -> Nat] /\ total \in Nat
          /\ total = SumFunctionOnSet(staked, Users) /\ a.lastUpdateTimestamp <= now
          /\ \A v \in Users : a.users[v] <= a.index
      BY OneDistributor
    <2>2. CASE a.emissionPerSecond = 0
      <3>1. f = a BY <2>2 DEF handleAction, notified
      <3>2. n = f
        <4>1. CASE from = to BY <1>2, <4>1
        <4>2. CASE from # to
          <5>1. f.emissionPerSecond = 0 BY <2>2, <3>1
          <5> HIDE DEF first
          <5>2. n = handleAction(first, to, staked[to], total)[d] BY <1>2, <4>2
          <5> QED BY <5>1, <5>2 DEF handleAction, notified
        <4> QED BY <4>1, <4>2
      <3> QED BY <2>1, <2>2, <3>1, <3>2 DEF Untouched
    <2>3. CASE a.emissionPerSecond # 0 /\ d # Controller /\ d \notin Range(sDistributors)
      <3>1. f = a BY <2>3 DEF handleAction
      <3>2. n = f
        <4>1. CASE from = to BY <1>2, <4>1
        <4>2. CASE from # to
          <5> HIDE DEF first
          <5>1. n = handleAction(first, to, staked[to], total)[d] BY <1>2, <4>2
          <5> QED BY <2>3, <5>1 DEF handleAction
        <4> QED BY <4>1, <4>2
      <3> QED BY <2>1, <2>3, <3>1, <3>2, ToldOrUntouched DEF Untouched
    <2>4. CASE a.emissionPerSecond # 0 /\ (d = Controller \/ d \in Range(sDistributors))
      <3>1. d = Controller \/ d \in Range(sDistributors) BY <2>4
      <3>2. f = notified(a, from, m, total) /\ IndexFits(a, total)
        BY <1>2, <3>1 DEF handleAction, Notifiable
      <3>3. m \in Nat /\ k \in Nat /\ a.users[from] <= a.index /\ a.users[to] <= a.index
        BY <1>1, <2>1
      <3>4. a.users[from] \in Nat /\ a.users[to] \in Nat /\ a.index \in Nat BY <2>1 DEF AssetData
      <3>5. from # to => n = notified(f, to, k, total)
        <4> SUFFICES ASSUME from # to PROVE n = notified(f, to, k, total) OBVIOUS
        <4> HIDE DEF first
        <4>1. n = handleAction(first, to, staked[to], total)[d] BY <1>2
        <4> QED BY <3>1, <4>1 DEF handleAction
      <3>6. from = to => n = f BY <1>2
      <3> HIDE DEF a, f, n, total, m, k, c, first
      <3>7. /\ f \in AssetData /\ f.emissionPerSecond = a.emissionPerSecond
            /\ f.lastUpdateTimestamp = now /\ f.index = IndexAt(a, total, now) /\ a.index <= f.index
            /\ f.users[from] = f.index
            /\ f.unclaimed[from] = a.unclaimed[from] + getRewards(m, f.index, a.users[from])
            /\ \A v \in Users \ {from} : f.users[v] = a.users[v] /\ f.unclaimed[v] = a.unclaimed[v]
        <4>1. /\ a \in AssetData /\ from \in Users /\ m \in Nat /\ total \in Nat /\ now \in Nat
              /\ a.lastUpdateTimestamp <= now /\ a.users[from] <= a.index /\ IndexFits(a, total)
              /\ a.emissionPerSecond # 0 /\ f = notified(a, from, m, total)
          BY <1>1, <2>1, <2>4, <3>2, <3>3
        <4>2. SettledOne(a, f, from, m, total) BY ONLY <4>1, NotifiedSettles
        <4> QED BY ONLY <4>2 DEF SettledOne
      <3>8. CASE from = to
        <4>1. n = f /\ staked' = staked BY <1>3, <3>6, <3>8
        <4>2. c[from] + f.unclaimed[from]
                = c[from] + (a.unclaimed[from] + getRewards(staked[from], f.index, a.users[from]))
          BY <3>7 DEF m
        <4>3. Settles(a, f, c, c, staked, staked, now)
          BY ONLY <2>1, <3>7, <4>2 DEF Settles
        <4> QED BY <2>4, <3>7, <4>1, <4>3 DEF a, n, c
      <3>9. CASE from # to
        <4>1. IndexAt(f, total, now) = f.index BY <3>7 DEF IndexAt
        <4>2. IndexFits(f, total)
          <5>1. f.index <= MAX_INDEX BY <3>7, ControllerAssumption DEF AssetData
          <5> QED BY <4>1, <5>1, IndexNow DEF IndexFits
        <4>3. f.users[to] = a.users[to] /\ f.unclaimed[to] = a.unclaimed[to] BY <3>7, <3>9
        <4>4. f.users[to] <= f.index /\ f.lastUpdateTimestamp <= now /\ f.emissionPerSecond # 0
          <5>1. f.index \in Nat BY <3>7 DEF AssetData
          <5> QED BY <1>1, <2>4, <3>3, <3>4, <3>7, <4>3, <5>1
        <4>5. n = notified(f, to, k, total) BY <3>5, <3>9
        <4>6. /\ n \in AssetData /\ n.emissionPerSecond = f.emissionPerSecond
              /\ n.lastUpdateTimestamp = now /\ n.index = IndexAt(f, total, now)
              /\ n.users[to] = n.index
              /\ n.unclaimed[to] = f.unclaimed[to] + getRewards(k, n.index, f.users[to])
              /\ \A v \in Users \ {to} : n.users[v] = f.users[v] /\ n.unclaimed[v] = f.unclaimed[v]
          <5>1. /\ f \in AssetData /\ to \in Users /\ k \in Nat /\ total \in Nat /\ now \in Nat
                /\ f.lastUpdateTimestamp <= now /\ f.users[to] <= f.index /\ IndexFits(f, total)
                /\ f.emissionPerSecond # 0 /\ n = notified(f, to, k, total)
            BY <1>1, <2>1, <3>3, <3>7, <4>2, <4>4, <4>5
          <5>2. SettledOne(f, n, to, k, total) BY ONLY <5>1, NotifiedSettles
          <5> QED BY ONLY <5>2 DEF SettledOne
        <4>7. n.index = f.index /\ n.index = IndexAt(a, total, now) BY <3>7, <4>1, <4>6
        <4>8. /\ n.users[from] = n.index
              /\ c[from] + n.unclaimed[from]
                   = c[from] + (a.unclaimed[from] + getRewards(staked[from], n.index, a.users[from]))
          BY <3>7, <3>9, <4>6, <4>7 DEF m
        <4>9. c[to] + n.unclaimed[to]
                = c[to] + (a.unclaimed[to] + getRewards(staked[to], n.index, a.users[to]))
          BY <4>3, <4>6 DEF k
        <4>10. \A v \in Users \ {from, to} : /\ n.users[v] = a.users[v]
                                             /\ n.unclaimed[v] = a.unclaimed[v]
          BY <3>7, <4>6
        <4>11. Settles(a, n, c, c, staked, staked', now)
          BY ONLY <1>3, <2>1, <4>6, <4>7, <4>8, <4>9, <4>10 DEF Settles
        <4> QED BY <2>4, <3>7, <4>6, <4>11 DEF a, n, c
      <3> QED BY <3>8, <3>9
    <2> QED BY <2>2, <2>3, <2>4
  <1>5. assets' \in [Distributors -> AssetData]
    <2>1. assets' = [d \in Distributors |-> assets'[d]] BY <1>2 DEF handleAction
    <2> QED BY <1>4, <2>1
  <1> HIDE DEF total, first
  <1> QED BY <1>2, <1>3, <1>4, <1>5, MovementKept

\* A step that leaves the accounts of d alone.
LEMMA SameAccountsKept ==
  ASSUME IInv, NEW d \in Distributors, assets'[d] \in AssetData,
         assets'[d].emissionPerSecond = assets[d].emissionPerSecond,
         assets'[d].index = assets[d].index,
         assets'[d].lastUpdateTimestamp = assets[d].lastUpdateTimestamp,
         assets'[d].users = assets[d].users, assets'[d].unclaimed = assets[d].unclaimed,
         claimed'[d] = claimed[d], emitted'[d] = emitted[d], UNCHANGED <<now, staked>>
  PROVE  StepKept(d)
  <1> DEFINE a == assets[d]
             n == assets'[d]
             c == claimed[d]
             em == emitted[d]
  <1>1. /\ a \in AssetData /\ c \in [Users -> Nat] /\ staked \in [Users -> Nat]
        /\ em \in Nat /\ now \in Nat /\ Sound(a, c, staked, em, now)
    BY OneDistributor
  <1>2. Credits(n, c, staked) = Credits(a, c, staked) BY DEF Credits
  <1>3. Sound(n, c, staked, em, now) BY <1>1, <1>2 DEF Sound
  <1>4. n.distributionEnd = a.distributionEnd => Views(n, c, staked, now) = Views(a, c, staked, now)
    <2> SUFFICES ASSUME n.distributionEnd = a.distributionEnd
                 PROVE  Views(n, c, staked, now) = Views(a, c, staked, now)
      OBVIOUS
    <2> DEFINE total == SumFunctionOnSet(staked, Users)
    <2>1. IndexAt(n, total, now) = IndexAt(a, total, now)
      <3> HIDE DEF total
      <3> QED BY DEF IndexAt
    <2> QED BY <2>1 DEF Views
  <1>5. \A u \in Users : Views(a, c, staked, now)[u] \in Nat
    <2> HIDE DEF a, c, em
    <2> QED BY ONLY <1>1, ViewsBounded
  <1> QED BY <1>3, <1>4, <1>5 DEF StepKept

\* A claim moves what is settled from unclaimed to claimed.
LEMMA ClaimKept ==
  ASSUME IInv, NEW d \in Distributors, NEW u \in Users, NEW amount \in Nat,
         claimRewards(d, u, amount)
  PROVE  Kept
  <1> DEFINE a == assets[d]
             c == claimed[d]
             m == staked[u]
             total == scaledTotalSupply
             r == updateUserAsset(a, u, m, total)
             x == r.unclaimed[u]
             y == IF amount > x THEN x ELSE amount
             z == IF r.balance >= y THEN y ELSE 0
             left == x - y
             rest == r.balance - z
             n == [r EXCEPT !.unclaimed[u] = left, !.balance = rest]
             c2 == [c EXCEPT ![u] = @ + y]
  <1>1. /\ IndexFits(a, total) /\ assets' = [assets EXCEPT ![d] = n]
        /\ claimed' = [claimed EXCEPT ![d][u] = @ + y]
        /\ UNCHANGED <<now, sDistributors, sCount, staked, emitted>>
    BY DEF claimRewards
  <1>2. /\ a \in AssetData /\ c \in [Users -> Nat] /\ staked \in [Users -> Nat]
        /\ emitted[d] \in Nat /\ now \in Nat /\ Sound(a, c, staked, emitted[d], now)
        /\ total \in Nat /\ total = SumFunctionOnSet(staked, Users)
        /\ a.lastUpdateTimestamp <= now /\ \A v \in Users : a.users[v] <= a.index
    BY OneDistributor
  <1>3. m \in Nat /\ a.users[u] <= a.index BY <1>2
  <1>4. assets \in [Distributors -> AssetData] /\ claimed \in [Distributors -> [Users -> Nat]]
    BY DEF IInv, TypeOK
  <1> HIDE DEF a, m, total, r, n
  <1>6. /\ r \in AssetData /\ r.emissionPerSecond = a.emissionPerSecond
        /\ r.lastUpdateTimestamp = now /\ r.index = IndexAt(a, total, now)
        /\ r.users[u] = r.index
        /\ r.unclaimed[u] = a.unclaimed[u] + getRewards(m, r.index, a.users[u])
        /\ \A v \in Users \ {u} : r.users[v] = a.users[v] /\ r.unclaimed[v] = a.unclaimed[v]
    <2>1. /\ a \in AssetData /\ u \in Users /\ m \in Nat /\ total \in Nat /\ now \in Nat
          /\ a.lastUpdateTimestamp <= now /\ a.users[u] <= a.index /\ IndexFits(a, total)
          /\ r = updateUserAsset(a, u, m, total)
      BY <1>1, <1>2, <1>3 DEF r
    <2>2. SettledOne(a, r, u, m, total) BY ONLY <2>1, UserUpdated
    <2> QED BY ONLY <2>2 DEF SettledOne
  <1>7. x \in Nat /\ r.balance \in Nat BY <1>6 DEF AssetData
  <1> HIDE DEF x
  <1>8. y \in Nat /\ y <= x BY <1>7
  <1> HIDE DEF y
  <1>8a. claimed' = [claimed EXCEPT ![d] = c2] BY ONLY <1>1, <1>4
  <1>9. z \in Nat /\ z <= r.balance BY <1>7, <1>8
  <1> HIDE DEF z
  <1>10. left \in Nat /\ rest \in Nat /\ left + y = x BY <1>7, <1>8, <1>9
  <1> HIDE DEF left, rest
  <1>11. /\ n \in AssetData /\ n.emissionPerSecond = r.emissionPerSecond
         /\ n.lastUpdateTimestamp = r.lastUpdateTimestamp /\ n.index = r.index
         /\ n.users = r.users /\ n.unclaimed[u] = left
         /\ \A v \in Users \ {u} : n.unclaimed[v] = r.unclaimed[v]
    <2> DEFINE un == [r.unclaimed EXCEPT ![u] = left]
    <2>1. un \in [Users -> Nat] /\ un[u] = left /\ \A v \in Users \ {u} : un[v] = r.unclaimed[v]
      BY <1>6, <1>10 DEF AssetData
    <2>2. n = [r EXCEPT !.unclaimed = un, !.balance = rest] BY DEF n
    <2> HIDE DEF un
    <2> QED BY <1>6, <1>10, <2>1, <2>2 DEF AssetData
  <1>12. /\ c2 \in [Users -> Nat] /\ c2[u] = c[u] + y /\ \A v \in Users \ {u} : c2[v] = c[v]
    BY <1>2, <1>8
  <1> HIDE DEF c2
  <1>13. assets'[d] = n /\ claimed'[d] = c2 BY <1>1, <1>4, <1>8a
  <1>14. Settles(a, n, c, c2, staked, staked, now)
    <2>1. c2[u] + n.unclaimed[u]
            = c[u] + (a.unclaimed[u] + getRewards(staked[u], n.index, a.users[u]))
      <3>1. c[u] \in Nat BY <1>2
      <3>2. c2[u] + n.unclaimed[u] = c[u] + x BY <1>7, <1>8, <1>10, <1>11, <1>12, <3>1
      <3> QED BY <1>6, <1>11, <3>2 DEF x, m
    <2> QED BY ONLY <1>2, <1>6, <1>11, <1>12, <2>1 DEF Settles
  <1>15. n.emissionPerSecond = 0 => n.index = 0
    <2> SUFFICES ASSUME n.emissionPerSecond = 0 PROVE n.index = 0 OBVIOUS
    <2>1. a.emissionPerSecond = 0 BY <1>6, <1>11
    <2>2. a.index = 0 BY <1>2, <2>1 DEF Sound
    <2>3. IndexAt(a, total, now) = 0 BY <2>1, <2>2 DEF IndexAt
    <2> QED BY <1>6, <1>11, <2>3
  <1>16. StepKept(d)
    <2> DEFINE em == emitted[d]
    <2>1. /\ a \in AssetData /\ n \in AssetData /\ staked \in [Users -> Nat]
          /\ c \in [Users -> Nat] /\ c2 \in [Users -> Nat] /\ em \in Nat /\ now \in Nat
          /\ Sound(a, c, staked, em, now)
      BY <1>2, <1>11, <1>12
    <2> HIDE DEF c, em
    <2>2. Sound(n, c2, staked, em, now) BY ONLY <1>14, <1>15, <2>1, SettlingKeeps
    <2>3. \A v \in Users : Views(n, c2, staked, now)[v] = Views(a, c, staked, now)[v]
      BY ONLY <1>14, <1>15, <2>1, SettlingKeeps
    <2>4. \A v \in Users : Views(a, c, staked, now)[v] \in Nat BY ONLY <2>1, ViewsBounded
    <2>5. \A v \in Users : Views(n, c2, staked, now)[v] >= Views(a, c, staked, now)[v]
      BY <2>3, <2>4
    <2>6. staked' = staked /\ now' = now /\ emitted'[d] = em BY <1>1 DEF em
    <2> QED BY <1>13, <2>2, <2>5, <2>6 DEF StepKept, a, c
  <1>17. ASSUME NEW o \in Distributors, o # d PROVE StepKept(o)
    <2>1. assets'[o] = assets[o] /\ claimed'[o] = claimed[o] BY <1>1, <1>4, <1>8a, <1>17
    <2>2. assets'[o] \in AssetData BY <1>4, <2>1
    <2> QED BY <1>1, <2>1, <2>2, SameAccountsKept
  <1>18. assets' \in [Distributors -> AssetData] /\ claimed' \in [Distributors -> [Users -> Nat]]
    BY <1>1, <1>4, <1>8a, <1>11, <1>12
  <1>19. TypeOK' BY <1>1, <1>18 DEF IInv, TypeOK
  <1> QED BY <1>16, <1>17, <1>19 DEF Kept

\* configureAssets accounts for the old emission first; the new one is not zero.
LEMMA ConfigureKept ==
  ASSUME IInv, NEW d \in Distributors, NEW emission \in Nat \ {0}, configureAssets(d, emission)
  PROVE  Kept
  <1> DEFINE a == assets[d]
             c == claimed[d]
             total == scaledTotalSupply
             i == getAssetIndex(a, total)
             n == [a EXCEPT !.index = i, !.lastUpdateTimestamp = now, !.emissionPerSecond = emission]
  <1>1. /\ i <= MAX_INDEX /\ UNCHANGED <<now, sDistributors, sCount, staked, claimed, emitted>>
    BY DEF configureAssets, IndexFits
  <1>2. /\ a \in AssetData /\ c \in [Users -> Nat] /\ staked \in [Users -> Nat]
        /\ emitted[d] \in Nat /\ now \in Nat /\ Sound(a, c, staked, emitted[d], now)
        /\ total \in Nat /\ total = SumFunctionOnSet(staked, Users)
        /\ a.lastUpdateTimestamp <= now
    BY OneDistributor
  <1>3. assets \in [Distributors -> AssetData] BY DEF IInv, TypeOK
  <1>4. assets' = [assets EXCEPT ![d] = n]
    <2>1. assets' = [assets EXCEPT ![d] =
                       [updateAssetState(assets[d], scaledTotalSupply)
                          EXCEPT !.emissionPerSecond = emission]]
      BY DEF configureAssets
    <2>2. n = [updateAssetState(a, total) EXCEPT !.emissionPerSecond = emission]
      BY <1>2 DEF updateAssetState, AssetData
    <2> HIDE DEF n
    <2> QED BY <2>1, <2>2
  <1>5. i = IndexAt(a, total, now) BY IndexNow
  <1> HIDE DEF i, total, a
  <1>6. i \in 0..MAX_INDEX
    <2>1. IndexAt(a, total, now) \in Nat BY <1>2, IndexRises
    <2> QED BY <1>1, <1>5, <2>1, ControllerAssumption
  <1>7. /\ n \in AssetData /\ n.index = i /\ n.lastUpdateTimestamp = now
        /\ n.emissionPerSecond = emission /\ n.users = a.users /\ n.unclaimed = a.unclaimed
    BY <1>2, <1>6 DEF AssetData
  <1> HIDE DEF n
  <1>8. assets'[d] = n BY <1>3, <1>4
  <1>9. Settles(a, n, c, c, staked, staked, now) BY ONLY <1>2, <1>5, <1>7 DEF Settles
  <1>10. StepKept(d)
    <2> DEFINE em == emitted[d]
    <2>1. /\ a \in AssetData /\ n \in AssetData /\ staked \in [Users -> Nat]
          /\ c \in [Users -> Nat] /\ em \in Nat /\ now \in Nat
          /\ Sound(a, c, staked, em, now)
      BY <1>2, <1>7
    <2>2. n.emissionPerSecond = 0 => n.index = 0 BY <1>7
    <2>3. claimed'[d] = c /\ staked' = staked /\ now' = now /\ emitted'[d] = em BY <1>1
    <2> HIDE DEF c, em
    <2>4. Sound(n, c, staked, em, now) BY ONLY <1>9, <2>1, <2>2, SettlingKeeps
    <2>5. \A v \in Users : Views(n, c, staked, now)[v] = Views(a, c, staked, now)[v]
      BY ONLY <1>9, <2>1, <2>2, SettlingKeeps
    <2>6. \A v \in Users : Views(a, c, staked, now)[v] \in Nat BY ONLY <2>1, ViewsBounded
    <2>7. \A v \in Users : Views(n, c, staked, now)[v] >= Views(a, c, staked, now)[v]
      BY <2>5, <2>6
    <2> QED BY <1>8, <2>3, <2>4, <2>7 DEF StepKept, a, c
  <1>11. ASSUME NEW o \in Distributors, o # d PROVE StepKept(o)
    <2>1. assets'[o] = assets[o] /\ claimed'[o] = claimed[o] BY <1>1, <1>3, <1>4, <1>11
    <2>2. assets'[o] \in AssetData BY <1>3, <2>1
    <2> QED BY <1>1, <2>1, <2>2, SameAccountsKept
  <1>12. assets' \in [Distributors -> AssetData] BY <1>3, <1>4, <1>7
  <1>13. TypeOK' BY <1>1, <1>12 DEF IInv, TypeOK
  <1> QED BY <1>10, <1>11, <1>13 DEF Kept

\* Steps that change one asset without touching its accounts.
LEMMA AsideKept ==
  ASSUME IInv, UNCHANGED <<now, staked, claimed, emitted>>, TypeOK',
         \A d \in Distributors :
           /\ assets'[d].emissionPerSecond = assets[d].emissionPerSecond
           /\ assets'[d].index = assets[d].index
           /\ assets'[d].lastUpdateTimestamp = assets[d].lastUpdateTimestamp
           /\ assets'[d].users = assets[d].users
           /\ assets'[d].unclaimed = assets[d].unclaimed
  PROVE  Kept
  <1>1. ASSUME NEW d \in Distributors PROVE StepKept(d)
    <2>1. assets'[d] \in AssetData BY DEF TypeOK
    <2> QED BY <2>1, SameAccountsKept
  <1> QED BY <1>1 DEF Kept

\* A second passes.
LEMMA TimeKept ==
  ASSUME IInv, AdvanceTime
  PROVE  Kept
  <1>1. /\ now' = now + 1 /\ UNCHANGED <<assets, sDistributors, sCount, staked, claimed>>
        /\ emitted' = [d \in Distributors |-> emitted[d] + assets[d].emissionPerSecond]
    BY DEF AdvanceTime
  <1>2. ASSUME NEW d \in Distributors PROVE StepKept(d) /\ emitted'[d] \in Nat
    <2> DEFINE a == assets[d]
               c == claimed[d]
               em == emitted[d]
               em2 == emitted'[d]
               t == now
               t2 == now'
               total == SumFunctionOnSet(staked, Users)
               i == IndexAt(a, total, t)
               j == IndexAt(a, total, t2)
    <2>1. /\ a \in AssetData /\ c \in [Users -> Nat] /\ staked \in [Users -> Nat]
          /\ em \in Nat /\ t \in Nat /\ Sound(a, c, staked, em, t)
          /\ total \in Nat /\ a.lastUpdateTimestamp <= t
          /\ \A u \in Users : a.users[u] <= a.index
      BY OneDistributor
    <2>2. em2 = em + a.emissionPerSecond /\ t2 = t + 1 BY <1>1
    <2>3. assets'[d] = a /\ claimed'[d] = c /\ staked' = staked BY <1>1
    <2>4. em2 \in Nat BY <2>1, <2>2 DEF AssetData
    <2> HIDE DEF a, c, em, em2, t, t2, total
    <2>5. Sound(a, c, staked, em2, t2) BY ONLY <2>1, <2>2, TimeSound
    <2>6. i \in Nat /\ j \in Nat /\ a.index <= i /\ i <= j
      <3>1. i \in Nat /\ a.index <= i BY <2>1, IndexRises
      <3>2. t2 \in Nat /\ a.lastUpdateTimestamp <= t2 BY <2>1, <2>2 DEF AssetData
      <3>3. j \in Nat BY <2>1, <3>2, IndexRises
      <3>4. IndexAt(a, total, t) <= IndexAt(a, total, t + 1) BY ONLY <2>1, IndexMono
      <3> QED BY <2>2, <3>1, <3>3, <3>4
    <2>7. ASSUME NEW u \in Users
          PROVE  Views(a, c, staked, t2)[u] >= Views(a, c, staked, t)[u]
      <3> DEFINE m == staked[u]
                 b == a.users[u]
                 w == a.unclaimed[u]
                 p == c[u]
      <3>1. m \in Nat /\ b \in Nat /\ w \in Nat /\ p \in Nat /\ b <= i /\ b <= j
        <4>1. a.index \in Nat /\ b \in Nat /\ w \in Nat BY <2>1 DEF AssetData
        <4>2. b <= a.index /\ m \in Nat /\ p \in Nat BY <2>1
        <4> HIDE DEF i, j, b, w, m, p
        <4> QED BY <2>6, <4>1, <4>2
      <3>2. /\ Views(a, c, staked, t2)[u] = p + (w + getRewards(m, j, b))
            /\ Views(a, c, staked, t)[u] = p + (w + getRewards(m, i, b))
        BY DEF Views, total
      <3> HIDE DEF i, j, m, b, w, p
      <3>3. getRewards(m, i, b) \in Nat /\ getRewards(m, j, b) \in Nat
        BY ONLY <2>6, <3>1, GrowthRoundsDown
      <3>4. getRewards(m, i, b) <= getRewards(m, j, b) BY ONLY <2>6, <3>1, GrowthMono
      <3> QED BY ONLY <3>1, <3>2, <3>3, <3>4
    <2> QED BY <2>3, <2>4, <2>5, <2>7 DEF StepKept, a, c, em2, t, t2
  <1>3. emitted' \in [Distributors -> Nat] BY <1>1, <1>2
  <1>4. TypeOK'
    <2>1. now' \in Nat BY <1>1 DEF IInv, TypeOK
    <2> QED BY <1>1, <1>3, <2>1 DEF IInv, TypeOK
  <1> QED BY <1>2, <1>4 DEF Kept

\* Every step of the token, its holders, the distributors and the emission manager.
LEMMA NextKept ==
  ASSUME 0 \notin Emissions, IInv, [Next]_vars, [MovesAnnounced]_vars
  PROVE  Kept
  <1>1. /\ Stakes \subseteq Nat /\ Emissions \subseteq Nat \ {0} /\ Ends \subseteq Nat
        /\ Claims \subseteq Nat /\ Fundings \subseteq Nat
    BY ControllerAssumption
  <1>2. /\ assets \in [Distributors -> AssetData]
        /\ sDistributors \in Seq(StableDistributors \cup {NoAddress})
        /\ sCount \in 0..Len(sDistributors) /\ staked \in [Users -> Nat]
    BY DEF IInv, TypeOK
  <1>3. MovesAnnounced BY DEF MovesAnnounced, vars
  <1>4. ASSUME NEW u \in Users, NEW amount \in Stakes, mint(u, amount) PROVE Kept
    <2> DEFINE b == staked[u] + amount
    <2>1. b \in Nat BY <1>1, <1>2
    <2>2. /\ Notifiable /\ assets' = handleAction(assets, u, staked[u], scaledTotalSupply)
          /\ staked' = [staked EXCEPT ![u] = b]
          /\ UNCHANGED <<now, sDistributors, sCount, claimed, emitted>>
      BY <1>4 DEF mint
    <2> HIDE DEF b
    <2> QED BY <1>3, <2>1, <2>2, StakeKept
  <1>5. ASSUME NEW u \in Users, NEW amount \in Stakes, burn(u, amount) PROVE Kept
    <2> DEFINE b == staked[u] - amount
    <2>1. b \in Nat
      <3>1. amount <= staked[u] BY <1>5 DEF burn
      <3>2. staked[u] \in Nat /\ amount \in Nat BY <1>1, <1>2
      <3> QED BY <3>1, <3>2
    <2>2. /\ Notifiable /\ assets' = handleAction(assets, u, staked[u], scaledTotalSupply)
          /\ staked' = [staked EXCEPT ![u] = b]
          /\ UNCHANGED <<now, sDistributors, sCount, claimed, emitted>>
      BY <1>5 DEF burn
    <2> HIDE DEF b
    <2> QED BY <1>3, <2>1, <2>2, StakeKept
  <1>6. ASSUME NEW from \in Users, NEW to \in Users, NEW amount \in Stakes,
               transfer(from, to, amount)
        PROVE  Kept
    BY <1>1, <1>3, <1>6, TransferKept
  <1>7. ASSUME NEW d \in Distributors, NEW u \in Users, NEW amount \in Claims,
               claimRewards(d, u, amount)
        PROVE  Kept
    BY <1>1, <1>7, ClaimKept
  <1>8. ASSUME NEW d \in Distributors, NEW emission \in Emissions, configureAssets(d, emission)
        PROVE  Kept
    BY <1>1, <1>8, ConfigureKept
  <1>9. ASSUME NEW d \in Distributors, NEW end \in Ends, setDistributionEnd(d, end) PROVE Kept
    <2> DEFINE n == [assets[d] EXCEPT !.distributionEnd = end]
    <2>1. /\ assets' = [assets EXCEPT ![d] = n]
          /\ UNCHANGED <<now, sDistributors, sCount, staked, claimed, emitted>>
      BY <1>9 DEF setDistributionEnd
    <2>2. /\ n \in AssetData /\ n.emissionPerSecond = assets[d].emissionPerSecond
          /\ n.index = assets[d].index /\ n.users = assets[d].users
          /\ n.lastUpdateTimestamp = assets[d].lastUpdateTimestamp
          /\ n.unclaimed = assets[d].unclaimed
      <3>1. assets[d] \in AssetData /\ end \in Nat BY <1>1, <1>2
      <3> QED BY <3>1 DEF AssetData
    <2> HIDE DEF n
    <2>3. /\ assets' \in [Distributors -> AssetData] /\ assets'[d] = n
          /\ \A o \in Distributors \ {d} : assets'[o] = assets[o]
      BY <1>2, <2>1, <2>2
    <2>4. TypeOK' BY <2>1, <2>3 DEF IInv, TypeOK
    <2> QED BY <2>1, <2>2, <2>3, <2>4, AsideKept
  <1>10. ASSUME NEW d \in StableDistributors, addStableYieldDistributor(d) PROVE Kept
    <2>1. /\ sDistributors' = Append(sDistributors, d) /\ sCount' = sCount + 1
          /\ UNCHANGED <<now, assets, staked, claimed, emitted>>
      BY <1>10 DEF addStableYieldDistributor
    <2>2. /\ sDistributors' \in Seq(StableDistributors \cup {NoAddress})
          /\ Len(sDistributors') = Len(sDistributors) + 1
          /\ \A i \in 1..Len(sDistributors) : sDistributors'[i] = sDistributors[i]
      BY <1>2, <2>1
    <2>4. sCount' \in 0..Len(sDistributors') BY <1>2, <2>1, <2>2
    <2>5. TypeOK' BY <2>1, <2>2, <2>4 DEF IInv, TypeOK
    <2> QED BY <2>1, <2>5, AsideKept
  <1>11. ASSUME NEW i \in 1..sCount, removeStableYieldDistributor(i - 1) PROVE Kept
    <2>1. /\ sDistributors' = [sDistributors EXCEPT ![i - 1 + 1] = sDistributors[sCount],
                                                    ![sCount] = NoAddress]
          /\ sCount' = sCount - 1 /\ UNCHANGED <<now, assets, staked, claimed, emitted>>
      BY <1>11 DEF removeStableYieldDistributor
    <2>2. i - 1 + 1 = i /\ i \in 1..Len(sDistributors) /\ sCount \in 1..Len(sDistributors)
      BY <1>2
    <2>3. sDistributors' = [sDistributors EXCEPT ![i] = sDistributors[sCount], ![sCount] = NoAddress]
      BY <2>1, <2>2
    <2>4. /\ sDistributors' \in Seq(StableDistributors \cup {NoAddress})
          /\ Len(sDistributors') = Len(sDistributors)
      <3> DEFINE r == sDistributors'
                 T == StableDistributors \cup {NoAddress}
      <3>1. r = [sDistributors EXCEPT ![i] = sDistributors[sCount], ![sCount] = NoAddress]
        BY <2>3
      <3>2. sDistributors \in [1..Len(sDistributors) -> T] /\ Len(sDistributors) \in Nat /\ NoAddress \in T
        BY <1>2
      <3> HIDE DEF r, T
      <3>3. r \in [1..Len(sDistributors) -> T]
        BY ONLY <2>2, <3>1, <3>2
      <3>4. r \in Seq(T) /\ Len(r) = Len(sDistributors) BY <3>2, <3>3
      <3> QED BY <3>4 DEF r, T
    <2>5. sCount' \in 0..Len(sDistributors') BY <1>2, <2>1, <2>2, <2>4
    <2>6. TypeOK' BY <2>1, <2>4, <2>5 DEF IInv, TypeOK
    <2> QED BY <2>1, <2>6, AsideKept
  <1>12. ASSUME NEW d \in Distributors, NEW amount \in Fundings, Fund(d, amount) PROVE Kept
    <2> DEFINE b == assets[d].balance + amount
               n == [assets[d] EXCEPT !.balance = b]
    <2>1. /\ assets' = [assets EXCEPT ![d] = n]
          /\ UNCHANGED <<now, sDistributors, sCount, staked, claimed, emitted>>
      BY <1>12 DEF Fund
    <2>2. assets[d] \in AssetData /\ b \in Nat
      <3>1. assets[d] \in AssetData /\ amount \in Nat BY <1>1, <1>2
      <3> QED BY <3>1 DEF AssetData
    <2> HIDE DEF b
    <2>3. /\ n \in AssetData /\ n.emissionPerSecond = assets[d].emissionPerSecond
          /\ n.index = assets[d].index /\ n.users = assets[d].users
          /\ n.lastUpdateTimestamp = assets[d].lastUpdateTimestamp
          /\ n.unclaimed = assets[d].unclaimed
      BY <2>2 DEF AssetData
    <2> HIDE DEF n
    <2>4. /\ assets' \in [Distributors -> AssetData] /\ assets'[d] = n
          /\ \A o \in Distributors \ {d} : assets'[o] = assets[o]
      BY <1>2, <2>1, <2>3
    <2>5. TypeOK' BY <2>1, <2>4 DEF IInv, TypeOK
    <2> QED BY <2>1, <2>3, <2>4, <2>5, AsideKept
  <1>13. CASE AdvanceTime BY <1>13, TimeKept
  <1>14. CASE UNCHANGED vars
    <2>1. TypeOK' BY <1>14 DEF IInv, TypeOK, vars
    <2> QED BY <1>14, <2>1, AsideKept DEF vars
  <1> QED BY <1>4, <1>5, <1>6, <1>7, <1>8, <1>9, <1>10, <1>11, <1>12, <1>13, <1>14 DEF Next

\* Nobody is credited anything at first.
LEMMA InitIInv == Init => IInv
  <1> SUFFICES ASSUME Init PROVE IInv OBVIOUS
  <1>1. /\ now = 0 /\ sCount = Len(sDistributors) /\ staked = [u \in Users |-> 0]
        /\ claimed = [d \in Distributors |-> [u \in Users |-> 0]]
        /\ emitted = [d \in Distributors |-> 0]
    BY DEF Init
  <1>2. PICK n \in 0..Cardinality(StableDistributors) :
               sDistributors \in Injection(1..n, StableDistributors)
    BY DEF Init
  <1>3. sDistributors \in Seq(StableDistributors) /\ Len(sDistributors) \in Nat
    <2>1. n \in Nat
      <3>1. CASE Cardinality(StableDistributors) \in Int BY <3>1
      <3>2. CASE n \in 0..Cardinality(StableDistributors) BY <3>2
      <3> QED BY <3>1, <3>2
    <2>2. sDistributors \in [1..n -> StableDistributors] BY <1>2 DEF Injection
    <2> QED BY <2>1, <2>2
  <1>4. ASSUME NEW d \in Distributors
        PROVE  /\ assets[d] \in AssetData /\ assets[d].index = 0
               /\ assets[d].lastUpdateTimestamp = 0
               /\ \A u \in Users : assets[d].users[u] = 0 /\ assets[d].unclaimed[u] = 0
    <2>1. assets[d] \in {[emissionPerSecond |-> e, index |-> 0, lastUpdateTimestamp |-> 0,
                          distributionEnd |-> end, users |-> [u \in Users |-> 0],
                          unclaimed |-> [u \in Users |-> 0], balance |-> 0] :
                            e \in Emissions \cup {0}, end \in Ends}
      BY DEF Init
    <2>2. PICK e \in Emissions \cup {0}, end \in Ends :
                 assets[d] = [emissionPerSecond |-> e, index |-> 0, lastUpdateTimestamp |-> 0,
                              distributionEnd |-> end, users |-> [u \in Users |-> 0],
                              unclaimed |-> [u \in Users |-> 0], balance |-> 0]
      BY <2>1
    <2>3. e \in Nat /\ end \in Nat /\ 0 \in 0..MAX_INDEX BY ControllerAssumption
    <2> QED BY <2>2, <2>3 DEF AssetData
  <1>5. TypeOK
    <2>1. assets \in [Distributors -> AssetData]
      <3>1. assets = [d \in Distributors |-> assets[d]] BY DEF Init
      <3> QED BY <1>4, <3>1
    <2>2. sDistributors \in Seq(StableDistributors \cup {NoAddress}) BY <1>3
    <2> QED BY <1>1, <1>3, <2>1, <2>2 DEF TypeOK
  <1>7. ASSUME NEW d \in Distributors
        PROVE  Sound(assets[d], claimed[d], staked, emitted[d], now)
    <2> DEFINE a == assets[d]
               c == claimed[d]
    <2>1. a.index = 0 /\ a.lastUpdateTimestamp = 0 /\ emitted[d] = 0 /\ now = 0
      BY <1>1, <1>4
    <2>2. \A u \in Users : Credits(a, c, staked)[u] = 0
      <3>1. ASSUME NEW u \in Users PROVE Credits(a, c, staked)[u] = 0
        <4>1. Credits(a, c, staked)[u] = PRECISION * (0 + 0) + 0 * (0 - 0)
          BY <1>1, <1>4 DEF Credits
        <4>2. PRECISION * (0 + 0) = 0 BY ControllerAssumption
        <4> QED BY <4>1, <4>2
      <3> QED BY <3>1
    <2>3. SumFunctionOnSet(Credits(a, c, staked), Users) = 0
      <3>1. IsFiniteSet(Users) BY ControllerAssumption
      <3> QED BY <2>2, <3>1, SumZero
    <2>4. PRECISION * (a.emissionPerSecond * (0 - 0)) = 0 /\ PRECISION * 0 = 0
      <3>1. a.emissionPerSecond \in Nat /\ PRECISION \in Nat
        BY <1>4, ControllerAssumption DEF AssetData
      <3>2. a.emissionPerSecond * (0 - 0) = 0 BY <3>1
      <3> QED BY <3>1, <3>2
    <2>5. \A u \in Users : a.users[u] <= a.index BY <1>4
    <2> HIDE DEF a, c
    <2>6. Sound(a, c, staked, 0, 0) BY <2>1, <2>3, <2>4, <2>5 DEF Sound
    <2> QED BY <2>1, <2>6 DEF a, c
  <1> QED BY <1>5, <1>7 DEF IInv

\* The views of the code are the ones of the proof.
LEMMA ViewsOfCode ==
  ASSUME NEW d \in Distributors
  PROVE  [u \in Users |-> claimed[d][u] + getRewardsBalance(d, u)]
           = Views(assets[d], claimed[d], staked, now)
  BY IndexNow DEF getRewardsBalance, scaledTotalSupply, Views

\* The inductive invariant holds in every state, while movements are announced.
LEMMA SoundInvariant ==
  ASSUME 0 \notin Emissions
  PROVE  Spec /\ [][MovesAnnounced]_vars => []IInv
  <1>1. IInv /\ [Next]_vars /\ [MovesAnnounced]_vars => IInv'
    <2> SUFFICES ASSUME IInv, [Next]_vars, [MovesAnnounced]_vars PROVE IInv' OBVIOUS
    <2>1. Kept BY NextKept
    <2> QED BY <2>1 DEF Kept, StepKept, IInv
  <1> QED BY <1>1, InitIInv, PTL DEF Spec

\* All users together are never promised more by a distributor than its emission
\* has released, for any number of users, distributors, movements and claims, as long
\* as no emission is zero and the token moves only while distributors with an emission
\* are listed.
THEOREM EmissionIsRespected ==
  ASSUME 0 \notin Emissions
  PROVE  Spec /\ [][MovesAnnounced]_vars => []EmissionBound
  <1>1. IInv => EmissionBound
    <2> SUFFICES ASSUME IInv, NEW d \in Distributors
                 PROVE  SumFunctionOnSet([u \in Users |-> claimed[d][u] + getRewardsBalance(d, u)],
                                         Users) <= emitted[d]
      BY DEF EmissionBound
    <2> DEFINE a == assets[d]
               c == claimed[d]
               em == emitted[d]
    <2>1. /\ a \in AssetData /\ c \in [Users -> Nat] /\ staked \in [Users -> Nat]
          /\ em \in Nat /\ now \in Nat /\ Sound(a, c, staked, em, now)
      BY OneDistributor
    <2> HIDE DEF a, c, em
    <2>2. SumFunctionOnSet(Views(a, c, staked, now), Users) <= em BY ONLY <2>1, ViewsBounded
    <2> QED BY <2>2, ViewsOfCode DEF a, c, em
  <1> QED BY <1>1, SoundInvariant, PTL

\* Under the same two conditions no call of anybody takes rewards from anybody: mints,
\* burns, transfers and claims of others, a new emission and changes of the list
\* leave what a user has claimed and may claim at least where it was.
THEOREM NobodyIsDeprived ==
  ASSUME 0 \notin Emissions
  PROVE  Spec /\ [][MovesAnnounced]_vars => RewardsKept
  <1>1. IInv /\ [Next]_vars /\ [MovesAnnounced]_vars => [KeepingStep]_vars
    <2> SUFFICES ASSUME IInv, [Next]_vars, [MovesAnnounced]_vars PROVE KeepingStep OBVIOUS
    <2>1. Kept BY NextKept
    <2> SUFFICES ASSUME NEW d \in Distributors,
                        assets'[d].distributionEnd = assets[d].distributionEnd,
                        NEW u \in Users
                 PROVE  claimed'[d][u] + getRewardsBalance(d, u)'
                          >= claimed[d][u] + getRewardsBalance(d, u)
      BY DEF KeepingStep
    <2>2. Views(assets'[d], claimed'[d], staked', now')[u] >= Views(assets[d], claimed[d], staked, now)[u]
      BY <2>1 DEF Kept, StepKept
    <2>3. claimed[d][u] + getRewardsBalance(d, u) = Views(assets[d], claimed[d], staked, now)[u]
      BY IndexNow DEF getRewardsBalance, scaledTotalSupply, Views
    <2>4. claimed'[d][u] + getRewardsBalance(d, u)'
            = Views(assets'[d], claimed'[d], staked', now')[u]
      BY DEF getRewardsBalance, scaledTotalSupply, Views, getAssetIndex, IndexAt
    <2> QED BY <2>2, <2>3, <2>4
  <1> QED BY <1>1, SoundInvariant, PTL DEF Spec, RewardsKept
=============================================================================

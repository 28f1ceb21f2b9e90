----------------------------- MODULE ReserveTerms -----------------------------
(***************************************************************************)
(* What the pool administration may do to the terms of a reserve, without  *)
(* the bitmap they are kept in: each call changes one aspect, and the      *)
(* terms of a collateral are always ones a liquidation can be paid from.   *)
(***************************************************************************)
EXTENDS Naturals

CONSTANTS
  Assets,             \* the assets reserves are made of
  Params,             \* loan to value, threshold and bonus a collateral may have
  Values,             \* decimals and reserve factors
  PERCENTAGE_FACTOR   \* one hundred per cent

VARIABLE terms   \* of every asset, its parameters and switches

NoParams == [ltv |-> 0, liquidationThreshold |-> 0, liquidationBonus |-> 0]
NoTerms ==
  [params |-> NoParams, decimals |-> 0, reserveFactor |-> 0, active |-> FALSE, frozen |-> FALSE,
   borrowing |-> FALSE, stable |-> FALSE, collateral |-> FALSE]

\* A loan at the limit is not liquidable at once, a liquidator is paid more than
\* the debt, and the collateral suffices for that.
Sound(p) ==
  \/ p = NoParams
  \/ /\ p.ltv <= p.liquidationThreshold
     /\ p.liquidationBonus > PERCENTAGE_FACTOR
     /\ 2 * p.liquidationThreshold * p.liquidationBonus
          < 2 * PERCENTAGE_FACTOR * PERCENTAGE_FACTOR + PERCENTAGE_FACTOR

Init == terms = [a \in Assets |-> NoTerms]

Change(a, t) == terms' = [terms EXCEPT ![a] = t]

\* A new reserve is open; anything else set before stays.
Open(a, d) == Change(a, [terms[a] EXCEPT !.decimals = d, !.active = TRUE, !.frozen = FALSE])
Lend(a, s) == ~terms[a].collateral /\ Change(a, [terms[a] EXCEPT !.borrowing = TRUE, !.stable = s])
StopLending(a) == Change(a, [terms[a] EXCEPT !.borrowing = FALSE])
AllowStable(a, s) == Change(a, [terms[a] EXCEPT !.stable = s])
Accept(a) == ~terms[a].borrowing /\ Change(a, [terms[a] EXCEPT !.collateral = TRUE])
Refuse(a) == Change(a, [terms[a] EXCEPT !.collateral = FALSE])
Agree(a, p) ==
  /\ Sound(p)
  /\ p # NoParams => terms[a].collateral
  /\ Change(a, [terms[a] EXCEPT !.params = p])
Activate(a, b) == Change(a, [terms[a] EXCEPT !.active = b])
Freeze(a, b) == Change(a, [terms[a] EXCEPT !.frozen = b])
Share(a, f) == Change(a, [terms[a] EXCEPT !.reserveFactor = f])

Next ==
  \E a \in Assets :
    \/ \E d \in Values : Open(a, d)
    \/ \E s \in BOOLEAN : Lend(a, s) \/ AllowStable(a, s) \/ Activate(a, s) \/ Freeze(a, s)
    \/ StopLending(a) \/ Accept(a) \/ Refuse(a)
    \/ \E p \in Params : Agree(a, p)
    \/ \E f \in Values : Share(a, f)

Spec == Init /\ [][Next]_terms
=============================================================================

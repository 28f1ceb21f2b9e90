--------------------------- MODULE MCConfigurator ---------------------------
(* Instances of LendingPoolConfigurator. *)
EXTENDS LendingPoolConfigurator, FiniteSetsExt, TLC

\* The calls on one reserve do not read another's configuration: while one is
\* administered and used, the others are at most initialized, without a rate.
Untouched == {{}, setActive(setDecimals({}, Min(Decimals)), TRUE)}
InUse ==
  {a \in Assets : configuration[a] \notin Untouched \/ market[a] # "empty"} \cup rated \cup earning \cup unpaid
MCNext == Next /\ Cardinality(InUse') <= 1
MCSpec == Init /\ [][MCNext]_vars

AssetSymmetry == Permutations(Assets)
=============================================================================

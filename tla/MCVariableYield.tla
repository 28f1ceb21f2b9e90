--------------------------- MODULE MCVariableYield ---------------------------
(* Instances of VariableYieldDistribution. *)
EXTENDS VariableYieldDistribution, TLC

CONSTANT MaxSteps

VARIABLE steps   \* calls and earnings so far

MCInit == Init /\ steps = 0
MCNext == steps < MaxSteps /\ Next /\ steps' = steps + 1
MCSpec == MCInit /\ [][MCNext]_<<vars, steps>>

\* Registered before anybody stakes, or for users who already do.
MCInitStakes == {[u \in Users |-> 0], [u \in Users |-> 2]}

UserSymmetry == Permutations(Users)
=============================================================================

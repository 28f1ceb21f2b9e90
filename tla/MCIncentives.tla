---------------------------- MODULE MCIncentives ----------------------------
(* Instances of IncentivesController. *)
EXTENDS IncentivesController, FiniteSetsExt, TLC

CONSTANTS
  MaxTime,     \* seconds
  MaxTimeListed, \* seconds with a stable distributor in the adapter's list
  MaxSupply,   \* of the aToken
  MaxBalance,  \* reward tokens in a distributor
  MaxListed    \* length of the adapter's array

\* Two kinds of aToken: one with the controller alone, which is reconfigured, and
\* one whose stable distributors come, go and are funded at a steady emission.
Alone == sDistributors = <<>>
Steady(d) ==
  /\ assets[d].emissionPerSecond \in {0, Max(Emissions)}
  /\ assets[d].distributionEnd = Max(Ends)

MCInit == Init /\ \A d \in Distributors : d \in StableDistributors \/ ~Alone => Steady(d)
MCNext ==
  /\ Next
  /\ IF Alone
     THEN /\ now' <= MaxTime
          /\ sDistributors' = <<>>
          /\ \A d \in StableDistributors : assets'[d] = assets[d] /\ claimed'[d] = claimed[d]
          /\ assets'[Controller].balance = 0
     ELSE /\ now' <= MaxTimeListed
          /\ \A d \in Distributors : Steady(d)' /\ assets'[d].balance <= MaxBalance
  /\ scaledTotalSupply' <= MaxSupply
  /\ Len(sDistributors') <= MaxListed
MCSpec == MCInit /\ [][MCNext]_vars

UserSymmetry == Permutations(Users)
=============================================================================

--------------------------- MODULE MCYieldManager ---------------------------
(* Instances of YieldManager. *)
EXTENDS YieldManager

CONSTANT MaxSteps

VARIABLE steps   \* calls so far

MCInit == Init /\ steps = 0
MCNext == steps < MaxSteps /\ Next /\ steps' = steps + 1
MCSpec == MCInit /\ [][MCNext]_<<vars, steps>>

MCReserves == <<"USDC", "DAI", "USDT">>
MCSwapTypes == [CRV |-> "UNISWAP", BAL |-> "BALANCER"]
=============================================================================

-------------------------- MODULE MCToolExecution --------------------------
(* An editor tool (u3) beside one external effect: a reversible one (u1)   *)
(* or an irreversible one that reports its provider (u2).                  *)
EXTENDS ToolExecution

CONSTANTS u1, u2, u3

MCNext ==
    /\ Next
    /\ stage'[u2] # "idle" => stage'[u1] = "idle" /\ session'.generation < MaxGeneration

\* What Execute does once the token is redeemed.
Execution(u) == stage[u] # "granted" /\ Execute(u)
=============================================================================

----------------------------- MODULE MCGateway -----------------------------
(***************************************************************************)
(* The two concerns of the gateway.  Metering looks at a key's usage, the  *)
(* session at who holds which key: they share no variable, and no property *)
(* speaks of both.  So a step of one is no step for the other, and it is   *)
(* enough to let either run alone.                                         *)
(***************************************************************************)
EXTENDS GatewayQuota, DashboardSession, TLC

VARIABLE concern

GatewayInit ==
    /\ concern \in {"metering", "session"}
    /\ QuotaInit /\ Init

GatewayNext ==
    /\ \/ concern = "metering" /\ QuotaNext /\ UNCHANGED vars
       \/ concern = "session" /\ Next /\ UNCHANGED quotaVars
    /\ UNCHANGED concern

GatewaySpec == GatewayInit /\ [][GatewayNext]_<<concern, quotaVars, vars>>

Interchangeable ==
    Permutations(Wallets) \cup Permutations(Keys) \cup Permutations(Nonces)
        \cup Permutations(Slots)

=============================================================================

---------------------------- MODULE MCStablecoin ----------------------------
(***************************************************************************)
(* Instances of Stablecoin for TLC.                                        *)
(***************************************************************************)
EXTENDS Stablecoin, TLC

CONSTANTS alice, bob, a1, a2

\* alice deploys, so she starts as admin and operator; each owns an account.
OneEach == a1 :> alice @@ a2 :> bob

\* An open request whose hold is intact can be withdrawn by its holder at
\* once, paused or not, and by anybody once it has expired: nobody's tokens
\* can be locked up by the program (cancel_redemption_handler).
HolderCanExit ==
    \A r \in requests : r.nonce \notin released =>
        /\ ENABLED CancelRedemption(r.holder, r)
        /\ IsExpired(r) => \A k \in Keys : ENABLED CancelRedemption(k, r)
=============================================================================

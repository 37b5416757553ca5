------------------------ MODULE MCStablecoinConsole ------------------------
(***************************************************************************)
(* An instance of StablecoinConsole.                                       *)
(***************************************************************************)
EXTENDS StablecoinConsole, TLC

CONSTANTS alice, bob, a1

\* alice deploys the mint; the account is bob's.
BobsAccount == a1 :> bob
=============================================================================

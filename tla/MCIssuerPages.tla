--------------------------- MODULE MCIssuerPages ---------------------------
(***************************************************************************)
(* The pages over the issuer service, and the signatures on their calls.   *)
(* The pages take a signature only as a verdict of the service, whichever  *)
(* it is, and the signatures do not depend on what a page shows: the two   *)
(* share no variable and no property speaks of both, so it is enough to    *)
(* let either run alone.                                                   *)
(*                                                                         *)
(* One of two wallets is looked up; the other only changes the root.       *)
(***************************************************************************)
EXTENDS IssuerConsole, WalletAuth

VARIABLE concern

PagesInit ==
    /\ concern \in {"pages", "signatures"}
    /\ Init /\ AuthInit

PagesNext ==
    /\ \/ concern = "pages" /\ Next /\ UNCHANGED authVars
       \/ concern = "signatures" /\ AuthNext /\ UNCHANGED vars
    /\ UNCHANGED concern

PagesSpec == PagesInit /\ [][PagesNext]_<<concern, vars, authVars>>

Interchangeable == Permutations(Calls)
=============================================================================

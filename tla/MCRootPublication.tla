------------------------- MODULE MCRootPublication -------------------------
(* Instances of RootPublication for TLC.  The wallets and the lists are     *)
(* interchangeable.                                                        *)
EXTENDS RootPublication, TLC

Interchangeable == Permutations(Wallets) \cup Permutations(Lists)
=============================================================================

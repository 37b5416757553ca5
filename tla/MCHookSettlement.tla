-------------------------- MODULE MCHookSettlement --------------------------
(***************************************************************************)
(* Instances of HookSettlement for TLC.                                    *)
(***************************************************************************)
EXTENDS HookSettlement, TLC

CONSTANTS m1, m2, s1, j1, n1, n2, usd, eur, bob, carol

OldRoots == [merkle_root |-> m1, sanctions_root |-> s1, jurisdiction_root |-> j1]
NewRoots == [OldRoots EXCEPT !.merkle_root = m2]
ZeroSanctions == [OldRoots EXCEPT !.sanctions_root = ZeroRoot]

\* The circuit hashes the holder's key, mint, epoch, recipient and amount
\* into the nullifier: another recipient, day or mint is another nullifier.
\* The issuer and the roots do not enter it: the same transfer proved again,
\* against other roots or with another issuer's credential, has the same one.
ToBob == [nullifier_hash |-> n1, mint |-> usd, recipient |-> bob, amount |-> 1,
          epoch |-> 0]
ToCarol == [ToBob EXCEPT !.nullifier_hash = n2, !.recipient = carol]
NextDay == [ToBob EXCEPT !.nullifier_hash = n2, !.epoch = 1]

\* What finalize and verify_proof refuse; the first also names a mint that
\* does not have the hook.
NoAmount == [ToBob EXCEPT !.amount = 0, !.mint = eur]
NoNullifier == [ToBob EXCEPT !.nullifier_hash = ZeroNullifier]

TwoRoots == {OldRoots, NewRoots, ZeroSanctions}
OneRoot == {OldRoots}

ClockClaims == {ToBob, NextDay}
ClockProofs == [roots : {OldRoots, NewRoots}, claim : ClockClaims]

\* The bytes of two proofs may be mixed; only one of the claims is staged.
SharedClaims == {ToBob, NoAmount, NoNullifier}
SharedProofs == [roots : OneRoot, claim : {ToBob, ToCarol}]

\* No proof at all, and proofs against the first two roots.
FirstRoots == {-1, 0, 1}

\* Nothing tells two issuers apart.
Interchangeable == Permutations(Authorities)
=============================================================================

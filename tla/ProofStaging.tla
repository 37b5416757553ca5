----------------------------- MODULE ProofStaging -----------------------------
(***************************************************************************)
(* What a HookPayload account (programs/zksettle, transfer_hook) promises  *)
(* whoever stages a proof in it, without sizes, reallocation, offsets or   *)
(* transactions: the proof is written front to back, nothing written is    *)
(* written again, the claim comes last, and from then on the account can   *)
(* only be closed.                                                         *)
(***************************************************************************)
EXTENDS Integers, Sequences

CONSTANTS
    Owners,     \* whose accounts they are
    Lengths,    \* the lengths that are announced
    Proofs,     \* whose bytes are written
    Claims, NoClaim

VARIABLE account

\* An account that does not exist.
Absent == [stage |-> "none", length |-> 0, content |-> <<>>, claim |-> NoClaim]

StagingInit == account = [k \in Owners |-> Absent]

Becomes(k, a) == account' = [account EXCEPT ![k] = a]

Open(k, len) ==
    /\ account[k].stage = "none"
    /\ Becomes(k, [Absent EXCEPT !.stage = "staging", !.length = len])

\* The next n bytes are those of p.
Write(k, p, n) ==
    /\ account[k].stage = "staging"
    /\ Len(account[k].content) + n <= account[k].length
    /\ Becomes(k, [account[k] EXCEPT !.content = @ \o [i \in 1 .. n |-> p]])

Finalize(k, claim) ==
    /\ account[k].stage = "staging"
    /\ Len(account[k].content) = account[k].length
    /\ Becomes(k, [account[k] EXCEPT !.stage = "final", !.claim = claim])

Close(k) ==
    /\ account[k].stage # "none"
    /\ Becomes(k, Absent)

StagingNext ==
    \E k \in Owners :
       \/ \E len \in Lengths : Open(k, len)
       \/ \E p \in Proofs, n \in 1 .. account[k].length : Write(k, p, n)
       \/ \E c \in Claims : Finalize(k, c)
       \/ Close(k)

StagingSpec == StagingInit /\ [][StagingNext]_account
=============================================================================

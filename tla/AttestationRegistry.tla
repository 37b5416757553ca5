------------------------- MODULE AttestationRegistry -------------------------
(***************************************************************************)
(* What the zksettle program promises those who rely on attestations,      *)
(* without accounts, staging, Light or Bubblegum: an attestation is made   *)
(* in one step out of one whole proof of its claim, against the roots its  *)
(* issuer has at that moment and not for long, once per nullifier in each  *)
(* tree; and what is vouched for was attested not long ago.                *)
(***************************************************************************)
EXTENDS Integers, Sequences

CONSTANTS
    Authorities, Roots, NoIssuer,
    Proofs,         \* [roots, claim]
    Trees,
    NoCheck,
    MAX_ROOT_AGE_SLOTS, MAX_ATTESTATION_AGE_SLOTS, EPOCH_LEN_SECS, MAX_EPOCH_LAG

VARIABLES
    current,    \* the roots of each issuer and since which slot they are
    slot, now,
    attested,   \* the attestations, in order: whose, in which tree, of what, when
    vouched     \* the attestation that was last vouched for, and when

registryVars == <<current, slot, now, attested, vouched>>

RegistryInit ==
    /\ current = [k \in Authorities |-> NoIssuer]
    /\ slot = 0 /\ now = 0
    /\ attested = <<>>
    /\ vouched = NoCheck

Publish(k, roots) ==
    /\ current' = [current EXCEPT ![k] = [roots |-> roots, root_slot |-> slot]]
    /\ UNCHANGED <<slot, now, attested, vouched>>

\* A claim is for an epoch that has begun and ended at most MAX_EPOCH_LAG
\* epochs ago.
Timely(claim) ==
    /\ claim.epoch * EPOCH_LEN_SECS <= now
    /\ now < (claim.epoch + MAX_EPOCH_LAG + 1) * EPOCH_LEN_SECS

Spent(k, tree, claim) ==
    \E i \in DOMAIN attested :
       /\ attested[i].issuer = k /\ attested[i].tree = tree
       /\ attested[i].proof.claim.nullifier_hash = claim.nullifier_hash

Attest(k, p, tree) ==
    /\ current[k] # NoIssuer
    /\ p.roots = current[k].roots
    /\ slot - current[k].root_slot <= MAX_ROOT_AGE_SLOTS
    /\ Timely(p.claim)
    /\ ~Spent(k, tree, p.claim)
    /\ attested' = Append(attested,
          [issuer |-> k, tree |-> tree, proof |-> p, slot |-> slot, at |-> now])
    /\ UNCHANGED <<current, slot, now, vouched>>

\* The tree is not looked at.
Vouch(a) ==
    /\ slot - a.slot <= MAX_ATTESTATION_AGE_SLOTS
    /\ vouched' = [issuer |-> a.issuer, proof |-> a.proof, slot |-> a.slot,
                   checked |-> slot]
    /\ UNCHANGED <<current, slot, now, attested>>

NextSlot == slot' = slot + 1 /\ UNCHANGED <<current, now, attested, vouched>>
NextSecond == now' = now + 1 /\ UNCHANGED <<current, slot, attested, vouched>>

RegistryNext ==
    \/ \E k \in Authorities, r \in Roots : Publish(k, r)
    \/ \E k \in Authorities, p \in Proofs, t \in Trees : Attest(k, p, t)
    \/ \E i \in DOMAIN attested : Vouch(attested[i])
    \/ NextSlot \/ NextSecond

RegistrySpec == RegistryInit /\ [][RegistryNext]_registryVars
=============================================================================

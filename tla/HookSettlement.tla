--------------------------- MODULE HookSettlement ---------------------------
(***************************************************************************)
(* The zksettle program (backend/programs/zksettle): issuers publish the   *)
(* roots of their trees, stage a proof in a HookPayload account over       *)
(* several transactions, and settle it by settle_hook or inside a          *)
(* Token-2022 transfer (Execute); verify_proof settles a proof passed      *)
(* whole.  A settlement creates a nullifier and an attestation in a Light  *)
(* address tree and, on most paths, a leaf in the Bubblegum tree.          *)
(*                                                                         *)
(* One instruction is one action, each failing check a conjunct: a Solana  *)
(* transaction that fails changes nothing.  The PDA of an issuer and of    *)
(* its payload are derived from the authority that signs, so both are      *)
(* functions of the authority.                                             *)
(***************************************************************************)
EXTENDS Integers, Sequences

CONSTANTS
    Authorities,    \* the keys that may register as issuers
    Roots,          \* the roots they publish: [merkle_root, sanctions_root,
                    \* jurisdiction_root]
    ZeroRoot,       \* [0u8; 32] as a root
    Claims,         \* what is staged with a proof: [nullifier_hash, mint,
                    \* recipient, amount, epoch]
    ZeroNullifier,  \* [0u8; 32] as a nullifier
    Proofs,         \* the proofs that verify: [roots, claim], the public inputs
    NoIssuer, NoPayload, NoClaim, NoArgs, NoByte, NoCheck,
    HookedMints,    \* the Token-2022 mints whose hook is this program
    Trees,          \* the address trees of Light
    TreeRoots,      \* the roots of an address tree, by their number, that the
                    \* clients' validity proofs are made against
    ROOT_HISTORY,   \* how many of its last roots Light keeps for a tree
    Tails,          \* the values of bubblegum_tail that clients stage
    ProofLens,      \* the expected_proof_len that clients pass
    PROOF_LEN,      \* the length at which proof and witness parse
    MAX_HOOK_PROOF_BYTES,
    RESIZE_STEP,    \* how much one instruction may realloc
    BUBBLEGUM_MINT_V1_ACCOUNT_COUNT,
    MAX_LEAVES,     \* capacity of the Bubblegum tree, 2^BUBBLEGUM_MAX_DEPTH
    MAX_ROOT_AGE_SLOTS, MAX_ATTESTATION_AGE_SLOTS,
    EPOCH_LEN_SECS, MAX_EPOCH_LAG,
    MaxSlot, MaxTime, MaxPublications, MaxTreeRoots   \* bounds

ASSUME SettlementNumbers ==
    /\ PROOF_LEN \in Nat \ {0} /\ MAX_HOOK_PROOF_BYTES \in Nat
    /\ RESIZE_STEP \in Nat \ {0}
    /\ MAX_LEAVES \in Nat
    /\ MAX_ROOT_AGE_SLOTS \in Nat /\ MAX_ATTESTATION_AGE_SLOTS \in Nat
    /\ EPOCH_LEN_SECS \in Nat \ {0} /\ MAX_EPOCH_LAG \in Nat
    /\ MaxSlot \in Nat /\ MaxTime \in Nat /\ MaxPublications \in Nat
    /\ MaxTreeRoots \in Nat /\ ROOT_HISTORY \in Nat /\ TreeRoots \subseteq Int
    /\ ProofLens \subseteq Nat /\ Tails \subseteq Nat
    /\ \A c \in Claims : c.amount \in Nat /\ c.epoch \in Nat

VARIABLES
    issuers,    \* the Issuer account of each authority
    payload,    \* the HookPayload account of each authority
    registry,   \* whether the BubblegumTreeRegistry exists
    leaves,     \* the number of leaves in its tree
    metas,      \* the mints that have an ExtraAccountMetaList
    addresses,  \* Light: the addresses that exist
    tree_root,  \* Light: the number of the current root of each address tree
    slot, now,  \* Clock: slot and unix_timestamp
    settled,    \* the attestations, in the order of their settlement, with
                \* the address tree and, as history, the proof and the time
    published,  \* history: for each authority, the roots published so far
    checked     \* history: the last attestation that check_attestation passed

vars == <<issuers, payload, registry, leaves, metas, addresses, tree_root, slot,
          now, settled, published, checked>>

Issuer == [roots : Roots, root_slot : 0 .. MaxSlot]

\* The validity proof and address_root_index are one thing here, the root of
\* the tree that they go with; without a proof there is no such root (a
\* negative number).
StagedLightArgs == [tree : Trees, root : TreeRoots, bubblegum_tail : Tails]

HookPayload ==
    [expected_proof_len : 1 .. MAX_HOOK_PROOF_BYTES,
     space : 0 .. MAX_HOOK_PROOF_BYTES,
     high_water_mark : 0 .. MAX_HOOK_PROOF_BYTES,
     finalized : BOOLEAN,
     proof_and_witness : Seq(Proofs \cup {NoByte}),
     claim : Claims \cup {NoClaim},
     light_args : StagedLightArgs \cup {NoArgs}]

CompressedAttestation ==
    [issuer : Authorities, roots : Roots, claim : Claims, timestamp : Nat,
     slot : 0 .. MaxSlot]

Settlement ==
    [att : CompressedAttestation, proof : Proofs, tree : Trees, at : 0 .. MaxTime]

ASSUME SettlementNames ==
    /\ NoIssuer \notin Issuer
    /\ NoPayload \notin HookPayload
    /\ NoByte \notin Proofs
    /\ NoCheck \notin [att : CompressedAttestation, slot : 0 .. MaxSlot]

\* A proof binds its public inputs and nothing else.
ASSUME ProofShape == \A p \in Proofs : p = [roots |-> p.roots, claim |-> p.claim]

Init ==
    /\ issuers = [k \in Authorities |-> NoIssuer]
    /\ payload = [k \in Authorities |-> NoPayload]
    /\ registry = FALSE
    /\ leaves = 0
    /\ metas = {}
    /\ addresses = {}
    /\ tree_root = [t \in Trees |-> 0]
    /\ slot = 0 /\ now = 0
    /\ settled = <<>>
    /\ published = [k \in Authorities |-> <<>>]
    /\ checked = NoCheck

-----------------------------------------------------------------------------
(* Issuers and set-up.                                                     *)

NonZero(roots) ==
    /\ roots.merkle_root # ZeroRoot
    /\ roots.sanctions_root # ZeroRoot
    /\ roots.jurisdiction_root # ZeroRoot

\* The roots and the slot are written together.
Publish(k, roots) ==
    /\ NonZero(roots)
    /\ Len(published[k]) < MaxPublications
    /\ issuers' = [issuers EXCEPT ![k] = [roots |-> roots, root_slot |-> slot]]
    /\ published' = [published EXCEPT
                       ![k] = Append(@, [roots |-> roots, slot |-> slot])]
    /\ UNCHANGED <<payload, registry, leaves, metas, addresses, tree_root, slot,
                   now, settled, checked>>

RegisterIssuer(k, roots) == issuers[k] = NoIssuer /\ Publish(k, roots)

UpdateIssuerRoot(k, roots) == issuers[k] # NoIssuer /\ Publish(k, roots)

InitAttestationTree(k) ==
    /\ issuers[k] # NoIssuer
    /\ ~registry
    /\ registry' = TRUE
    /\ UNCHANGED <<issuers, payload, leaves, metas, addresses, tree_root, slot,
                   now, settled, published, checked>>

InitExtraAccountMetaList(k, mint) ==
    /\ issuers[k] # NoIssuer
    /\ mint \in HookedMints         \* validate_mint_has_hook
    /\ mint \notin metas            \* create_account fails for an existing one
    /\ metas' = metas \cup {mint}
    /\ UNCHANGED <<issuers, payload, registry, leaves, addresses, tree_root, slot,
                   now, settled, published, checked>>

-----------------------------------------------------------------------------
(* Staging a proof.  The account grows first, then the proof is written    *)
(* front to back, then the claim it is to be settled for is added.         *)

InitHookPayload(k, len) ==
    /\ issuers[k] # NoIssuer
    /\ payload[k] = NoPayload
    /\ len > 0 /\ len <= MAX_HOOK_PROOF_BYTES
    /\ payload' = [payload EXCEPT
          ![k] = [expected_proof_len |-> len, space |-> 0, high_water_mark |-> 0,
                  finalized |-> FALSE, proof_and_witness |-> <<>>,
                  claim |-> NoClaim, light_args |-> NoArgs]]
    /\ UNCHANGED <<issuers, registry, leaves, metas, addresses, tree_root, slot,
                   now, settled, published, checked>>

\* resize, write and finalize: the payload exists and is not finalized.
CanModify(k) ==
    /\ issuers[k] # NoIssuer
    /\ payload[k] # NoPayload
    /\ ~payload[k].finalized

\* Once the account is large enough the proof vector is allocated.
Grown(p) ==
    LET enough == p.space + RESIZE_STEP >= p.expected_proof_len
    IN  [p EXCEPT
          !.space = IF enough THEN p.expected_proof_len ELSE @ + RESIZE_STEP,
          !.proof_and_witness =
             IF enough THEN [i \in 1 .. p.expected_proof_len |-> NoByte] ELSE @]

\* Mutated: the vector is allocated again when the account has its size.
ResizeAgain(k) ==
    /\ CanModify(k)
    /\ payload' = [payload EXCEPT ![k] = Grown(@)]
    /\ UNCHANGED <<issuers, registry, leaves, metas, addresses, tree_root, slot,
                   now, settled, published, checked>>

\* An account of its full size is left as it is.
ResizeHookPayload(k) ==
    /\ CanModify(k)
    /\ payload' = [payload EXCEPT
          ![k] = IF @.space >= @.expected_proof_len THEN @ ELSE Grown(@)]
    /\ UNCHANGED <<issuers, registry, leaves, metas, addresses, tree_root, slot,
                   now, settled, published, checked>>

\* Writes the next n bytes of proof p.  Before the vector is allocated any
\* byte is out of bounds and the program panics.
WriteHookProof(k, offset, p, n) ==
    LET end == offset + n IN
    /\ CanModify(k)
    /\ offset = payload[k].high_water_mark
    /\ end <= payload[k].expected_proof_len
    /\ end <= Len(payload[k].proof_and_witness)
    /\ payload' = [payload EXCEPT
          ![k].proof_and_witness =
             [i \in DOMAIN @ |-> IF i \in offset + 1 .. end THEN p ELSE @[i]],
          ![k].high_water_mark = end]
    /\ UNCHANGED <<issuers, registry, leaves, metas, addresses, tree_root, slot,
                   now, settled, published, checked>>

FinalizeHookPayload(k, claim, args) ==
    /\ claim.nullifier_hash # ZeroNullifier
    /\ claim.amount > 0
    /\ CanModify(k)
    /\ payload[k].high_water_mark = payload[k].expected_proof_len
    /\ payload' = [payload EXCEPT ![k].claim = claim, ![k].light_args = args,
                                  ![k].finalized = TRUE]
    /\ UNCHANGED <<issuers, registry, leaves, metas, addresses, tree_root, slot,
                   now, settled, published, checked>>

CloseHookPayload(k) ==
    /\ payload[k] # NoPayload
    /\ payload' = [payload EXCEPT ![k] = NoPayload]
    /\ UNCHANGED <<issuers, registry, leaves, metas, addresses, tree_root, slot,
                   now, settled, published, checked>>

-----------------------------------------------------------------------------
(* Settling.                                                               *)

RootsFresh(k) == slot - issuers[k].root_slot <= MAX_ROOT_AGE_SLOTS

\* Mutated: off by one.
LaxEpoch(epoch) ==
    /\ epoch <= now \div EPOCH_LEN_SECS
    /\ now \div EPOCH_LEN_SECS - epoch <= MAX_EPOCH_LAG + 1

ValidateEpoch(epoch) ==
    /\ epoch <= now \div EPOCH_LEN_SECS
    /\ now \div EPOCH_LEN_SECS - epoch <= MAX_EPOCH_LAG

\* Mutated: the roots in the witness are not bound to the issuer's.
VerifyUnbound(bytes, k, claim) ==
    \E p \in Proofs : /\ bytes = [i \in 1 .. PROOF_LEN |-> p]
                     /\ p.claim = claim

\* The bytes are one proof, whole, and its public inputs are the claim and
\* the roots that the issuer has now.
VerifyBundle(bytes, k, claim) ==
    \E p \in Proofs : /\ bytes = [i \in 1 .. PROOF_LEN |-> p]
                     /\ p.claim = claim
                     /\ p.roots = issuers[k].roots

\* Mutated: two issuers share the nullifiers.
AddressWithoutIssuer(tree, k, claim) == <<tree, claim.nullifier_hash>>

\* derive_address: of the nullifier and, with another seed, the attestation.
LightAddress(tree, k, claim) == <<tree, k, claim.nullifier_hash>>

\* A validity proof holds as long as Light keeps the root it goes with.
ProofHolds(tree, root) ==
    /\ root \in 0 .. tree_root[tree]
    /\ tree_root[tree] - root < ROOT_HISTORY

\* Mutated: an address that exists is written again.
SettleAgain(k, bytes, claim, tree, root) ==
    /\ ProofHolds(tree, root)
    /\ addresses' = addresses \cup {LightAddress(tree, k, claim)}
    /\ settled' = Append(settled,
          [att |-> [issuer |-> k, roots |-> issuers[k].roots, claim |-> claim,
                    timestamp |-> claim.epoch * EPOCH_LEN_SECS, slot |-> slot],
           proof |-> bytes[1], tree |-> tree, at |-> now])

\* The Light CPI fails when the validity proof has gone stale, and when the
\* address exists.
SettleCore(k, bytes, claim, tree, root) ==
    /\ ProofHolds(tree, root)
    /\ LightAddress(tree, k, claim) \notin addresses
    /\ addresses' = addresses \cup {LightAddress(tree, k, claim)}
    /\ settled' = Append(settled,
          [att |-> [issuer |-> k, roots |-> issuers[k].roots, claim |-> claim,
                    timestamp |-> claim.epoch * EPOCH_LEN_SECS, slot |-> slot],
           proof |-> bytes[1], tree |-> tree, at |-> now])

\* The Bubblegum CPI fails when the tree is full.
MintLeaf ==
    /\ leaves < MAX_LEAVES
    /\ leaves' = leaves + 1

\* The part common to settle_hook and Execute: the staged claim is the one
\* that the accounts and the amount of the call name, and it verifies.
RunSettlement(k, mint, destination, amount) ==
    LET p == payload[k] IN
    /\ p # NoPayload
    /\ registry
    /\ p.finalized
    /\ amount > 0
    /\ p.claim.mint = mint
    /\ p.claim.recipient = destination
    /\ p.claim.amount = amount
    /\ RootsFresh(k)
    /\ ValidateEpoch(p.claim.epoch)
    /\ VerifyBundle(p.proof_and_witness, k, p.claim)
    /\ SettleCore(k, p.proof_and_witness, p.claim, p.light_args.tree, p.light_args.root)

\* Closes the payload.
SettleHook(k, mint, destination, amount) ==
    /\ RunSettlement(k, mint, destination, amount)
    /\ MintLeaf
    /\ payload' = [payload EXCEPT ![k] = NoPayload]
    /\ UNCHANGED <<issuers, registry, metas, tree_root, slot, now, published, checked>>

\* Mutated: a leaf is minted whatever tail was staged.
ExecuteAlwaysMints(k, mint, destination, amount) ==
    /\ mint \in HookedMints /\ mint \in metas
    /\ RunSettlement(k, mint, destination, amount)
    /\ payload[k].light_args.bubblegum_tail \in {0, BUBBLEGUM_MINT_V1_ACCOUNT_COUNT}
    /\ MintLeaf
    /\ UNCHANGED <<issuers, payload, registry, metas, tree_root, slot, now,
                   published, checked>>

\* Called by Token-2022 within a transfer that the owner k signed.  The
\* payload stays.  The extra accounts come from the meta list of the mint.
ExecuteHook(k, mint, destination, amount) ==
    /\ mint \in HookedMints /\ mint \in metas
    /\ RunSettlement(k, mint, destination, amount)
    /\ \/ payload[k].light_args.bubblegum_tail = 0 /\ UNCHANGED leaves
       \/ /\ payload[k].light_args.bubblegum_tail = BUBBLEGUM_MINT_V1_ACCOUNT_COUNT
          /\ MintLeaf
    /\ UNCHANGED <<issuers, payload, registry, metas, tree_root, slot, now,
                   published, checked>>

\* Anybody may pay for this one; the proof and the claim are its arguments.
VerifyProof(k, p, claim, tree, root) ==
    /\ issuers[k] # NoIssuer
    /\ registry
    /\ RootsFresh(k)
    /\ claim.nullifier_hash # ZeroNullifier
    /\ claim.amount > 0
    /\ ValidateEpoch(claim.epoch)
    /\ LET bytes == [i \in 1 .. PROOF_LEN |-> p] IN
          /\ VerifyBundle(bytes, k, claim)
          /\ SettleCore(k, bytes, claim, tree, root)
    /\ MintLeaf
    /\ UNCHANGED <<issuers, payload, registry, metas, tree_root, slot, now,
                   published, checked>>

\* Mutated: the age of the attestation is not checked.
AnyAge(att) == TRUE

ValidateAge(att) == slot - att.slot <= MAX_ATTESTATION_AGE_SLOTS

\* Reads an attestation that exists; the nullifier and the issuer that the
\* caller names must be the attestation's.
CheckAttestation(att, k, nullifier_hash) ==
    /\ issuers[k] # NoIssuer
    /\ ValidateAge(att)
    /\ att.claim.nullifier_hash = nullifier_hash
    /\ att.issuer = k
    /\ checked' = [att |-> att, slot |-> slot]
    /\ UNCHANGED <<issuers, payload, registry, leaves, metas, addresses, tree_root,
                   slot, now, settled, published>>

\* The two clocks advance on their own.
NextSlot ==
    /\ slot < MaxSlot
    /\ slot' = slot + 1
    /\ UNCHANGED <<issuers, payload, registry, leaves, metas, addresses, tree_root,
                   now, settled, published, checked>>

NextSecond ==
    /\ now < MaxTime
    /\ now' = now + 1
    /\ UNCHANGED <<issuers, payload, registry, leaves, metas, addresses, tree_root,
                   slot, settled, published, checked>>

\* Light: addresses created meanwhile, by this program or any other, have
\* entered the tree; the oldest root is forgotten.
TreeMovesOn(tree) ==
    /\ tree_root[tree] < MaxTreeRoots
    /\ tree_root' = [tree_root EXCEPT ![tree] = @ + 1]
    /\ UNCHANGED <<issuers, payload, registry, leaves, metas, addresses, slot,
                   now, settled, published, checked>>

-----------------------------------------------------------------------------

IssuerStep(k) ==
    \/ \E r \in Roots : RegisterIssuer(k, r) \/ UpdateIssuerRoot(k, r)
    \/ InitAttestationTree(k)
    \/ \E c \in Claims : InitExtraAccountMetaList(k, c.mint)

StagingStep(k) ==
    \/ \E n \in ProofLens : InitHookPayload(k, n)
    \/ ResizeHookPayload(k)
    \/ \E offset, n \in 0 .. MAX_HOOK_PROOF_BYTES, p \in Proofs :
          WriteHookProof(k, offset, p, n)
    \/ \E c \in Claims, args \in StagedLightArgs :
          /\ args.root <= tree_root[args.tree]     \* no proof of a later root
          /\ FinalizeHookPayload(k, c, args)
    \/ CloseHookPayload(k)

SettlementStep(k) ==
    \/ \E c \in Claims : SettleHook(k, c.mint, c.recipient, c.amount)
    \/ \E c \in Claims : ExecuteHook(k, c.mint, c.recipient, c.amount)
    \/ \E p \in Proofs, c \in Claims, t \in Trees, r \in TreeRoots :
          VerifyProof(k, p, c, t, r)
    \/ \E i \in DOMAIN settled, c \in Claims :
          CheckAttestation(settled[i].att, k, c.nullifier_hash)

Next ==
    \/ \E k \in Authorities : IssuerStep(k) \/ StagingStep(k) \/ SettlementStep(k)
    \/ \E t \in Trees : TreeMovesOn(t)
    \/ NextSlot
    \/ NextSecond

Spec == Init /\ [][Next]_vars

-----------------------------------------------------------------------------
(* Properties.                                                             *)

\* Every account holds values of its Rust type.
TypeOK ==
    /\ issuers \in [Authorities -> Issuer \cup {NoIssuer}]
    /\ payload \in [Authorities -> HookPayload \cup {NoPayload}]
    /\ registry \in BOOLEAN
    /\ leaves \in 0 .. MAX_LEAVES
    /\ metas \subseteq HookedMints
    /\ tree_root \in [Trees -> 0 .. MaxTreeRoots]
    /\ slot \in 0 .. MaxSlot /\ now \in 0 .. MaxTime
    /\ settled \in Seq(Settlement)
    /\ published \in [Authorities -> Seq([roots : Roots, slot : 0 .. MaxSlot])]

\* A nullifier of an issuer settles once in an address tree, over all three
\* ways to settle, although Execute leaves the payload behind and a closed
\* payload can be staged again (settle_core).
SettledOncePerTree ==
    \A i, j \in DOMAIN settled :
        LET a == settled[i]
            b == settled[j]
        IN  a.tree = b.tree /\ a.att.issuer = b.att.issuer
               /\ a.att.claim.nullifier_hash = b.att.claim.nullifier_hash
            => i = j

\* A finalized payload holds a proof of the announced length of which every
\* byte was written, however resize and write were interleaved
\* (resize_hook_payload_handler, write_hook_proof_handler).
FinalizedIsComplete ==
    \A k \in Authorities :
        payload[k] # NoPayload /\ payload[k].finalized =>
          /\ Len(payload[k].proof_and_witness) = payload[k].expected_proof_len
          /\ \A i \in DOMAIN payload[k].proof_and_witness :
                payload[k].proof_and_witness[i] # NoByte
          /\ payload[k].claim \in Claims

\* roots were those of issuer k at slot s, and not too old.
WereCurrent(k, roots, s) ==
    \E i \in DOMAIN published[k] :
        /\ published[k][i].roots = roots
        /\ published[k][i].slot <= s
        /\ s - published[k][i].slot <= MAX_ROOT_AGE_SLOTS
        /\ i < Len(published[k]) => s <= published[k][i + 1].slot

\* Whatever was published while its proof was being staged, an attestation
\* says what was proved, and that against roots which its issuer had
\* published, not replaced and not let grow stale at the slot of the
\* settlement (run_settlement, verify_proof).
AttestedAgainstCurrentRoots ==
    \A i \in DOMAIN settled :
        LET att == settled[i].att IN
        /\ settled[i].proof = [roots |-> att.roots, claim |-> att.claim]
        /\ WereCurrent(att.issuer, att.roots, att.slot)

\* The timestamp that the circuit compares with the credential's expiry lies
\* in the past and less than MAX_EPOCH_LAG + 1 epochs back (validate_epoch).
TimestampRecent ==
    \A i \in DOMAIN settled :
        LET late == settled[i].at - settled[i].att.timestamp
        IN  0 <= late /\ late < (MAX_EPOCH_LAG + 1) * EPOCH_LEN_SECS

\* An attestation that check_attestation passes vouches for roots that were
\* current at most MAX_ATTESTATION_AGE_SLOTS before: a replaced root is not
\* honoured for longer (validate_attestation).
ReplacedRootsExpire ==
    checked # NoCheck =>
        \E s \in checked.slot - MAX_ATTESTATION_AGE_SLOTS .. checked.slot :
            WereCurrent(checked.att.issuer, checked.att.roots, s)

\* A finalized payload that verifies now, whose nullifier its own issuer has
\* not spent and whose validity proof has not gone stale.
Ready(k) ==
    LET p == payload[k] IN
    /\ p # NoPayload /\ p.finalized /\ registry
    /\ RootsFresh(k) /\ ValidateEpoch(p.claim.epoch)
    /\ VerifyBundle(p.proof_and_witness, k, p.claim)
    /\ ProofHolds(p.light_args.tree, p.light_args.root)
    /\ \A i \in DOMAIN settled :
          <<settled[i].att.issuer, settled[i].att.claim.nullifier_hash>>
             # <<k, p.claim.nullifier_hash>>

\* What other issuers settle stands in the way of a payload that is ready
\* only by filling the attestation tree or by moving the address tree on
\* until Light has forgotten the root of its validity proof; short of that it
\* settles (derive_address, StagedLightArgs).
OthersDoNotBlock ==
    \A k \in Authorities :
        Ready(k) /\ leaves < MAX_LEAVES =>
           LET c == payload[k].claim
           IN  ENABLED SettleHook(k, c.mint, c.recipient, c.amount)

\* The attestation tree cannot be replaced once it is full.  A transfer whose
\* payload asks for no leaf still settles then, while its validity proof
\* holds (execute_hook_handler).
TransfersOutliveTheTree ==
    \A k \in Authorities :
        Ready(k) /\ payload[k].light_args.bubblegum_tail = 0
                 /\ payload[k].claim.mint \in metas =>
           LET c == payload[k].claim
           IN  ENABLED ExecuteHook(k, c.mint, c.recipient, c.amount)

\* What was finalized stays as it is until the payload is closed: the claim
\* that a transfer is checked against is the one its sender staged
\* (the constraint of ModifyHookPayload and ResizeHookPayload).
FinalizedIsFixed ==
    [][\A k \in Authorities :
          payload[k] # NoPayload /\ payload[k] # payload'[k]
             /\ payload[k].finalized => payload'[k] = NoPayload]_vars

-----------------------------------------------------------------------------
(* The abstract specifications.                                            *)

\* A payload account as its owner means it: the bytes written so far.
AccountOf(p) ==
    IF p = NoPayload
    THEN [stage |-> "none", length |-> 0, content |-> <<>>, claim |-> NoClaim]
    ELSE [stage |-> IF p.finalized THEN "final" ELSE "staging",
          length |-> p.expected_proof_len,
          content |-> [i \in 1 .. p.high_water_mark |-> p.proof_and_witness[i]],
          claim |-> p.claim]

Staging == INSTANCE ProofStaging WITH
    Owners <- Authorities, Lengths <- ProofLens,
    account <- [k \in Authorities |-> AccountOf(payload[k])]

\* However resizes, writes and settlements of all issuers interleave, each
\* payload account is written front to back, completed once and then only
\* closed (transfer_hook/handlers.rs).
ImplementsStaging == Staging!StagingSpec

\* An attestation as those who rely on it see it.
AttestationOf(s) ==
    [issuer |-> s.att.issuer, tree |-> s.tree, proof |-> s.proof,
     slot |-> s.att.slot, at |-> s.at]

Registry == INSTANCE AttestationRegistry WITH
    current <- issuers,
    attested <- [i \in DOMAIN settled |-> AttestationOf(settled[i])],
    vouched <- IF checked = NoCheck THEN NoCheck
               ELSE [issuer |-> checked.att.issuer,
                     proof |-> [roots |-> checked.att.roots,
                                claim |-> checked.att.claim],
                     slot |-> checked.att.slot, checked |-> checked.slot]

\* To those who rely on attestations the three ways to settle, with proofs
\* staged over many transactions and addresses that Light keeps, are one
\* step each that looks at one proof and the issuer's roots of that moment
\* (run_settlement, verify_proof_handler, check_attestation_handler).
ImplementsRegistry == Registry!RegistrySpec
=============================================================================

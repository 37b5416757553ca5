------------------------ MODULE HookSettlementProofs ------------------------
(***************************************************************************)
(* Proofs about HookSettlement, for every set of issuers, claims, proofs   *)
(* and address trees, every proof length and every resize step.            *)
(***************************************************************************)
EXTENDS HookSettlement, SequenceTheorems, TLAPS

-----------------------------------------------------------------------------
(* The inductive invariant.                                                *)

\* What holds of a payload between any two instructions: the proof vector is
\* empty until the account has its full size, the bytes below the high water
\* mark are written, and a finalized payload lacks nothing.
Staged(p) ==
    /\ Len(p.proof_and_witness) = IF p.space >= p.expected_proof_len
                                  THEN p.expected_proof_len ELSE 0
    /\ p.high_water_mark <= Len(p.proof_and_witness)
    /\ \A i \in 1 .. p.high_water_mark : p.proof_and_witness[i] # NoByte
    /\ p.finalized => /\ p.high_water_mark = p.expected_proof_len
                      /\ p.claim \in Claims
                      /\ p.light_args \in StagedLightArgs

\* A payload belongs to a registered issuer and is well staged.
PayloadsStaged ==
    \A k \in Authorities :
        payload[k] # NoPayload => issuers[k] # NoIssuer /\ Staged(payload[k])

\* The address of every attestation is taken.
AddressesTaken ==
    \A i \in DOMAIN settled :
        LightAddress(settled[i].tree, settled[i].att.issuer, settled[i].att.claim)
           \in addresses

\* A step of Light's.
TreeMoves == \E t \in Trees : TreeMovesOn(t)

IInv == TypeOK /\ PayloadsStaged /\ AddressesTaken /\ SettledOncePerTree

-----------------------------------------------------------------------------
(* Sequences and numbers.                                                  *)

\* A function on 1..n is a sequence of length n.
LEMMA FunctionIsSeq ==
    ASSUME NEW S, NEW n \in Nat, NEW f \in [1 .. n -> S]
    PROVE  f \in Seq(S) /\ Len(f) = n
  <1>1. f \in Seq(S)
    BY SeqDef
  <1>2. Len(f) \in Nat /\ 1 .. Len(f) = 1 .. n
    BY <1>1, LenProperties
  <1>3. QED
    BY <1>1, <1>2

\* Products of natural numbers are natural numbers.
LEMMA ProductType == ASSUME NEW m \in Nat, NEW n \in Nat PROVE m * n \in Nat
  OBVIOUS

-----------------------------------------------------------------------------
(* What staging does to a payload.                                         *)

\* init_hook_payload creates a well-typed payload that is well staged.
LEMMA FreshPayload ==
    ASSUME NEW len \in ProofLens, len > 0, len <= MAX_HOOK_PROOF_BYTES,
           NEW p, p = [expected_proof_len |-> len, space |-> 0,
                       high_water_mark |-> 0, finalized |-> FALSE,
                       proof_and_witness |-> <<>>, claim |-> NoClaim,
                       light_args |-> NoArgs]
    PROVE  p \in HookPayload /\ Staged(p)
  <1>1. len \in 1 .. MAX_HOOK_PROOF_BYTES /\ 0 \in 0 .. MAX_HOOK_PROOF_BYTES
    BY SettlementNumbers
  <1>2. <<>> \in Seq(Proofs \cup {NoByte}) /\ Len(<<>>) = 0
    BY EmptySeq
  <1>3. p \in HookPayload
    BY <1>1, <1>2 DEF HookPayload
  <1>4. Staged(p)
    BY <1>1, <1>2, SettlementNumbers DEF Staged
  <1>5. QED
    BY <1>3, <1>4

\* resize_hook_payload allocates the vector only while nothing is written.
LEMMA GrownPayload ==
    ASSUME NEW p \in HookPayload, Staged(p), ~p.finalized,
           p.space < p.expected_proof_len
    PROVE  Grown(p) \in HookPayload /\ Staged(Grown(p))
  <1> DEFINE enough == p.space + RESIZE_STEP >= p.expected_proof_len
             blank == [i \in 1 .. p.expected_proof_len |-> NoByte]
             space == IF enough THEN p.expected_proof_len ELSE p.space + RESIZE_STEP
             bytes == IF enough THEN blank ELSE p.proof_and_witness
  <1>1. /\ p.expected_proof_len \in 1 .. MAX_HOOK_PROOF_BYTES
        /\ p.space \in 0 .. MAX_HOOK_PROOF_BYTES
        /\ p.high_water_mark \in 0 .. MAX_HOOK_PROOF_BYTES
        /\ p.proof_and_witness \in Seq(Proofs \cup {NoByte})
        /\ MAX_HOOK_PROOF_BYTES \in Nat /\ RESIZE_STEP \in Nat \ {0}
    BY SettlementNumbers DEF HookPayload
  <1>2. blank \in Seq(Proofs \cup {NoByte}) /\ Len(blank) = p.expected_proof_len
    <2>1. p.expected_proof_len \in Nat
      BY <1>1
    <2>2. blank \in [1 .. p.expected_proof_len -> Proofs \cup {NoByte}]
      OBVIOUS
    <2>3. QED
      BY <2>1, <2>2, FunctionIsSeq
  <1>3. Len(p.proof_and_witness) = 0 /\ p.high_water_mark = 0
    BY <1>1 DEF Staged
  <1>4. Grown(p) = [p EXCEPT !.space = space, !.proof_and_witness = bytes]
    BY DEF Grown
  <1>5. /\ space \in 0 .. MAX_HOOK_PROOF_BYTES
        /\ bytes \in Seq(Proofs \cup {NoByte})
        /\ Len(bytes) = IF space >= p.expected_proof_len
                        THEN p.expected_proof_len ELSE 0
    BY <1>1, <1>2, <1>3
  <1> HIDE DEF space, bytes
  <1>6. Grown(p) \in HookPayload
    BY <1>4, <1>5 DEF HookPayload
  <1>7. /\ Grown(p).space = space
        /\ Grown(p).proof_and_witness = bytes
        /\ Grown(p).expected_proof_len = p.expected_proof_len
        /\ Grown(p).high_water_mark = 0
        /\ ~Grown(p).finalized
    BY <1>3, <1>4 DEF HookPayload
  <1>8. Staged(Grown(p))
    BY <1>1, <1>5, <1>7 DEF Staged
  <1>9. QED
    BY <1>6, <1>8

\* write_hook_proof extends the written prefix.
LEMMA WrittenPayload ==
    ASSUME NEW p \in HookPayload, Staged(p), ~p.finalized,
           NEW proof \in Proofs, NEW n \in Nat,
           p.high_water_mark + n <= p.expected_proof_len,
           p.high_water_mark + n <= Len(p.proof_and_witness),
           NEW bytes,
           bytes = [i \in DOMAIN p.proof_and_witness |->
                       IF i \in p.high_water_mark + 1 .. p.high_water_mark + n
                       THEN proof ELSE p.proof_and_witness[i]],
           NEW q,
           q = [p EXCEPT !.proof_and_witness = bytes,
                         !.high_water_mark = p.high_water_mark + n]
    PROVE  q \in HookPayload /\ Staged(q)
  <1>1. /\ p.expected_proof_len \in 1 .. MAX_HOOK_PROOF_BYTES
        /\ p.space \in 0 .. MAX_HOOK_PROOF_BYTES
        /\ p.high_water_mark \in 0 .. MAX_HOOK_PROOF_BYTES
        /\ p.proof_and_witness \in Seq(Proofs \cup {NoByte})
        /\ MAX_HOOK_PROOF_BYTES \in Nat
    BY SettlementNumbers DEF HookPayload
  <1>2. /\ Len(p.proof_and_witness) \in Nat
        /\ DOMAIN p.proof_and_witness = 1 .. Len(p.proof_and_witness)
        /\ \A i \in 1 .. Len(p.proof_and_witness) :
              p.proof_and_witness[i] \in Proofs \cup {NoByte}
    BY <1>1, LenProperties
  <1>3. bytes \in [1 .. Len(p.proof_and_witness) -> Proofs \cup {NoByte}]
    BY <1>2
  <1>4. /\ bytes \in Seq(Proofs \cup {NoByte})
        /\ Len(bytes) = Len(p.proof_and_witness)
    BY <1>2, <1>3, FunctionIsSeq
  <1>5. p.high_water_mark + n \in 0 .. MAX_HOOK_PROOF_BYTES
    BY <1>1
  <1>6. \A i \in 1 .. p.high_water_mark + n : bytes[i] # NoByte
    <2>1. SUFFICES ASSUME NEW i \in 1 .. p.high_water_mark + n
                   PROVE  bytes[i] # NoByte
      OBVIOUS
    <2>2. i \in DOMAIN p.proof_and_witness
      BY <1>1, <1>2
    <2>3. CASE i <= p.high_water_mark
      <3>1. i \in 1 .. p.high_water_mark /\ i \notin p.high_water_mark + 1 .. p.high_water_mark + n
        BY <1>1, <2>3
      <3>2. QED
        BY <2>2, <3>1 DEF Staged
    <2>4. CASE ~(i <= p.high_water_mark)
      <3>1. i \in p.high_water_mark + 1 .. p.high_water_mark + n
        BY <1>1, <2>4
      <3>2. QED
        BY <2>2, <3>1, SettlementNames
    <2>5. QED
      BY <2>3, <2>4
  <1>7. q \in HookPayload
    BY <1>4, <1>5 DEF HookPayload
  <1>8. /\ q.proof_and_witness = bytes /\ q.high_water_mark = p.high_water_mark + n
        /\ q.space = p.space /\ q.expected_proof_len = p.expected_proof_len
        /\ ~q.finalized
    BY DEF HookPayload
  <1>9. Staged(q)
    BY <1>1, <1>4, <1>6, <1>8 DEF Staged
  <1>10. QED
    BY <1>7, <1>9

-----------------------------------------------------------------------------
(* Steps that change one payload and nothing else.                         *)

\* Replacing the payload of a registered issuer by a well-staged one, or
\* creating it, preserves the invariant.
LEMMA PayloadReplaced ==
    ASSUME IInv, NEW k \in Authorities, issuers[k] # NoIssuer,
           NEW q \in HookPayload, Staged(q),
           payload' = [payload EXCEPT ![k] = q],
           UNCHANGED <<issuers, registry, leaves, metas, addresses, tree_root,
                       slot, now, settled, published>>
    PROVE  IInv'
  <1>1. TypeOK'
    BY DEF IInv, TypeOK
  <1>2. PayloadsStaged'
    BY DEF IInv, TypeOK, PayloadsStaged
  <1>3. AddressesTaken' /\ SettledOncePerTree'
    BY DEF IInv, AddressesTaken, SettledOncePerTree, LightAddress
  <1>4. QED
    BY <1>1, <1>2, <1>3 DEF IInv

\* close_hook_payload preserves the invariant.
LEMMA CloseInv ==
    ASSUME IInv, NEW k \in Authorities, CloseHookPayload(k)
    PROVE  IInv'
  <1>1. TypeOK'
    BY DEF IInv, TypeOK, CloseHookPayload
  <1>2. PayloadsStaged'
    BY DEF IInv, TypeOK, PayloadsStaged, CloseHookPayload
  <1>3. AddressesTaken' /\ SettledOncePerTree'
    BY DEF IInv, AddressesTaken, SettledOncePerTree, LightAddress, CloseHookPayload
  <1>4. QED
    BY <1>1, <1>2, <1>3 DEF IInv

\* init_hook_payload preserves the invariant.
LEMMA InitPayloadInv ==
    ASSUME IInv, NEW k \in Authorities, NEW len \in ProofLens,
           InitHookPayload(k, len)
    PROVE  IInv'
  <1> DEFINE q == [expected_proof_len |-> len, space |-> 0,
                   high_water_mark |-> 0, finalized |-> FALSE,
                   proof_and_witness |-> <<>>, claim |-> NoClaim,
                   light_args |-> NoArgs]
  <1>1. len > 0 /\ len <= MAX_HOOK_PROOF_BYTES
    BY DEF InitHookPayload
  <1>2. q \in HookPayload /\ Staged(q)
    BY <1>1, FreshPayload
  <1>3. /\ issuers[k] # NoIssuer
        /\ payload' = [payload EXCEPT ![k] = q]
        /\ UNCHANGED <<issuers, registry, leaves, metas, addresses, tree_root,
                       slot, now, settled, published>>
    BY DEF InitHookPayload
  <1> HIDE DEF q
  <1>4. QED
    BY <1>2, <1>3, PayloadReplaced

\* A payload that may be modified is well typed, well staged and open.
LEMMA Modifiable ==
    ASSUME IInv, NEW k \in Authorities, CanModify(k)
    PROVE  /\ issuers[k] # NoIssuer
           /\ payload[k] \in HookPayload
           /\ Staged(payload[k])
           /\ ~payload[k].finalized
  BY DEF IInv, TypeOK, PayloadsStaged, CanModify

\* resize_hook_payload preserves the invariant.
LEMMA ResizeInv ==
    ASSUME IInv, NEW k \in Authorities, ResizeHookPayload(k)
    PROVE  IInv'
  <1> DEFINE q == IF payload[k].space >= payload[k].expected_proof_len
                  THEN payload[k] ELSE Grown(payload[k])
  <1>1. /\ issuers[k] # NoIssuer
        /\ payload[k] \in HookPayload
        /\ Staged(payload[k])
        /\ ~payload[k].finalized
    BY Modifiable DEF ResizeHookPayload
  <1>2. q \in HookPayload /\ Staged(q)
    <2>1. CASE payload[k].space >= payload[k].expected_proof_len
      BY <1>1, <2>1
    <2>2. CASE ~(payload[k].space >= payload[k].expected_proof_len)
      <3>1. payload[k].space < payload[k].expected_proof_len
        BY <1>1, <2>2, SettlementNumbers DEF HookPayload
      <3>2. Grown(payload[k]) \in HookPayload /\ Staged(Grown(payload[k]))
        BY <1>1, <3>1, GrownPayload
      <3>3. QED
        BY <2>2, <3>2
    <2>3. QED
      BY <2>1, <2>2
  <1>3. payload' = [payload EXCEPT ![k] = q]
    BY DEF ResizeHookPayload, IInv, TypeOK
  <1> HIDE DEF q
  <1>4. UNCHANGED <<issuers, registry, leaves, metas, addresses, tree_root,
                    slot, now, settled, published>>
    BY DEF ResizeHookPayload
  <1>5. QED
    BY <1>1, <1>2, <1>3, <1>4, PayloadReplaced

\* write_hook_proof preserves the invariant.
LEMMA WriteInv ==
    ASSUME IInv, NEW k \in Authorities, NEW offset \in Nat, NEW n \in Nat,
           NEW proof \in Proofs, WriteHookProof(k, offset, proof, n)
    PROVE  IInv'
  <1> DEFINE p == payload[k]
             bytes == [i \in DOMAIN p.proof_and_witness |->
                         IF i \in p.high_water_mark + 1 .. p.high_water_mark + n
                         THEN proof ELSE p.proof_and_witness[i]]
             q == [p EXCEPT !.proof_and_witness = bytes,
                            !.high_water_mark = p.high_water_mark + n]
  <1>1. /\ issuers[k] # NoIssuer
        /\ p \in HookPayload /\ Staged(p) /\ ~p.finalized
    BY Modifiable DEF WriteHookProof
  <1>2. /\ offset = p.high_water_mark
        /\ p.high_water_mark + n <= p.expected_proof_len
        /\ p.high_water_mark + n <= Len(p.proof_and_witness)
    BY DEF WriteHookProof
  <1>3. q \in HookPayload /\ Staged(q)
    BY <1>1, <1>2, WrittenPayload
  <1>4. payload' = [payload EXCEPT ![k] = q]
    BY <1>1, <1>2 DEF WriteHookProof, IInv, TypeOK, HookPayload
  <1> HIDE DEF q
  <1>5. UNCHANGED <<issuers, registry, leaves, metas, addresses, tree_root,
                    slot, now, settled, published>>
    BY DEF WriteHookProof
  <1>6. QED
    BY <1>1, <1>3, <1>4, <1>5, PayloadReplaced

\* finalize_hook_payload preserves the invariant.
LEMMA FinalizeInv ==
    ASSUME IInv, NEW k \in Authorities, NEW claim \in Claims,
           NEW args \in StagedLightArgs, FinalizeHookPayload(k, claim, args)
    PROVE  IInv'
  <1> DEFINE p == payload[k]
             q == [p EXCEPT !.claim = claim, !.light_args = args,
                            !.finalized = TRUE]
  <1>1. /\ issuers[k] # NoIssuer
        /\ p \in HookPayload /\ Staged(p) /\ ~p.finalized
    BY Modifiable DEF FinalizeHookPayload
  <1>2. p.high_water_mark = p.expected_proof_len
    BY DEF FinalizeHookPayload
  <1>3. q \in HookPayload
    BY <1>1 DEF HookPayload
  <1>4. /\ q.proof_and_witness = p.proof_and_witness
        /\ q.high_water_mark = p.high_water_mark
        /\ q.space = p.space /\ q.expected_proof_len = p.expected_proof_len
        /\ q.claim = claim /\ q.light_args = args
    BY <1>1 DEF HookPayload
  <1>5. payload' = [payload EXCEPT ![k] = q]
    BY <1>1 DEF FinalizeHookPayload, IInv, TypeOK, HookPayload
  <1> HIDE DEF q
  <1>6. Staged(q)
    BY <1>1, <1>2, <1>4 DEF Staged
  <1>7. UNCHANGED <<issuers, registry, leaves, metas, addresses, tree_root,
                    slot, now, settled, published>>
    BY DEF FinalizeHookPayload
  <1>8. QED
    BY <1>1, <1>3, <1>5, <1>6, <1>7, PayloadReplaced

-----------------------------------------------------------------------------
(* Settlements.                                                            *)

\* An attestation that settle_core records is well typed.
LEMMA SettlementType ==
    ASSUME IInv, NEW k \in Authorities, issuers[k] # NoIssuer,
           NEW claim \in Claims, NEW tree \in Trees, NEW root, NEW bytes,
           VerifyBundle(bytes, k, claim)
    PROVE  [att |-> [issuer |-> k, roots |-> issuers[k].roots, claim |-> claim,
                     timestamp |-> claim.epoch * EPOCH_LEN_SECS, slot |-> slot],
            proof |-> bytes[1], tree |-> tree, at |-> now] \in Settlement
  <1>1. issuers[k].roots \in Roots
    BY DEF IInv, TypeOK, Issuer
  <1>2. claim.epoch * EPOCH_LEN_SECS \in Nat
    <2>1. claim.epoch \in Nat /\ EPOCH_LEN_SECS \in Nat
      BY SettlementNumbers
    <2>2. QED
      BY <2>1, ProductType
  <1>3. bytes[1] \in Proofs
    <2>1. PICK p \in Proofs : bytes = [i \in 1 .. PROOF_LEN |-> p]
      BY DEF VerifyBundle
    <2>2. 1 \in 1 .. PROOF_LEN
      BY SettlementNumbers
    <2>3. QED
      BY <2>1, <2>2
  <1>4. slot \in 0 .. MaxSlot /\ now \in 0 .. MaxTime
    BY DEF IInv, TypeOK
  <1>5. QED
    BY <1>1, <1>2, <1>3, <1>4 DEF Settlement, CompressedAttestation

\* settle_core adds one attestation, under an address that was free.
LEMMA SettleCoreInv ==
    ASSUME IInv, NEW k \in Authorities, issuers[k] # NoIssuer,
           NEW claim \in Claims, NEW tree \in Trees, NEW root, NEW bytes,
           VerifyBundle(bytes, k, claim), SettleCore(k, bytes, claim, tree, root)
    PROVE  /\ settled' \in Seq(Settlement)
           /\ AddressesTaken'
           /\ SettledOncePerTree'
  <1> DEFINE new == [att |-> [issuer |-> k, roots |-> issuers[k].roots,
                              claim |-> claim,
                              timestamp |-> claim.epoch * EPOCH_LEN_SECS,
                              slot |-> slot],
                     proof |-> bytes[1], tree |-> tree, at |-> now]
  <1>1. new \in Settlement
    BY SettlementType
  <1>2. settled \in Seq(Settlement)
    BY DEF IInv, TypeOK
  <1>3. /\ settled' = Append(settled, new)
        /\ LightAddress(tree, k, claim) \notin addresses
        /\ addresses' = addresses \cup {LightAddress(tree, k, claim)}
    BY DEF SettleCore
  <1>4. new.tree = tree /\ new.att.issuer = k /\ new.att.claim = claim
    OBVIOUS
  <1> HIDE DEF new
  <1>5. /\ settled' \in Seq(Settlement)
        /\ Len(settled) \in Nat
        /\ DOMAIN settled = 1 .. Len(settled)
        /\ DOMAIN settled' = 1 .. Len(settled) + 1
        /\ \A i \in 1 .. Len(settled) : settled'[i] = settled[i]
        /\ settled'[Len(settled) + 1] = new
    BY <1>1, <1>2, <1>3
  <1>6. AddressesTaken'
    <2>1. SUFFICES ASSUME NEW i \in DOMAIN settled'
                   PROVE  LightAddress(settled'[i].tree, settled'[i].att.issuer,
                                       settled'[i].att.claim) \in addresses'
      BY DEF AddressesTaken, LightAddress
    <2>2. CASE i \in DOMAIN settled
      <3>1. settled'[i] = settled[i]
        BY <1>5, <2>2
      <3>2. QED
        BY <1>3, <2>2, <3>1 DEF IInv, AddressesTaken
    <2>3. CASE i = Len(settled) + 1
      BY <1>3, <1>4, <1>5, <2>3
    <2>4. QED
      BY <1>5, <2>2, <2>3
  <1>7. SettledOncePerTree'
    <2> DEFINE Same(a, b) ==
            /\ a.tree = b.tree /\ a.att.issuer = b.att.issuer
            /\ a.att.claim.nullifier_hash = b.att.claim.nullifier_hash
    <2>1. SUFFICES ASSUME NEW i \in DOMAIN settled', NEW j \in DOMAIN settled',
                          Same(settled'[i], settled'[j])
                   PROVE  i = j
      BY DEF SettledOncePerTree
    <2>2. \A h \in DOMAIN settled : ~Same(settled[h], new)
      BY <1>3, <1>4 DEF IInv, AddressesTaken, LightAddress
    <2>3. CASE i \in DOMAIN settled /\ j \in DOMAIN settled
      <3>1. settled'[i] = settled[i] /\ settled'[j] = settled[j]
        BY <1>5, <2>3
      <3>2. QED
        BY <2>1, <2>3, <3>1 DEF IInv, SettledOncePerTree
    <2>4. CASE i \in DOMAIN settled /\ j = Len(settled) + 1
      BY <1>5, <2>1, <2>2, <2>4
    <2>5. CASE i = Len(settled) + 1 /\ j \in DOMAIN settled
      BY <1>5, <2>1, <2>2, <2>5
    <2>6. CASE i = Len(settled) + 1 /\ j = Len(settled) + 1
      BY <2>6
    <2>7. QED
      BY <1>5, <2>3, <2>4, <2>5, <2>6
  <1>8. QED
    BY <1>5, <1>6, <1>7

\* A leaf is minted only while the Bubblegum tree has room.
LEMMA MintLeafType ==
    ASSUME IInv, MintLeaf
    PROVE  leaves' \in 0 .. MAX_LEAVES
  BY SettlementNumbers DEF IInv, TypeOK, MintLeaf

\* settle_hook and Execute find a staged claim and address tree.
LEMMA RunSettlementInv ==
    ASSUME IInv, NEW k \in Authorities, NEW mint, NEW destination, NEW amount,
           RunSettlement(k, mint, destination, amount)
    PROVE  /\ settled' \in Seq(Settlement)
           /\ AddressesTaken'
           /\ SettledOncePerTree'
  <1>1. /\ issuers[k] # NoIssuer
        /\ payload[k].claim \in Claims
        /\ payload[k].light_args \in StagedLightArgs
    BY DEF RunSettlement, IInv, PayloadsStaged, Staged
  <1>2. payload[k].light_args.tree \in Trees
    BY <1>1 DEF StagedLightArgs
  <1>3. /\ VerifyBundle(payload[k].proof_and_witness, k, payload[k].claim)
        /\ SettleCore(k, payload[k].proof_and_witness, payload[k].claim,
                      payload[k].light_args.tree, payload[k].light_args.root)
    BY DEF RunSettlement
  <1>4. QED
    BY <1>1, <1>2, <1>3, SettleCoreInv

\* settle_hook preserves the invariant.
LEMMA SettleHookInv ==
    ASSUME IInv, NEW k \in Authorities, NEW mint, NEW destination, NEW amount,
           SettleHook(k, mint, destination, amount)
    PROVE  IInv'
  <1>1. /\ settled' \in Seq(Settlement)
        /\ AddressesTaken'
        /\ SettledOncePerTree'
    BY RunSettlementInv DEF SettleHook
  <1>2. leaves' \in 0 .. MAX_LEAVES
    BY MintLeafType DEF SettleHook
  <1>3. TypeOK'
    BY <1>1, <1>2 DEF SettleHook, IInv, TypeOK
  <1>4. PayloadsStaged'
    BY DEF SettleHook, IInv, TypeOK, PayloadsStaged
  <1>5. QED
    BY <1>1, <1>3, <1>4 DEF IInv

\* Execute preserves the invariant.
LEMMA ExecuteHookInv ==
    ASSUME IInv, NEW k \in Authorities, NEW mint, NEW destination, NEW amount,
           ExecuteHook(k, mint, destination, amount)
    PROVE  IInv'
  <1>1. /\ settled' \in Seq(Settlement)
        /\ AddressesTaken'
        /\ SettledOncePerTree'
    BY RunSettlementInv DEF ExecuteHook
  <1>2. leaves' \in 0 .. MAX_LEAVES
    <2>1. CASE UNCHANGED leaves
      BY <2>1 DEF IInv, TypeOK
    <2>2. CASE MintLeaf
      BY <2>2, MintLeafType
    <2>3. QED
      BY <2>1, <2>2 DEF ExecuteHook
  <1>3. TypeOK'
    BY <1>1, <1>2 DEF ExecuteHook, IInv, TypeOK
  <1>4. PayloadsStaged'
    BY DEF ExecuteHook, IInv, PayloadsStaged
  <1>5. QED
    BY <1>1, <1>3, <1>4 DEF IInv

\* verify_proof preserves the invariant.
LEMMA VerifyProofInv ==
    ASSUME IInv, NEW k \in Authorities, NEW p \in Proofs, NEW claim \in Claims,
           NEW tree \in Trees, NEW root,
           VerifyProof(k, p, claim, tree, root)
    PROVE  IInv'
  <1> DEFINE bytes == [i \in 1 .. PROOF_LEN |-> p]
  <1>1. /\ issuers[k] # NoIssuer
        /\ VerifyBundle(bytes, k, claim)
        /\ SettleCore(k, bytes, claim, tree, root)
    BY DEF VerifyProof
  <1> HIDE DEF bytes
  <1>2. /\ settled' \in Seq(Settlement)
        /\ AddressesTaken'
        /\ SettledOncePerTree'
    BY <1>1, SettleCoreInv
  <1>3. leaves' \in 0 .. MAX_LEAVES
    BY MintLeafType DEF VerifyProof
  <1>4. TypeOK'
    BY <1>2, <1>3 DEF VerifyProof, IInv, TypeOK
  <1>5. PayloadsStaged'
    BY DEF VerifyProof, IInv, PayloadsStaged
  <1>6. QED
    BY <1>2, <1>4, <1>5 DEF IInv

-----------------------------------------------------------------------------
(* The other instructions and the clocks.                                  *)

\* Publishing roots preserves the invariant.
LEMMA PublishInv ==
    ASSUME IInv, NEW k \in Authorities, NEW roots \in Roots, Publish(k, roots)
    PROVE  IInv'
  <1>1. [roots |-> roots, root_slot |-> slot] \in Issuer
    BY DEF IInv, TypeOK, Issuer
  <1>2. Append(published[k], [roots |-> roots, slot |-> slot])
           \in Seq([roots : Roots, slot : 0 .. MaxSlot])
    <2> DEFINE R == [roots : Roots, slot : 0 .. MaxSlot]
    <2>1. published[k] \in Seq(R) /\ [roots |-> roots, slot |-> slot] \in R
      BY DEF IInv, TypeOK
    <2> HIDE DEF R
    <2>2. Append(published[k], [roots |-> roots, slot |-> slot]) \in Seq(R)
      BY <2>1, AppendProperties
    <2>3. QED
      BY <2>2 DEF R
  <1>3. TypeOK'
    BY <1>1, <1>2 DEF Publish, IInv, TypeOK
  <1>4. PayloadsStaged'
    <2>1. [roots |-> roots, root_slot |-> slot] # NoIssuer
      BY <1>1, SettlementNames
    <2>2. QED
      BY <2>1 DEF Publish, IInv, TypeOK, PayloadsStaged
  <1>5. AddressesTaken' /\ SettledOncePerTree'
    BY DEF Publish, IInv, AddressesTaken, SettledOncePerTree, LightAddress
  <1>6. QED
    BY <1>3, <1>4, <1>5 DEF IInv

\* Setting up the attestation tree and the meta lists, checking attestations
\* and the passage of time preserve the invariant.
LEMMA OtherStepsInv ==
    ASSUME IInv,
           \/ \E k \in Authorities : InitAttestationTree(k)
           \/ \E k, mint : InitExtraAccountMetaList(k, mint)
           \/ \E att, k, nullifier_hash : CheckAttestation(att, k, nullifier_hash)
           \/ TreeMoves
           \/ NextSlot
           \/ NextSecond
    PROVE  IInv'
  <1>1. UNCHANGED <<issuers, payload, leaves, addresses, settled, published>>
    BY DEF InitAttestationTree, InitExtraAccountMetaList, CheckAttestation,
           TreeMoves, TreeMovesOn, NextSlot, NextSecond
  <1>2. /\ registry' \in BOOLEAN
        /\ metas' \subseteq HookedMints
    BY DEF InitAttestationTree, InitExtraAccountMetaList, CheckAttestation,
           TreeMoves, TreeMovesOn, NextSlot, NextSecond, IInv, TypeOK
  <1>3. tree_root' \in [Trees -> 0 .. MaxTreeRoots]
    <2>1. CASE TreeMoves
      <3>1. PICK t \in Trees : TreeMovesOn(t)
        BY <2>1 DEF TreeMoves
      <3>2. /\ tree_root \in [Trees -> 0 .. MaxTreeRoots]
            /\ tree_root[t] + 1 \in 0 .. MaxTreeRoots
        BY <3>1, SettlementNumbers DEF TreeMovesOn, IInv, TypeOK
      <3>3. tree_root' = [tree_root EXCEPT ![t] = tree_root[t] + 1]
        BY <3>1 DEF TreeMovesOn
      <3>4. QED
        BY <3>2, <3>3
    <2>2. CASE ~TreeMoves
      BY <2>2
         DEF InitAttestationTree, InitExtraAccountMetaList, CheckAttestation,
             NextSlot, NextSecond, IInv, TypeOK
    <2>3. QED
      BY <2>1, <2>2
  <1>4. slot' \in 0 .. MaxSlot /\ now' \in 0 .. MaxTime
    BY SettlementNumbers
       DEF InitAttestationTree, InitExtraAccountMetaList, CheckAttestation,
           TreeMoves, TreeMovesOn, NextSlot, NextSecond, IInv, TypeOK
  <1>5. TypeOK'
    BY <1>1, <1>2, <1>3, <1>4 DEF IInv, TypeOK
  <1>6. PayloadsStaged' /\ AddressesTaken' /\ SettledOncePerTree'
    BY <1>1 DEF IInv, PayloadsStaged, AddressesTaken, SettledOncePerTree,
                LightAddress
  <1>7. QED
    BY <1>5, <1>6 DEF IInv

-----------------------------------------------------------------------------
(* The theorems.                                                           *)

\* The program starts with no account and no attestation.
LEMMA InitInv == Init => IInv
  <1>1. SUFFICES ASSUME Init PROVE IInv
    OBVIOUS
  <1>2. TypeOK
    <2>1. <<>> \in Seq(Settlement) /\ <<>> \in Seq([roots : Roots, slot : 0 .. MaxSlot])
      BY EmptySeq
    <2>2. /\ issuers \in [Authorities -> Issuer \cup {NoIssuer}]
          /\ payload \in [Authorities -> HookPayload \cup {NoPayload}]
      BY <1>1 DEF Init
    <2>3. published \in [Authorities -> Seq([roots : Roots, slot : 0 .. MaxSlot])]
      BY <1>1, <2>1, Zenon DEF Init
    <2>4. /\ leaves \in 0 .. MAX_LEAVES
          /\ slot \in 0 .. MaxSlot /\ now \in 0 .. MaxTime
      <3>1. leaves = 0 /\ slot = 0 /\ now = 0
        BY <1>1 DEF Init
      <3>2. QED
        BY <3>1, SettlementNumbers
    <2>5. /\ registry \in BOOLEAN
          /\ metas \subseteq HookedMints
          /\ settled \in Seq(Settlement)
          /\ tree_root \in [Trees -> 0 .. MaxTreeRoots]
      <3>1. 0 \in 0 .. MaxTreeRoots
        BY SettlementNumbers
      <3>2. QED
        BY <1>1, <2>1, <3>1, Zenon DEF Init
    <2>6. QED
      BY <2>2, <2>3, <2>4, <2>5 DEF TypeOK
  <1>3. PayloadsStaged
    BY <1>1 DEF Init, PayloadsStaged
  <1>4. AddressesTaken /\ SettledOncePerTree
    BY <1>1 DEF Init, AddressesTaken, SettledOncePerTree
  <1>5. QED
    BY <1>2, <1>3, <1>4 DEF IInv

\* Every step preserves the invariant.
LEMMA NextInv == IInv /\ [Next]_vars => IInv'
  <1>1. SUFFICES ASSUME IInv, [Next]_vars PROVE IInv'
    OBVIOUS
  <1>2. ASSUME NEW k \in Authorities, IssuerStep(k) PROVE IInv'
    <2>1. CASE \E r \in Roots : RegisterIssuer(k, r) \/ UpdateIssuerRoot(k, r)
      BY <1>1, <2>1, PublishInv DEF RegisterIssuer, UpdateIssuerRoot
    <2>2. CASE InitAttestationTree(k)
      BY <1>1, <2>2, OtherStepsInv
    <2>3. CASE \E c \in Claims : InitExtraAccountMetaList(k, c.mint)
      BY <1>1, <2>3, OtherStepsInv
    <2>4. QED
      BY <1>2, <2>1, <2>2, <2>3 DEF IssuerStep
  <1>3. ASSUME NEW k \in Authorities, StagingStep(k) PROVE IInv'
    <2>1. CASE \E n \in ProofLens : InitHookPayload(k, n)
      BY <1>1, <2>1, InitPayloadInv
    <2>2. CASE ResizeHookPayload(k)
      BY <1>1, <2>2, ResizeInv
    <2>3. CASE \E offset, n \in 0 .. MAX_HOOK_PROOF_BYTES, p \in Proofs :
                  WriteHookProof(k, offset, p, n)
      <3>1. PICK offset \in 0 .. MAX_HOOK_PROOF_BYTES,
                 n \in 0 .. MAX_HOOK_PROOF_BYTES, p \in Proofs :
                    WriteHookProof(k, offset, p, n)
        BY <2>3
      <3>2. offset \in Nat /\ n \in Nat
        BY SettlementNumbers
      <3>3. QED
        BY <1>1, <3>1, <3>2, WriteInv
    <2>4. CASE \E c \in Claims, args \in StagedLightArgs :
                  FinalizeHookPayload(k, c, args)
      BY <1>1, <2>4, FinalizeInv
    <2>5. CASE CloseHookPayload(k)
      BY <1>1, <2>5, CloseInv
    <2>6. QED
      BY <1>3, <2>1, <2>2, <2>3, <2>4, <2>5 DEF StagingStep
  <1>4. ASSUME NEW k \in Authorities, SettlementStep(k) PROVE IInv'
    <2>1. CASE \E c \in Claims : SettleHook(k, c.mint, c.recipient, c.amount)
      BY <1>1, <2>1, SettleHookInv
    <2>2. CASE \E c \in Claims : ExecuteHook(k, c.mint, c.recipient, c.amount)
      BY <1>1, <2>2, ExecuteHookInv
    <2>3. CASE \E p \in Proofs, c \in Claims, t \in Trees, r \in TreeRoots :
                  VerifyProof(k, p, c, t, r)
      BY <1>1, <2>3, VerifyProofInv
    <2>4. CASE \E i \in DOMAIN settled, c \in Claims :
                  CheckAttestation(settled[i].att, k, c.nullifier_hash)
      BY <1>1, <2>4, OtherStepsInv
    <2>5. QED
      BY <1>4, <2>1, <2>2, <2>3, <2>4 DEF SettlementStep
  <1>5. CASE TreeMoves \/ NextSlot \/ NextSecond
    BY <1>1, <1>5, OtherStepsInv
  <1>6. CASE UNCHANGED vars
    BY <1>1, <1>6 DEF vars, IInv, TypeOK, PayloadsStaged, AddressesTaken,
                      SettledOncePerTree, LightAddress
  <1>7. QED
    BY <1>1, <1>2, <1>3, <1>4, <1>5, <1>6 DEF Next, TreeMoves

\* The inductive invariant holds throughout.
THEOREM Invariance == Spec => []IInv
  <1>1. Init => IInv
    BY InitInv
  <1>2. IInv /\ [Next]_vars => IInv'
    BY NextInv
  <1>3. QED
    BY <1>1, <1>2, PTL DEF Spec

\* The accounts of the program always hold values of their types, whatever
\* lengths and offsets clients pass while they stage a proof.
THEOREM TypeCorrect == Spec => []TypeOK
  <1>1. IInv => TypeOK
    BY DEF IInv
  <1>2. QED
    BY <1>1, Invariance, PTL

\* A nullifier of an issuer settles at most once per address tree, by
\* settle_hook, Execute and verify_proof together.
THEOREM SettledOnce == Spec => []SettledOncePerTree
  <1>1. IInv => SettledOncePerTree
    BY DEF IInv
  <1>2. QED
    BY <1>1, Invariance, PTL

\* What was finalized is changed only by closing it: no write, resize or
\* second finalize reaches it.
THEOREM Fixed == Spec => FinalizedIsFixed
  <1>1. ASSUME Next, NEW k \in Authorities, payload[k] # NoPayload,
               payload[k] # payload'[k], payload[k].finalized, IInv
        PROVE  payload'[k] = NoPayload
    <2> DEFINE Closes(h) ==
            payload' = payload \/ payload' = [payload EXCEPT ![h] = NoPayload]
    <2>1. CASE \E h \in Authorities : StagingStep(h)
      <3>1. PICK h \in Authorities : StagingStep(h)
        BY <2>1
      <3>2. CASE h # k
        BY <1>1, <3>1, <3>2
           DEF IInv, TypeOK, StagingStep, InitHookPayload, ResizeHookPayload,
               WriteHookProof, FinalizeHookPayload, CloseHookPayload
      <3>3. CASE h = k
        BY <1>1, <3>1, <3>3
           DEF IInv, TypeOK, StagingStep, InitHookPayload, ResizeHookPayload,
               WriteHookProof, FinalizeHookPayload, CloseHookPayload, CanModify
      <3>4. QED
        BY <3>2, <3>3
    <2>2. CASE \E h \in Authorities : IssuerStep(h) \/ SettlementStep(h)
      <3>1. PICK h \in Authorities : IssuerStep(h) \/ SettlementStep(h)
        BY <2>2
      <3>2. Closes(h)
        BY <3>1
           DEF IssuerStep, RegisterIssuer, UpdateIssuerRoot, Publish,
               InitAttestationTree, InitExtraAccountMetaList, SettlementStep,
               SettleHook, ExecuteHook, VerifyProof, CheckAttestation
      <3>3. QED
        BY <1>1, <3>2 DEF IInv, TypeOK
    <2>3. CASE TreeMoves \/ NextSlot \/ NextSecond
      BY <1>1, <2>3 DEF TreeMoves, TreeMovesOn, NextSlot, NextSecond
    <2>4. QED
      BY <1>1, <2>1, <2>2, <2>3 DEF Next, TreeMoves
  <1>2. IInv /\ [Next]_vars =>
           [\A k \in Authorities :
              payload[k] # NoPayload /\ payload[k] # payload'[k]
                 /\ payload[k].finalized => payload'[k] = NoPayload]_vars
    BY <1>1
  <1>3. QED
    BY <1>2, Invariance, PTL DEF Spec, FinalizedIsFixed

\* A finalized payload is complete, in whatever order its chunks, resizes and
\* closings came.
THEOREM Complete == Spec => []FinalizedIsComplete
  <1>1. IInv => FinalizedIsComplete
    <2>1. SUFFICES ASSUME IInv, NEW k \in Authorities, payload[k] # NoPayload,
                          payload[k].finalized
                   PROVE  /\ Len(payload[k].proof_and_witness)
                                = payload[k].expected_proof_len
                          /\ \A i \in DOMAIN payload[k].proof_and_witness :
                                payload[k].proof_and_witness[i] # NoByte
                          /\ payload[k].claim \in Claims
      BY DEF FinalizedIsComplete
    <2>2. payload[k] \in HookPayload /\ Staged(payload[k])
      BY <2>1 DEF IInv, TypeOK, PayloadsStaged
    <2>3. /\ payload[k].high_water_mark = payload[k].expected_proof_len
          /\ payload[k].claim \in Claims
      BY <2>1, <2>2 DEF Staged
    <2>4. Len(payload[k].proof_and_witness) = payload[k].expected_proof_len
      BY <2>2, <2>3, SettlementNumbers DEF Staged, HookPayload
    <2>5. DOMAIN payload[k].proof_and_witness = 1 .. payload[k].high_water_mark
      BY <2>2, <2>3, <2>4, LenProperties DEF HookPayload
    <2>6. QED
      BY <2>2, <2>3, <2>4, <2>5 DEF Staged
  <1>2. QED
    BY <1>1, Invariance, PTL
-----------------------------------------------------------------------------
(* What an attestation says of roots and time.  The history of published   *)
(* roots and the clock are tied to the accounts by three facts.            *)

\* The roots of an issuer account are the last that were published, at the
\* slot that the account records, and nothing was published in the future.
PublishedLast ==
    \A k \in Authorities :
        /\ \A i \in DOMAIN published[k] : published[k][i].slot <= slot
        /\ issuers[k] # NoIssuer =>
              LET n == Len(published[k]) IN
              /\ n > 0
              /\ published[k][n].roots = issuers[k].roots
              /\ published[k][n].slot = issuers[k].root_slot

SettledInPast == \A i \in DOMAIN settled : settled[i].att.slot <= slot

\* What passed check_attestation was settled, not later than it was checked
\* and not too long before.
CheckedInTime ==
    checked # NoCheck =>
        \E i \in DOMAIN settled :
            /\ checked.att = settled[i].att
            /\ checked.slot \in Int
            /\ checked.att.slot <= checked.slot
            /\ checked.slot - checked.att.slot <= MAX_ATTESTATION_AGE_SLOTS

FreshInv ==
    /\ PublishedLast
    /\ SettledInPast
    /\ CheckedInTime
    /\ AttestedAgainstCurrentRoots
    /\ TimestampRecent

\* WereCurrent, of one issuer's history.
CurrentIn(history, roots, s) ==
    \E i \in DOMAIN history :
        /\ history[i].roots = roots
        /\ history[i].slot <= s
        /\ s - history[i].slot <= MAX_ROOT_AGE_SLOTS
        /\ i < Len(history) => s <= history[i + 1].slot

Publication == [roots : Roots, slot : 0 .. MaxSlot]

\* Publishing again, not before slot s, leaves what was current at s.
LEMMA CurrentKept ==
    ASSUME NEW history \in Seq(Publication), NEW new \in Publication,
           NEW roots, NEW s \in Int, s <= new.slot, CurrentIn(history, roots, s)
    PROVE  CurrentIn(Append(history, new), roots, s)
  <1> DEFINE longer == Append(history, new)
  <1>1. /\ Len(history) \in Nat
        /\ DOMAIN history = 1 .. Len(history)
        /\ Len(longer) = Len(history) + 1
        /\ DOMAIN longer = 1 .. Len(history) + 1
        /\ \A i \in 1 .. Len(history) : longer[i] = history[i]
        /\ longer[Len(history) + 1] = new
    OBVIOUS
  <1> HIDE DEF longer
  <1>2. PICK i \in DOMAIN history :
            /\ history[i].roots = roots
            /\ history[i].slot <= s
            /\ s - history[i].slot <= MAX_ROOT_AGE_SLOTS
            /\ i < Len(history) => s <= history[i + 1].slot
    BY DEF CurrentIn
  <1>3. i \in DOMAIN longer /\ longer[i] = history[i]
    BY <1>1
  <1>4. i < Len(longer) => s <= longer[i + 1].slot
    <2>1. CASE i < Len(history)
      <3>1. longer[i + 1] = history[i + 1]
        BY <1>1, <2>1
      <3>2. QED
        BY <1>2, <2>1, <3>1
    <2>2. CASE i = Len(history)
      BY <1>1, <2>2
    <2>3. QED
      BY <1>1, <2>1, <2>2
  <1>5. QED
    BY <1>2, <1>3, <1>4 DEF CurrentIn, longer

\* The start of an epoch that validate_epoch accepts lies in the past and
\* less than MAX_EPOCH_LAG + 1 epochs back.
LEMMA EpochRecent ==
    ASSUME NEW epoch \in Nat, now \in Nat, ValidateEpoch(epoch)
    PROVE  LET late == now - epoch * EPOCH_LEN_SECS
           IN  0 <= late /\ late < (MAX_EPOCH_LAG + 1) * EPOCH_LEN_SECS
  <1> DEFINE E == EPOCH_LEN_SECS
             q == now \div EPOCH_LEN_SECS
             r == now % EPOCH_LEN_SECS
  <1>1. E \in Nat /\ E > 0 /\ MAX_EPOCH_LAG \in Nat
    BY SettlementNumbers
  <1>2. q \in Int /\ r \in 0 .. E - 1 /\ now = E * q + r
    BY <1>1
  <1>3. epoch <= q /\ q - epoch <= MAX_EPOCH_LAG
    BY DEF ValidateEpoch
  <1> HIDE DEF E, q, r
  <1>4. PICK d \in Nat : d = q - epoch /\ d <= MAX_EPOCH_LAG
    BY <1>2, <1>3
  <1>5. now - epoch * E = d * E + r
    BY <1>1, <1>2, <1>4
  <1>6. d * E >= 0 /\ d * E <= MAX_EPOCH_LAG * E
    BY <1>1, <1>4
  <1>7. (MAX_EPOCH_LAG + 1) * E = MAX_EPOCH_LAG * E + E
    BY <1>1
  <1>8. QED
    BY <1>1, <1>2, <1>4, <1>5, <1>6, <1>7 DEF E

\* Attestations have an issuer and a slot.
LEMMA SettledType ==
    ASSUME IInv, NEW i \in DOMAIN settled
    PROVE  settled[i].att.issuer \in Authorities /\ settled[i].att.slot \in Int
  <1>1. settled \in Seq(Settlement)
    BY DEF IInv, TypeOK
  <1>2. settled[i] \in Settlement
    BY <1>1
  <1>3. settled[i].att \in CompressedAttestation
    BY <1>2 DEF Settlement
  <1>4. QED
    BY <1>3 DEF CompressedAttestation

\* So have the published roots.
LEMMA PublishedType ==
    ASSUME IInv, NEW k \in Authorities
    PROVE  /\ published[k] \in Seq(Publication)
           /\ \A i \in DOMAIN published[k] : published[k][i].slot \in Int
  <1>1. published[k] \in Seq(Publication)
    BY Zenon DEF IInv, TypeOK, Publication
  <1>2. ASSUME NEW i \in DOMAIN published[k] PROVE published[k][i].slot \in Int
    <2>1. published[k][i] \in Publication
      BY <1>1
    <2>2. QED
      BY <2>1 DEF Publication
  <1>3. QED
    BY <1>1, <1>2

\* Steps that publish, settle and check nothing preserve the facts, as time
\* only moves forward.
LEMMA QuietFresh ==
    ASSUME IInv, FreshInv, slot' \in Int, slot <= slot',
           UNCHANGED <<issuers, published, settled, checked>>
    PROVE  FreshInv'
  <1>1. PublishedLast'
    <2>1. slot \in Int
      BY DEF IInv, TypeOK
    <2>2. \A k \in Authorities : \A i \in DOMAIN published[k] :
             published[k][i].slot \in Int /\ published[k][i].slot <= slot
      BY PublishedType DEF FreshInv, PublishedLast
    <2>3. QED
      BY <2>1, <2>2 DEF FreshInv, PublishedLast
  <1>2. SettledInPast'
    <2>1. slot \in Int
      BY DEF IInv, TypeOK
    <2>2. \A i \in DOMAIN settled : settled[i].att.slot \in Int
      BY SettledType
    <2>3. QED
      BY <2>1, <2>2 DEF FreshInv, SettledInPast
  <1>3. CheckedInTime' /\ AttestedAgainstCurrentRoots' /\ TimestampRecent'
    BY DEF FreshInv, CheckedInTime, AttestedAgainstCurrentRoots, WereCurrent,
           TimestampRecent
  <1>4. QED
    BY <1>1, <1>2, <1>3 DEF FreshInv

\* Publishing roots replaces the current ones from this slot on.
LEMMA PublishFresh ==
    ASSUME IInv, FreshInv, NEW k \in Authorities, NEW roots \in Roots,
           Publish(k, roots)
    PROVE  FreshInv'
  <1> DEFINE new == [roots |-> roots, slot |-> slot]
             history == published[k]
  <1>1. /\ new \in Publication
        /\ history \in Seq(Publication)
        /\ new.roots = roots /\ new.slot = slot
        /\ slot \in Int
    <2>1. slot \in 0 .. MaxSlot
      BY DEF IInv, TypeOK
    <2>2. new \in Publication /\ new.roots = roots /\ new.slot = slot
      BY <2>1 DEF Publication
    <2>3. history \in Seq(Publication)
      BY PublishedType
    <2>4. QED
      BY <2>1, <2>2, <2>3
  <1>2. /\ published' = [published EXCEPT ![k] = Append(history, new)]
        /\ issuers' = [issuers EXCEPT ![k] = [roots |-> roots, root_slot |-> slot]]
        /\ UNCHANGED <<settled, slot, checked>>
    BY DEF Publish
  <1> HIDE DEF new
  <1>3. /\ published'[k] = Append(history, new)
        /\ \A h \in Authorities \ {k} : published'[h] = published[h]
        /\ issuers'[k] = [roots |-> roots, root_slot |-> slot]
        /\ \A h \in Authorities \ {k} : issuers'[h] = issuers[h]
    BY <1>2 DEF IInv, TypeOK
  <1>4. /\ Len(history) \in Nat
        /\ DOMAIN history = 1 .. Len(history)
        /\ Len(published'[k]) = Len(history) + 1
        /\ DOMAIN published'[k] = 1 .. Len(history) + 1
        /\ \A i \in 1 .. Len(history) : published'[k][i] = history[i]
        /\ published'[k][Len(history) + 1] = new
    BY <1>1, <1>3
  <1>5. PublishedLast'
    <2>1. SUFFICES ASSUME NEW h \in Authorities
                   PROVE  /\ \A i \in DOMAIN published'[h] :
                                published'[h][i].slot <= slot
                          /\ issuers'[h] # NoIssuer =>
                               /\ Len(published'[h]) > 0
                               /\ published'[h][Len(published'[h])].roots
                                     = issuers'[h].roots
                               /\ published'[h][Len(published'[h])].slot
                                     = issuers'[h].root_slot
      BY <1>2 DEF PublishedLast
    <2>2. CASE h = k
      <3>1. \A i \in 1 .. Len(history) : history[i].slot <= slot
        BY <1>4 DEF FreshInv, PublishedLast
      <3>2. \A i \in DOMAIN published'[k] : published'[k][i].slot <= slot
        BY <1>1, <1>4, <3>1
      <3>3. Len(published'[k]) > 0 /\ published'[k][Len(published'[k])] = new
        BY <1>4
      <3>4. issuers'[k].roots = roots /\ issuers'[k].root_slot = slot
        BY <1>3
      <3>5. QED
        BY <1>1, <2>2, <3>2, <3>3, <3>4
    <2>3. CASE h # k
      BY <1>3, <2>3 DEF FreshInv, PublishedLast
    <2>4. QED
      BY <2>2, <2>3
  <1>6. SettledInPast' /\ CheckedInTime' /\ TimestampRecent'
    BY <1>2 DEF FreshInv, SettledInPast, CheckedInTime, TimestampRecent
  <1>7. AttestedAgainstCurrentRoots'
    <2>1. SUFFICES ASSUME NEW i \in DOMAIN settled
                   PROVE  CurrentIn(published'[settled[i].att.issuer],
                                    settled[i].att.roots, settled[i].att.slot)
      BY <1>2 DEF AttestedAgainstCurrentRoots, WereCurrent, CurrentIn, FreshInv
    <2> DEFINE att == settled[i].att
    <2>3. att.issuer \in Authorities /\ att.slot \in Int
      BY SettledType
    <2>4. /\ CurrentIn(published[att.issuer], att.roots, att.slot)
          /\ att.slot <= slot
      BY DEF FreshInv, AttestedAgainstCurrentRoots, WereCurrent, CurrentIn,
             SettledInPast
    <2> HIDE DEF att
    <2>5. CASE att.issuer = k
      BY <1>1, <1>3, <2>3, <2>4, <2>5, CurrentKept DEF att
    <2>6. CASE att.issuer # k
      BY <1>3, <2>3, <2>4, <2>6 DEF att
    <2>7. QED
      BY <2>5, <2>6
  <1>8. QED
    BY <1>5, <1>6, <1>7 DEF FreshInv

\* A settlement by verification of the bytes attests what they prove, against
\* the issuer's current roots.
LEMMA SettleFresh ==
    ASSUME IInv, FreshInv, NEW k \in Authorities, issuers[k] # NoIssuer,
           NEW claim \in Claims, NEW tree \in Trees, NEW root, NEW bytes,
           RootsFresh(k), ValidateEpoch(claim.epoch),
           VerifyBundle(bytes, k, claim), SettleCore(k, bytes, claim, tree, root),
           UNCHANGED <<issuers, slot, now, published, checked>>
    PROVE  FreshInv'
  <1> DEFINE new == [att |-> [issuer |-> k, roots |-> issuers[k].roots,
                              claim |-> claim,
                              timestamp |-> claim.epoch * EPOCH_LEN_SECS,
                              slot |-> slot],
                     proof |-> bytes[1], tree |-> tree, at |-> now]
  <1>1. new \in Settlement
    BY SettlementType
  <1>2. settled \in Seq(Settlement) /\ settled' = Append(settled, new)
    BY DEF IInv, TypeOK, SettleCore
  <1>3. /\ new.att.issuer = k /\ new.att.roots = issuers[k].roots
        /\ new.att.claim = claim /\ new.att.slot = slot
        /\ new.att.timestamp = claim.epoch * EPOCH_LEN_SECS
        /\ new.proof = bytes[1] /\ new.at = now
    OBVIOUS
  <1> HIDE DEF new
  <1>4. /\ Len(settled) \in Nat
        /\ DOMAIN settled = 1 .. Len(settled)
        /\ DOMAIN settled' = 1 .. Len(settled) + 1
        /\ \A i \in 1 .. Len(settled) : settled'[i] = settled[i]
        /\ settled'[Len(settled) + 1] = new
    BY <1>1, <1>2
  <1>5. new.proof = [roots |-> new.att.roots, claim |-> new.att.claim]
    <2>1. PICK p \in Proofs : /\ bytes = [i \in 1 .. PROOF_LEN |-> p]
                              /\ p.claim = claim
                              /\ p.roots = issuers[k].roots
      BY DEF VerifyBundle
    <2>2. bytes[1] = p
      BY <2>1, SettlementNumbers
    <2>3. QED
      BY <1>3, <2>1, <2>2, ProofShape
  <1>6. CurrentIn(published[k], new.att.roots, new.att.slot)
    <2> DEFINE n == Len(published[k])
    <2>1. n \in Nat /\ DOMAIN published[k] = 1 .. n
      BY DEF IInv, TypeOK
    <2>2. /\ n > 0
          /\ published[k][n].roots = issuers[k].roots
          /\ published[k][n].slot = issuers[k].root_slot
      BY DEF FreshInv, PublishedLast
    <2>3. n \in DOMAIN published[k]
      BY <2>1, <2>2
    <2>4. published[k][n].slot <= slot
      BY <2>3 DEF FreshInv, PublishedLast
    <2>5. slot - published[k][n].slot <= MAX_ROOT_AGE_SLOTS
      BY <2>2 DEF RootsFresh
    <2>6. QED
      BY <1>3, <2>1, <2>2, <2>3, <2>4, <2>5 DEF CurrentIn
  <1>7. /\ 0 <= new.at - new.att.timestamp
        /\ new.at - new.att.timestamp < (MAX_EPOCH_LAG + 1) * EPOCH_LEN_SECS
    <2>1. claim.epoch \in Nat /\ now \in Nat
      BY SettlementNumbers DEF IInv, TypeOK
    <2>2. QED
      BY <1>3, <2>1, EpochRecent
  <1>8. PublishedLast'
    BY DEF FreshInv, PublishedLast
  <1>9. SettledInPast'
    <2>1. slot <= slot
      BY DEF IInv, TypeOK
    <2>2. QED
      BY <1>3, <1>4, <2>1 DEF FreshInv, SettledInPast
  <1>10. CheckedInTime'
    <2>1. \A i \in DOMAIN settled : i \in DOMAIN settled' /\ settled'[i] = settled[i]
      BY <1>4
    <2>2. QED
      BY <2>1 DEF FreshInv, CheckedInTime
  <1>11. AttestedAgainstCurrentRoots'
    <2>1. SUFFICES ASSUME NEW i \in DOMAIN settled'
                   PROVE  /\ settled'[i].proof = [roots |-> settled'[i].att.roots,
                                                  claim |-> settled'[i].att.claim]
                          /\ CurrentIn(published[settled'[i].att.issuer],
                                       settled'[i].att.roots, settled'[i].att.slot)
      BY DEF AttestedAgainstCurrentRoots, WereCurrent, CurrentIn
    <2>2. CASE i \in DOMAIN settled
      BY <1>4, <2>2
         DEF FreshInv, AttestedAgainstCurrentRoots, WereCurrent, CurrentIn
    <2>3. CASE i = Len(settled) + 1
      BY <1>3, <1>4, <1>5, <1>6, <2>3
    <2>4. QED
      BY <1>4, <2>2, <2>3
  <1>12. TimestampRecent'
    <2>1. SUFFICES ASSUME NEW i \in DOMAIN settled'
                   PROVE  /\ 0 <= settled'[i].at - settled'[i].att.timestamp
                          /\ settled'[i].at - settled'[i].att.timestamp
                                < (MAX_EPOCH_LAG + 1) * EPOCH_LEN_SECS
      BY DEF TimestampRecent
    <2>2. CASE i \in DOMAIN settled
      BY <1>4, <2>2 DEF FreshInv, TimestampRecent
    <2>3. CASE i = Len(settled) + 1
      BY <1>4, <1>7, <2>3
    <2>4. QED
      BY <1>4, <2>2, <2>3
  <1>13. QED
    BY <1>8, <1>9, <1>10, <1>11, <1>12 DEF FreshInv

\* settle_hook and Execute settle what was staged.
LEMMA RunSettlementFresh ==
    ASSUME IInv, FreshInv, NEW k \in Authorities,
           NEW mint, NEW destination, NEW amount,
           RunSettlement(k, mint, destination, amount),
           UNCHANGED <<issuers, slot, now, published, checked>>
    PROVE  FreshInv'
  <1>1. /\ issuers[k] # NoIssuer
        /\ payload[k].claim \in Claims
        /\ payload[k].light_args \in StagedLightArgs
    BY DEF RunSettlement, IInv, PayloadsStaged, Staged
  <1>2. payload[k].light_args.tree \in Trees
    BY <1>1 DEF StagedLightArgs
  <1>3. /\ RootsFresh(k) /\ ValidateEpoch(payload[k].claim.epoch)
        /\ VerifyBundle(payload[k].proof_and_witness, k, payload[k].claim)
        /\ SettleCore(k, payload[k].proof_and_witness, payload[k].claim,
                      payload[k].light_args.tree, payload[k].light_args.root)
    BY DEF RunSettlement
  <1>4. QED
    BY <1>1, <1>2, <1>3, SettleFresh

\* check_attestation reads an attestation that exists.
LEMMA CheckFresh ==
    ASSUME IInv, FreshInv, NEW i \in DOMAIN settled, NEW k, NEW nullifier_hash,
           CheckAttestation(settled[i].att, k, nullifier_hash)
    PROVE  FreshInv'
  <1>1. UNCHANGED <<issuers, published, settled, slot>>
    BY DEF CheckAttestation
  <1>2. CheckedInTime'
    <2>1. checked' = [att |-> settled[i].att, slot |-> slot]
      BY DEF CheckAttestation
    <2>2. slot - settled[i].att.slot <= MAX_ATTESTATION_AGE_SLOTS
      BY DEF CheckAttestation, ValidateAge
    <2>3. settled[i].att.slot <= slot /\ slot \in Int
      BY DEF FreshInv, SettledInPast, IInv, TypeOK
    <2>4. QED
      BY <1>1, <2>1, <2>2, <2>3 DEF CheckedInTime
  <1>3. QED
    BY <1>1, <1>2 DEF FreshInv, PublishedLast, SettledInPast,
       AttestedAgainstCurrentRoots, WereCurrent, TimestampRecent

\* Every step preserves the facts.
LEMMA NextFresh == IInv /\ FreshInv /\ [Next]_vars => FreshInv'
  <1>1. SUFFICES ASSUME IInv, FreshInv, [Next]_vars PROVE FreshInv'
    OBVIOUS
  <1>2. slot \in Int /\ slot <= slot
    BY <1>1 DEF IInv, TypeOK
  <1>3. ASSUME NEW k \in Authorities, IssuerStep(k) PROVE FreshInv'
    <2>1. CASE \E r \in Roots : RegisterIssuer(k, r) \/ UpdateIssuerRoot(k, r)
      BY <1>1, <2>1, PublishFresh DEF RegisterIssuer, UpdateIssuerRoot
    <2>2. CASE \/ InitAttestationTree(k)
               \/ \E c \in Claims : InitExtraAccountMetaList(k, c.mint)
      <3>1. UNCHANGED <<issuers, published, settled, checked, slot>>
        BY <2>2 DEF InitAttestationTree, InitExtraAccountMetaList
      <3>2. QED
        BY <1>1, <1>2, <3>1, QuietFresh
    <2>3. QED
      BY <1>3, <2>1, <2>2 DEF IssuerStep
  <1>4. ASSUME NEW k \in Authorities, StagingStep(k) PROVE FreshInv'
    <2>1. UNCHANGED <<issuers, published, settled, checked, slot>>
      BY <1>4 DEF StagingStep, InitHookPayload, ResizeHookPayload,
                  WriteHookProof, FinalizeHookPayload, CloseHookPayload
    <2>2. QED
      BY <1>1, <1>2, <2>1, QuietFresh
  <1>5. ASSUME NEW k \in Authorities, SettlementStep(k) PROVE FreshInv'
    <2>1. CASE \E c \in Claims : SettleHook(k, c.mint, c.recipient, c.amount)
      BY <1>1, <2>1, RunSettlementFresh DEF SettleHook
    <2>2. CASE \E c \in Claims : ExecuteHook(k, c.mint, c.recipient, c.amount)
      BY <1>1, <2>2, RunSettlementFresh DEF ExecuteHook
    <2>3. CASE \E p \in Proofs, c \in Claims, t \in Trees, r \in TreeRoots :
                  VerifyProof(k, p, c, t, r)
      BY <1>1, <2>3, SettleFresh DEF VerifyProof
    <2>4. CASE \E i \in DOMAIN settled, c \in Claims :
                  CheckAttestation(settled[i].att, k, c.nullifier_hash)
      BY <1>1, <2>4, CheckFresh
    <2>5. QED
      BY <1>5, <2>1, <2>2, <2>3, <2>4 DEF SettlementStep
  <1>6. CASE TreeMoves \/ NextSlot \/ NextSecond
    <2>1. UNCHANGED <<issuers, published, settled, checked>>
      BY <1>6 DEF TreeMoves, TreeMovesOn, NextSlot, NextSecond
    <2>2. slot' \in Int /\ slot <= slot'
      BY <1>2, <1>6 DEF TreeMoves, TreeMovesOn, NextSlot, NextSecond
    <2>3. QED
      BY <1>1, <2>1, <2>2, QuietFresh
  <1>7. CASE UNCHANGED vars
    BY <1>1, <1>2, <1>7, QuietFresh DEF vars
  <1>8. QED
    BY <1>1, <1>3, <1>4, <1>5, <1>6, <1>7 DEF Next, TreeMoves

\* The facts about roots and time hold throughout.
THEOREM Freshness == Spec => []FreshInv
  <1>1. Init => FreshInv
    BY DEF Init, FreshInv, PublishedLast, SettledInPast, CheckedInTime,
           AttestedAgainstCurrentRoots, TimestampRecent
  <1>2. IInv /\ FreshInv /\ [Next]_vars => FreshInv'
    BY NextFresh
  <1>3. QED
    BY <1>1, <1>2, Invariance, PTL DEF Spec

\* An attestation says what was proved, against roots that were its issuer's
\* when it was settled, whatever was published while the proof was staged.
THEOREM RootsCurrent == Spec => []AttestedAgainstCurrentRoots
  <1>1. FreshInv => AttestedAgainstCurrentRoots
    BY DEF FreshInv
  <1>2. QED
    BY <1>1, Freshness, PTL

\* The timestamp that is compared with the credential's expiry is less than
\* MAX_EPOCH_LAG + 1 epochs old, for every length of an epoch.
THEOREM TimeBounded == Spec => []TimestampRecent
  <1>1. FreshInv => TimestampRecent
    BY DEF FreshInv
  <1>2. QED
    BY <1>1, Freshness, PTL

\* check_attestation honours a replaced root for MAX_ATTESTATION_AGE_SLOTS
\* slots at most, however often roots were replaced.
THEOREM RootsExpire == Spec => []ReplacedRootsExpire
  <1>1. IInv /\ FreshInv => ReplacedRootsExpire
    <2>1. SUFFICES ASSUME IInv, FreshInv, checked # NoCheck
                   PROVE  \E s \in checked.slot - MAX_ATTESTATION_AGE_SLOTS
                                     .. checked.slot :
                             WereCurrent(checked.att.issuer, checked.att.roots, s)
      BY DEF ReplacedRootsExpire
    <2>2. PICK i \in DOMAIN settled :
            /\ checked.att = settled[i].att
            /\ checked.slot \in Int
            /\ checked.att.slot <= checked.slot
            /\ checked.slot - checked.att.slot <= MAX_ATTESTATION_AGE_SLOTS
      BY <2>1 DEF FreshInv, CheckedInTime
    <2>3. checked.att.slot \in Int
      BY <2>1, <2>2, SettledType
    <2>4. WereCurrent(checked.att.issuer, checked.att.roots, checked.att.slot)
      BY <2>1, <2>2 DEF FreshInv, AttestedAgainstCurrentRoots
    <2>5. checked.att.slot \in checked.slot - MAX_ATTESTATION_AGE_SLOTS
                                .. checked.slot
      BY <2>2, <2>3, SettlementNumbers
    <2>6. QED
      BY <2>4, <2>5
  <1>2. QED
    BY <1>1, Invariance, Freshness, PTL

-----------------------------------------------------------------------------
(* The program implements ProofStaging.                                    *)

\* Appending n bytes of a proof to the first m bytes of f.
LEMMA Appended ==
    ASSUME NEW S, NEW m \in Nat, NEW n \in Nat, NEW p \in S,
           NEW f, \A i \in 1 .. m : f[i] \in S
    PROVE  /\ Len([i \in 1 .. m |-> f[i]]) = m
           /\ [i \in 1 .. m |-> f[i]] \o [i \in 1 .. n |-> p]
                 = [i \in 1 .. m + n |-> IF i \in m + 1 .. m + n THEN p ELSE f[i]]
  <1> DEFINE old == [i \in 1 .. m |-> f[i]]
             new == [i \in 1 .. n |-> p]
             all == [i \in 1 .. m + n |->
                       IF i \in m + 1 .. m + n THEN p ELSE f[i]]
  <1>1. old \in Seq(S) /\ Len(old) = m
    BY FunctionIsSeq
  <1>2. new \in Seq(S) /\ Len(new) = n
    BY FunctionIsSeq
  <1>3. all \in Seq(S) /\ Len(all) = m + n
    <2>1. m + n \in Nat /\ all \in [1 .. m + n -> S]
      OBVIOUS
    <2>2. QED
      BY <2>1, FunctionIsSeq
  <1>4. /\ old \o new \in Seq(S)
        /\ Len(old \o new) = m + n
        /\ \A i \in 1 .. m + n :
              (old \o new)[i] = IF i <= m THEN old[i] ELSE new[i - m]
    <2> HIDE DEF old, new
    <2>1. QED
      BY <1>1, <1>2, ConcatProperties
  <1>5. \A i \in 1 .. m + n : (old \o new)[i] = all[i]
    BY <1>4
  <1> HIDE DEF old, new, all
  <1>6. old \o new = all
    BY <1>3, <1>4, <1>5, SeqEqual
  <1>7. QED
    BY <1>1, <1>6 DEF old, new, all

\* The accounts as ProofStaging sees them.
Accounts == [k \in Authorities |-> AccountOf(payload[k])]

\* An instruction on one payload is one step on one account.
LEMMA OneAccount ==
    ASSUME NEW k \in Authorities, payload \in [Authorities -> HookPayload \cup {NoPayload}],
           NEW q, payload' = [payload EXCEPT ![k] = q]
    PROVE  /\ Accounts[k] = AccountOf(payload[k])
           /\ Accounts' = [Accounts EXCEPT ![k] = AccountOf(q)]
  BY DEF Accounts

\* The written part of a payload that exists.
LEMMA OpenAccount ==
    ASSUME NEW p \in HookPayload, Staged(p)
    PROVE  /\ p # NoPayload
           /\ p.high_water_mark \in Nat /\ p.expected_proof_len \in Nat
           /\ p.expected_proof_len > 0
           /\ \A i \in 1 .. p.high_water_mark :
                 p.proof_and_witness[i] \in Proofs \cup {NoByte}
           /\ Len(AccountOf(p).content) = p.high_water_mark
           /\ AccountOf(p).length = p.expected_proof_len
           /\ AccountOf(p).stage = IF p.finalized THEN "final" ELSE "staging"
  <1>1. /\ p # NoPayload
        /\ p.high_water_mark \in Nat
        /\ p.expected_proof_len \in Nat
        /\ p.expected_proof_len > 0
        /\ p.proof_and_witness \in Seq(Proofs \cup {NoByte})
    BY SettlementNames, SettlementNumbers DEF HookPayload
  <1>2. \A i \in 1 .. p.high_water_mark :
           p.proof_and_witness[i] \in Proofs \cup {NoByte}
    <2>1. p.high_water_mark <= Len(p.proof_and_witness)
      BY DEF Staged
    <2>2. /\ Len(p.proof_and_witness) \in Nat
          /\ \A i \in 1 .. Len(p.proof_and_witness) :
                p.proof_and_witness[i] \in Proofs \cup {NoByte}
      BY <1>1, LenProperties
    <2>3. QED
      BY <1>1, <2>1, <2>2
  <1>3. [i \in 1 .. p.high_water_mark |-> p.proof_and_witness[i]]
           \in [1 .. p.high_water_mark -> Proofs \cup {NoByte}]
    BY <1>2
  <1>4. Len([i \in 1 .. p.high_water_mark |-> p.proof_and_witness[i]])
           = p.high_water_mark
    BY <1>1, <1>3, FunctionIsSeq
  <1>5. QED
    BY <1>1, <1>2, <1>4 DEF AccountOf

\* init_hook_payload opens an account.
LEMMA InitOpens ==
    ASSUME IInv, NEW k \in Authorities, NEW len \in ProofLens,
           InitHookPayload(k, len)
    PROVE  Staging!Open(k, len)
  <1> DEFINE q == [expected_proof_len |-> len, space |-> 0,
                   high_water_mark |-> 0, finalized |-> FALSE,
                   proof_and_witness |-> <<>>, claim |-> NoClaim,
                   light_args |-> NoArgs]
             opened == [stage |-> "staging", length |-> len, content |-> <<>>,
                        claim |-> NoClaim]
  <1>1. /\ len > 0 /\ len <= MAX_HOOK_PROOF_BYTES
        /\ payload[k] = NoPayload
        /\ payload' = [payload EXCEPT ![k] = q]
    BY DEF InitHookPayload
  <1>2. q \in HookPayload /\ Staged(q)
    BY <1>1, FreshPayload
  <1>3. AccountOf(q) = opened
    <2>1. q # NoPayload
      BY <1>2, OpenAccount
    <2>2. [i \in 1 .. 0 |-> <<>>[i]] = <<>>
      OBVIOUS
    <2>3. QED
      BY <2>1, <2>2 DEF AccountOf
  <1> HIDE DEF q
  <1>4. /\ Accounts[k].stage = "none"
        /\ Accounts' = [Accounts EXCEPT ![k] = opened]
    <2>1. AccountOf(payload[k]).stage = "none"
      BY <1>1 DEF AccountOf
    <2>2. QED
      BY <1>1, <1>3, <2>1, OneAccount DEF IInv, TypeOK
  <1>5. QED
    BY <1>4 DEF Accounts, Staging!Open, Staging!Becomes, Staging!Absent

\* resize_hook_payload allocates what its owner does not see.
LEMMA ResizeStutters ==
    ASSUME IInv, NEW k \in Authorities, ResizeHookPayload(k)
    PROVE  Accounts' = Accounts
  <1> DEFINE p == payload[k]
             q == IF p.space >= p.expected_proof_len THEN p ELSE Grown(p)
  <1>1. p \in HookPayload /\ Staged(p) /\ ~p.finalized
    BY Modifiable DEF ResizeHookPayload
  <1>2. payload' = [payload EXCEPT ![k] = q]
    BY DEF ResizeHookPayload, IInv, TypeOK
  <1>3. AccountOf(q) = AccountOf(p)
    <2>1. CASE p.space >= p.expected_proof_len
      BY <2>1
    <2>2. CASE ~(p.space >= p.expected_proof_len)
      <3>1. p.space < p.expected_proof_len
        BY <1>1, <2>2, SettlementNumbers DEF HookPayload
      <3>2. Grown(p) \in HookPayload /\ Staged(Grown(p))
        BY <1>1, <3>1, GrownPayload
      <3>3. p # NoPayload /\ Grown(p) # NoPayload
        BY <1>1, <3>2, OpenAccount
      <3>4. p.high_water_mark = 0
        BY <1>1, <3>1, SettlementNumbers DEF HookPayload, Staged
      <3>5. /\ Grown(p).high_water_mark = p.high_water_mark
            /\ Grown(p).expected_proof_len = p.expected_proof_len
            /\ Grown(p).claim = p.claim
            /\ Grown(p).finalized = p.finalized
        BY <1>1 DEF Grown, HookPayload
      <3>6. [i \in 1 .. p.high_water_mark |-> Grown(p).proof_and_witness[i]]
               = [i \in 1 .. p.high_water_mark |-> p.proof_and_witness[i]]
        BY <3>4
      <3>7. AccountOf(Grown(p)) = AccountOf(p)
        BY <3>3, <3>5, <3>6 DEF AccountOf
      <3>8. QED
        BY <2>2, <3>7
    <2>3. QED
      BY <2>1, <2>2
  <1> HIDE DEF q
  <1>4. Accounts' = [Accounts EXCEPT ![k] = Accounts[k]]
    BY <1>2, <1>3, OneAccount DEF IInv, TypeOK
  <1>5. QED
    BY <1>4 DEF Accounts

\* write_hook_proof writes the next bytes; a write of no bytes is not seen.
LEMMA WriteAppends ==
    ASSUME IInv, NEW k \in Authorities, NEW offset \in Nat, NEW n \in Nat,
           NEW proof \in Proofs, WriteHookProof(k, offset, proof, n)
    PROVE  \/ Accounts' = Accounts
           \/ n \in 1 .. Accounts[k].length /\ Staging!Write(k, proof, n)
  <1> DEFINE p == payload[k]
             h == p.high_water_mark
             bytes == [i \in DOMAIN p.proof_and_witness |->
                         IF i \in h + 1 .. h + n
                         THEN proof ELSE p.proof_and_witness[i]]
             q == [p EXCEPT !.proof_and_witness = bytes,
                            !.high_water_mark = h + n]
  <1>1. p \in HookPayload /\ Staged(p) /\ ~p.finalized
    BY Modifiable DEF WriteHookProof
  <1>2. /\ offset = h
        /\ h + n <= p.expected_proof_len
        /\ h + n <= Len(p.proof_and_witness)
    BY DEF WriteHookProof
  <1>3. q \in HookPayload /\ Staged(q)
    BY <1>1, <1>2, WrittenPayload
  <1>4. payload' = [payload EXCEPT ![k] = q]
    BY <1>1, <1>2 DEF WriteHookProof, IInv, TypeOK, HookPayload
  <1>5. /\ q.high_water_mark = h + n /\ q.proof_and_witness = bytes
        /\ q.expected_proof_len = p.expected_proof_len
        /\ q.claim = p.claim /\ ~q.finalized
    BY <1>1 DEF HookPayload
  <1>6. /\ p # NoPayload /\ h \in Nat /\ p.expected_proof_len \in Nat
        /\ \A i \in 1 .. h : p.proof_and_witness[i] \in Proofs \cup {NoByte}
        /\ Len(AccountOf(p).content) = h
        /\ AccountOf(p).length = p.expected_proof_len
        /\ AccountOf(p).stage = "staging"
    BY <1>1, OpenAccount
  <1>7. q # NoPayload
    BY <1>3, OpenAccount
  <1>8. [i \in 1 .. h + n |-> bytes[i]]
           = [i \in 1 .. h |-> p.proof_and_witness[i]] \o [i \in 1 .. n |-> proof]
    <2>1. /\ Len(p.proof_and_witness) \in Nat
          /\ DOMAIN p.proof_and_witness = 1 .. Len(p.proof_and_witness)
      BY <1>1, LenProperties DEF HookPayload
    <2>2. \A i \in 1 .. h + n :
             bytes[i] = IF i \in h + 1 .. h + n THEN proof ELSE p.proof_and_witness[i]
      BY <1>2, <1>6, <2>1
    <2> HIDE DEF bytes, h, p
    <2>3. [i \in 1 .. h |-> p.proof_and_witness[i]] \o [i \in 1 .. n |-> proof]
             = [i \in 1 .. h + n |-> IF i \in h + 1 .. h + n
                                     THEN proof ELSE p.proof_and_witness[i]]
      <3> DEFINE f == p.proof_and_witness
                 S == Proofs \cup {NoByte}
      <3>1. proof \in S /\ h \in Nat /\ \A i \in 1 .. h : f[i] \in S
        BY <1>6
      <3> HIDE DEF f, S
      <3>2. [i \in 1 .. h |-> f[i]] \o [i \in 1 .. n |-> proof]
             = [i \in 1 .. h + n |-> IF i \in h + 1 .. h + n
                                     THEN proof ELSE f[i]]
        BY <3>1, Appended
      <3>3. QED
        BY <3>2 DEF f
    <2>4. QED
      BY <2>2, <2>3
  <1> HIDE DEF bytes, q
  <1>9. AccountOf(q) = [AccountOf(p) EXCEPT
                          !.content = @ \o [i \in 1 .. n |-> proof]]
    <2> DEFINE old == [i \in 1 .. h |-> p.proof_and_witness[i]]
               all == [i \in 1 .. h + n |-> bytes[i]]
    <2>1. AccountOf(p) = [stage |-> "staging", length |-> p.expected_proof_len,
                          content |-> old, claim |-> p.claim]
      BY <1>1, <1>6 DEF AccountOf
    <2>2. AccountOf(q) = [stage |-> "staging", length |-> p.expected_proof_len,
                          content |-> all, claim |-> p.claim]
      BY <1>5, <1>7 DEF AccountOf
    <2>3. all = old \o [i \in 1 .. n |-> proof]
      BY <1>8
    <2> HIDE DEF old, all
    <2> DEFINE a == AccountOf(p)
               b == [a EXCEPT !.content = @ \o [i \in 1 .. n |-> proof]]
    <2>4. a \in [stage : {"staging"}, length : {p.expected_proof_len},
                 content : {old, all}, claim : {p.claim}]
      BY <2>1
    <2>5. a.content = old
      BY <2>1
    <2> HIDE DEF a
    <2>6. /\ b \in [stage : {"staging"}, length : {p.expected_proof_len},
                    content : {old, all}, claim : {p.claim}]
          /\ b.content = all
      BY <2>3, <2>4, <2>5
    <2> HIDE DEF b
    <2>7. b = AccountOf(q)
      BY <2>2, <2>6
    <2>8. QED
      BY <2>7 DEF a, b
  <1>10. /\ Accounts[k] = AccountOf(p)
         /\ Accounts' = [Accounts EXCEPT ![k] = AccountOf(q)]
    BY <1>4, OneAccount DEF IInv, TypeOK
  <1>11. CASE n = 0
    <2>1. AccountOf(q) = AccountOf(p)
      <3>1. [i \in 1 .. h + n |-> bytes[i]]
              = [i \in 1 .. h |-> p.proof_and_witness[i]]
        BY <1>6, <1>11 , <1>2, <1>1, LenProperties DEF bytes, HookPayload
      <3>2. QED
        BY <1>1, <1>5, <1>6, <1>7, <1>11, <3>1 DEF AccountOf
    <2>2. QED
      BY <1>10, <2>1 DEF Accounts
  <1>12. CASE n # 0
    <2>1. n \in 1 .. Accounts[k].length
      BY <1>2, <1>6, <1>10, <1>12
    <2>2. /\ Accounts[k].stage = "staging"
          /\ Len(Accounts[k].content) + n <= Accounts[k].length
          /\ Accounts' = [Accounts EXCEPT ![k] =
               [Accounts[k] EXCEPT !.content = @ \o [i \in 1 .. n |-> proof]]]
      BY <1>2, <1>6, <1>9, <1>10
    <2>3. Staging!Write(k, proof, n)
      BY <2>2 DEF Accounts, Staging!Write, Staging!Becomes
    <2>4. QED
      BY <2>1, <2>3
  <1>13. QED
    BY <1>11, <1>12

\* finalize_hook_payload adds the claim to a proof that is complete.
LEMMA FinalizeAdds ==
    ASSUME IInv, NEW k \in Authorities, NEW claim \in Claims,
           NEW args \in StagedLightArgs, FinalizeHookPayload(k, claim, args)
    PROVE  Staging!Finalize(k, claim)
  <1> DEFINE p == payload[k]
             q == [p EXCEPT !.claim = claim, !.light_args = args,
                            !.finalized = TRUE]
  <1>1. p \in HookPayload /\ Staged(p) /\ ~p.finalized
    BY Modifiable DEF FinalizeHookPayload
  <1>2. p.high_water_mark = p.expected_proof_len
    BY DEF FinalizeHookPayload
  <1>3. payload' = [payload EXCEPT ![k] = q]
    BY <1>1 DEF FinalizeHookPayload, IInv, TypeOK, HookPayload
  <1>4. /\ q \in HookPayload
        /\ q.proof_and_witness = p.proof_and_witness
        /\ q.high_water_mark = p.high_water_mark
        /\ q.expected_proof_len = p.expected_proof_len
        /\ q.claim = claim /\ q.finalized
    BY <1>1 DEF HookPayload
  <1> HIDE DEF q
  <1>5. /\ p # NoPayload
        /\ Len(AccountOf(p).content) = p.high_water_mark
        /\ AccountOf(p).length = p.expected_proof_len
        /\ AccountOf(p).stage = "staging"
    BY <1>1, OpenAccount
  <1>6. q # NoPayload
    BY <1>4, SettlementNames
  <1>7. AccountOf(q) = [AccountOf(p) EXCEPT !.stage = "final", !.claim = claim]
    <2> DEFINE bytes == [i \in 1 .. p.high_water_mark |-> p.proof_and_witness[i]]
    <2>1. AccountOf(p) = [stage |-> "staging", length |-> p.expected_proof_len,
                          content |-> bytes, claim |-> p.claim]
      BY <1>1, <1>5 DEF AccountOf
    <2>2. AccountOf(q) = [stage |-> "final", length |-> p.expected_proof_len,
                          content |-> bytes, claim |-> claim]
      BY <1>4, <1>6 DEF AccountOf
    <2> HIDE DEF bytes
    <2> DEFINE a == AccountOf(p)
               b == [a EXCEPT !.stage = "final", !.claim = claim]
    <2>3. a \in [stage : {"staging", "final"}, length : {p.expected_proof_len},
                 content : {bytes}, claim : {p.claim, claim}]
      BY <2>1
    <2> HIDE DEF a
    <2>4. /\ b \in [stage : {"staging", "final"}, length : {p.expected_proof_len},
                    content : {bytes}, claim : {p.claim, claim}]
          /\ b.stage = "final" /\ b.claim = claim
      BY <2>3
    <2> HIDE DEF b
    <2>5. b = AccountOf(q)
      BY <2>2, <2>4
    <2>6. QED
      BY <2>5 DEF a, b
  <1>8. /\ Accounts[k] = AccountOf(p)
        /\ Accounts' = [Accounts EXCEPT ![k] = AccountOf(q)]
    BY <1>3, OneAccount DEF IInv, TypeOK
  <1>9. /\ Accounts[k].stage = "staging"
        /\ Len(Accounts[k].content) = Accounts[k].length
        /\ Accounts' = [Accounts EXCEPT
             ![k] = [Accounts[k] EXCEPT !.stage = "final", !.claim = claim]]
    BY <1>2, <1>5, <1>7, <1>8
  <1>10. QED
    BY <1>9 DEF Accounts, Staging!Finalize, Staging!Becomes

\* close_hook_payload and settle_hook close an account that exists.
LEMMA ClosingCloses ==
    ASSUME IInv, NEW k \in Authorities, payload[k] # NoPayload,
           payload' = [payload EXCEPT ![k] = NoPayload]
    PROVE  Staging!Close(k)
  <1>1. /\ Accounts[k] = AccountOf(payload[k])
        /\ Accounts' = [Accounts EXCEPT ![k] = AccountOf(NoPayload)]
    BY OneAccount DEF IInv, TypeOK
  <1>2. AccountOf(NoPayload) = [stage |-> "none", length |-> 0,
                                content |-> <<>>, claim |-> NoClaim]
    BY DEF AccountOf
  <1>3. Accounts[k].stage # "none"
    BY <1>1, OpenAccount DEF IInv, TypeOK, PayloadsStaged
  <1>4. QED
    BY <1>1, <1>2, <1>3 DEF Accounts, Staging!Close, Staging!Becomes, Staging!Absent

\* Every step is a step of ProofStaging or leaves the accounts alone.
LEMMA StepStaging ==
    ASSUME IInv, [Next]_vars
    PROVE  Accounts' = Accounts \/ Staging!StagingNext
  <1>1. ASSUME NEW k \in Authorities, StagingStep(k)
        PROVE  Accounts' = Accounts \/ Staging!StagingNext
    <2>1. CASE \E n \in ProofLens : InitHookPayload(k, n)
      BY <2>1, InitOpens DEF Staging!StagingNext
    <2>2. CASE ResizeHookPayload(k)
      BY <2>2, ResizeStutters
    <2>3. CASE \E offset, n \in 0 .. MAX_HOOK_PROOF_BYTES, p \in Proofs :
                  WriteHookProof(k, offset, p, n)
      <3>1. PICK offset \in 0 .. MAX_HOOK_PROOF_BYTES,
                 n \in 0 .. MAX_HOOK_PROOF_BYTES, p \in Proofs :
                    WriteHookProof(k, offset, p, n)
        BY <2>3
      <3>2. offset \in Nat /\ n \in Nat
        BY SettlementNumbers
      <3>3. \/ Accounts' = Accounts
            \/ n \in 1 .. Accounts[k].length /\ Staging!Write(k, p, n)
        BY <3>1, <3>2, WriteAppends
      <3>4. QED
        BY <3>3 DEF Accounts, Staging!StagingNext
    <2>4. CASE \E c \in Claims, args \in StagedLightArgs :
                  FinalizeHookPayload(k, c, args)
      BY <2>4, FinalizeAdds DEF Staging!StagingNext
    <2>5. CASE CloseHookPayload(k)
      BY <2>5, ClosingCloses DEF CloseHookPayload, Staging!StagingNext
    <2>6. QED
      BY <1>1, <2>1, <2>2, <2>3, <2>4, <2>5 DEF StagingStep
  <1>2. ASSUME NEW k \in Authorities, SettlementStep(k)
        PROVE  Accounts' = Accounts \/ Staging!StagingNext
    <2>1. CASE \E c \in Claims : SettleHook(k, c.mint, c.recipient, c.amount)
      BY <2>1, ClosingCloses DEF SettleHook, RunSettlement, Staging!StagingNext
    <2>2. CASE ~\E c \in Claims : SettleHook(k, c.mint, c.recipient, c.amount)
      <3>1. payload' = payload
        BY <1>2, <2>2
           DEF SettlementStep, ExecuteHook, VerifyProof, CheckAttestation
      <3>2. QED
        BY <3>1 DEF Accounts
    <2>3. QED
      BY <2>1, <2>2
  <1>3. CASE \/ \E k \in Authorities : IssuerStep(k)
             \/ TreeMoves \/ NextSlot \/ NextSecond \/ UNCHANGED vars
    <2>1. payload' = payload
      BY <1>3
         DEF IssuerStep, RegisterIssuer, UpdateIssuerRoot, Publish,
             InitAttestationTree, InitExtraAccountMetaList, TreeMoves,
             TreeMovesOn, NextSlot, NextSecond, vars
    <2>2. QED
      BY <2>1 DEF Accounts
  <1>4. QED
    BY <1>1, <1>2, <1>3 DEF Next, TreeMoves

\* Each payload account is written front to back, completed once and then only
\* closed, whatever resizes, writes, settlements and closings of all issuers
\* come in between (transfer_hook/handlers.rs).
THEOREM StagingRefinement == Spec => ImplementsStaging
  <1>1. Init => Staging!StagingInit
    BY DEF Init, AccountOf, Staging!StagingInit, Staging!Absent
  <1>2. IInv /\ [Next]_vars =>
           [Staging!StagingNext]_([k \in Authorities |-> AccountOf(payload[k])])
    BY StepStaging DEF Accounts
  <1>3. QED
    BY <1>1, <1>2, Invariance, PTL
       DEF Spec, ImplementsStaging, Staging!StagingSpec

-----------------------------------------------------------------------------
(* The program implements AttestationRegistry.                             *)

\* The attestations and the last check as AttestationRegistry sees them.
Attested == [i \in DOMAIN settled |-> AttestationOf(settled[i])]

Vouched == IF checked = NoCheck THEN NoCheck
           ELSE [issuer |-> checked.att.issuer,
                 proof |-> [roots |-> checked.att.roots,
                            claim |-> checked.att.claim],
                 slot |-> checked.att.slot, checked |-> checked.slot]

registryVars == <<issuers, slot, now, Attested, Vouched>>

\* validate_epoch, by multiplication instead of division.
LEMMA EpochTimely ==
    ASSUME NEW claim \in Claims, now \in Nat, ValidateEpoch(claim.epoch)
    PROVE  Registry!Timely(claim)
  <1> DEFINE e == claim.epoch
             start == e * EPOCH_LEN_SECS
             span == (MAX_EPOCH_LAG + 1) * EPOCH_LEN_SECS
  <1>1. e \in Nat /\ EPOCH_LEN_SECS \in Nat /\ MAX_EPOCH_LAG \in Nat
    BY SettlementNumbers
  <1>2. 0 <= now - start /\ now - start < span
    BY <1>1, EpochRecent
  <1>3. start \in Nat /\ span \in Nat
    BY <1>1, ProductType
  <1>4. (e + MAX_EPOCH_LAG + 1) * EPOCH_LEN_SECS = start + span
    BY <1>1
  <1> HIDE DEF start, span
  <1>5. start <= now /\ now < start + span
    BY <1>2, <1>3
  <1>6. QED
    BY <1>4, <1>5 DEF Registry!Timely, start, span

\* A settlement is appended to what is attested.
LEMMA AttestedAppend ==
    ASSUME settled \in Seq(Settlement), NEW new \in Settlement,
           settled' = Append(settled, new)
    PROVE  Attested' = Append(Attested, AttestationOf(new))
  <1> DEFINE S == {AttestationOf(s) : s \in Settlement}
             n == Len(settled)
             longer == Append(Attested, AttestationOf(new))
  <1>1. /\ n \in Nat
        /\ DOMAIN settled = 1 .. n
        /\ DOMAIN settled' = 1 .. n + 1
        /\ \A i \in 1 .. n : settled'[i] = settled[i]
        /\ settled'[n + 1] = new
        /\ \A i \in 1 .. n : settled[i] \in Settlement
    OBVIOUS
  <1>2. Attested \in Seq(S) /\ Len(Attested) = n
    <2>1. Attested \in [1 .. n -> S]
      BY <1>1 DEF Attested
    <2> HIDE DEF S
    <2>2. QED
      BY <1>1, <2>1, FunctionIsSeq
  <1>3. AttestationOf(new) \in S
    OBVIOUS
  <1>4. Attested' \in Seq(S) /\ Len(Attested') = n + 1
    <2>1. Attested' = [i \in DOMAIN settled' |-> AttestationOf(settled'[i])]
      BY DEF Attested, AttestationOf
    <2>2. Attested' \in [1 .. n + 1 -> S]
      BY <1>1, <2>1
    <2>3. n + 1 \in Nat
      BY <1>1
    <2> HIDE DEF S
    <2>4. QED
      BY <2>2, <2>3, FunctionIsSeq
  <1>5. /\ longer \in Seq(S)
        /\ Len(longer) = n + 1
        /\ \A i \in 1 .. n : longer[i] = Attested[i]
        /\ longer[n + 1] = AttestationOf(new)
    <2> HIDE DEF S
    <2>1. QED
      BY <1>2, <1>3, AppendProperties
  <1>6. \A i \in 1 .. n + 1 : Attested'[i] = longer[i]
    <2>1. ASSUME NEW i \in 1 .. n PROVE Attested'[i] = Attested[i]
      BY <1>1 DEF Attested, AttestationOf
    <2>2. Attested'[n + 1] = AttestationOf(new)
      BY <1>1 DEF Attested, AttestationOf
    <2>3. QED
      BY <1>1, <1>5, <2>1, <2>2
  <1> HIDE DEF S, longer
  <1>7. Attested' = longer
    BY <1>4, <1>5, <1>6, SeqEqual
  <1>8. QED
    BY <1>7 DEF longer

\* A settlement is one attestation of the proof that verified.
LEMMA SettleAttests ==
    ASSUME IInv, FreshInv, NEW k \in Authorities, issuers[k] # NoIssuer,
           NEW claim \in Claims, NEW tree \in Trees, NEW root, NEW bytes,
           RootsFresh(k), ValidateEpoch(claim.epoch),
           VerifyBundle(bytes, k, claim), SettleCore(k, bytes, claim, tree, root),
           UNCHANGED <<issuers, slot, now, checked>>
    PROVE  \E p \in Proofs : Registry!Attest(k, p, tree)
  <1> DEFINE new == [att |-> [issuer |-> k, roots |-> issuers[k].roots,
                              claim |-> claim,
                              timestamp |-> claim.epoch * EPOCH_LEN_SECS,
                              slot |-> slot],
                     proof |-> bytes[1], tree |-> tree, at |-> now]
  <1>1. PICK p \in Proofs : /\ bytes = [i \in 1 .. PROOF_LEN |-> p]
                            /\ p.claim = claim
                            /\ p.roots = issuers[k].roots
    BY DEF VerifyBundle
  <1>2. bytes[1] = p
    BY <1>1, SettlementNumbers
  <1>3. new \in Settlement
    BY SettlementType
  <1>4. /\ settled \in Seq(Settlement)
        /\ settled' = Append(settled, new)
        /\ LightAddress(tree, k, claim) \notin addresses
    BY DEF IInv, TypeOK, SettleCore
  <1>5. AttestationOf(new) = [issuer |-> k, tree |-> tree, proof |-> p,
                              slot |-> slot, at |-> now]
    BY <1>2 DEF AttestationOf
  <1> HIDE DEF new
  <1>6. Attested' = Append(Attested, [issuer |-> k, tree |-> tree, proof |-> p,
                                      slot |-> slot, at |-> now])
    BY <1>3, <1>4, <1>5, AttestedAppend
  <1>7. ~Registry!Spent(k, tree, p.claim)
    <2>1. SUFFICES ASSUME NEW i \in DOMAIN settled,
                          Attested[i].issuer = k, Attested[i].tree = tree,
                          Attested[i].proof.claim.nullifier_hash
                             = claim.nullifier_hash
                   PROVE  FALSE
      BY <1>1 DEF Registry!Spent, Attested
    <2>2. /\ settled[i].att.issuer = k /\ settled[i].tree = tree
          /\ settled[i].proof.claim.nullifier_hash = claim.nullifier_hash
      BY <2>1 DEF Attested, AttestationOf
    <2>3. settled[i].proof.claim = settled[i].att.claim
      <3>1. settled[i].proof = [roots |-> settled[i].att.roots,
                                claim |-> settled[i].att.claim]
        BY DEF FreshInv, AttestedAgainstCurrentRoots
      <3>2. QED
        BY <3>1
    <2>4. LightAddress(settled[i].tree, settled[i].att.issuer,
                       settled[i].att.claim) \in addresses
      BY DEF IInv, AddressesTaken
    <2>5. QED
      BY <1>4, <2>2, <2>3, <2>4 DEF LightAddress
  <1>8. Registry!Timely(p.claim)
    <2>1. now \in Nat
      BY SettlementNumbers DEF IInv, TypeOK
    <2>2. QED
      BY <1>1, <2>1, EpochTimely
  <1>9. slot - issuers[k].root_slot <= MAX_ROOT_AGE_SLOTS
    BY DEF RootsFresh
  <1>10. UNCHANGED Vouched
    BY DEF Vouched
  <1>11. Registry!Attest(k, p, tree)
    BY <1>1, <1>6, <1>7, <1>8, <1>9, <1>10
       DEF Registry!Attest, Attested, Vouched
  <1>12. QED
    BY <1>11

\* settle_hook and Execute attest the proof that was staged.
LEMMA RunSettlementAttests ==
    ASSUME IInv, FreshInv, NEW k \in Authorities,
           NEW mint, NEW destination, NEW amount,
           RunSettlement(k, mint, destination, amount),
           UNCHANGED <<issuers, slot, now, checked>>
    PROVE  \E p \in Proofs, t \in Trees : Registry!Attest(k, p, t)
  <1>1. /\ issuers[k] # NoIssuer
        /\ payload[k].claim \in Claims
        /\ payload[k].light_args \in StagedLightArgs
    BY DEF RunSettlement, IInv, PayloadsStaged, Staged
  <1>2. payload[k].light_args.tree \in Trees
    BY <1>1 DEF StagedLightArgs
  <1>3. /\ RootsFresh(k) /\ ValidateEpoch(payload[k].claim.epoch)
        /\ VerifyBundle(payload[k].proof_and_witness, k, payload[k].claim)
        /\ SettleCore(k, payload[k].proof_and_witness, payload[k].claim,
                      payload[k].light_args.tree, payload[k].light_args.root)
    BY DEF RunSettlement
  <1>4. \E p \in Proofs : Registry!Attest(k, p, payload[k].light_args.tree)
    BY <1>1, <1>2, <1>3, SettleAttests
  <1>5. QED
    BY <1>2, <1>4

\* check_attestation vouches for an attestation that was made.
LEMMA CheckVouches ==
    ASSUME IInv, FreshInv, NEW i \in DOMAIN settled, NEW k, NEW nullifier_hash,
           CheckAttestation(settled[i].att, k, nullifier_hash)
    PROVE  i \in DOMAIN Attested /\ Registry!Vouch(Attested[i])
  <1> DEFINE att == settled[i].att
  <1>1. /\ checked' = [att |-> att, slot |-> slot]
        /\ slot - att.slot <= MAX_ATTESTATION_AGE_SLOTS
        /\ UNCHANGED <<issuers, slot, now, settled>>
    BY DEF CheckAttestation, ValidateAge
  <1>2. checked' # NoCheck
    <2>1. settled \in Seq(Settlement) /\ slot \in 0 .. MaxSlot
      BY DEF IInv, TypeOK
    <2>2. att \in CompressedAttestation
      <3>1. settled[i] \in Settlement
        BY <2>1
      <3>2. QED
        BY <3>1 DEF Settlement
    <2>3. checked' \in [att : CompressedAttestation, slot : 0 .. MaxSlot]
      BY <1>1, <2>1, <2>2
    <2>4. QED
      BY <2>3, SettlementNames
  <1>3. Attested[i] = AttestationOf(settled[i]) /\ i \in DOMAIN Attested
    BY DEF Attested
  <1>4. settled[i].proof = [roots |-> att.roots, claim |-> att.claim]
    BY DEF FreshInv, AttestedAgainstCurrentRoots
  <1>5. Vouched' = [issuer |-> Attested[i].issuer, proof |-> Attested[i].proof,
                    slot |-> Attested[i].slot, checked |-> slot]
    BY <1>1, <1>2, <1>3, <1>4 DEF Vouched, AttestationOf
  <1>6. slot - Attested[i].slot <= MAX_ATTESTATION_AGE_SLOTS
    BY <1>1, <1>3 DEF AttestationOf
  <1>7. Attested' = Attested
    BY <1>1 DEF Attested
  <1>8. QED
    BY <1>1, <1>3, <1>5, <1>6, <1>7 DEF Registry!Vouch, Attested, Vouched

\* Every step is a step of AttestationRegistry or leaves it alone.
LEMMA StepRegistry ==
    ASSUME IInv, FreshInv, [Next]_vars
    PROVE  UNCHANGED registryVars \/ Registry!RegistryNext
  <1>1. ASSUME NEW k \in Authorities, IssuerStep(k)
        PROVE  UNCHANGED registryVars \/ Registry!RegistryNext
    <2>1. CASE \E r \in Roots : RegisterIssuer(k, r) \/ UpdateIssuerRoot(k, r)
      <3>1. PICK r \in Roots : Publish(k, r)
        BY <2>1 DEF RegisterIssuer, UpdateIssuerRoot
      <3>2. /\ issuers' = [issuers EXCEPT ![k] = [roots |-> r, root_slot |-> slot]]
            /\ UNCHANGED <<slot, now, settled, checked>>
        BY <3>1 DEF Publish
      <3>3. UNCHANGED <<Attested, Vouched>>
        BY <3>2 DEF Attested, Vouched
      <3>4. Registry!Publish(k, r)
        BY <3>2, <3>3 DEF Registry!Publish, Attested, Vouched
      <3>5. QED
        BY <3>4 DEF Registry!RegistryNext
    <2>2. CASE \/ InitAttestationTree(k)
               \/ \E c \in Claims : InitExtraAccountMetaList(k, c.mint)
      BY <2>2 DEF InitAttestationTree, InitExtraAccountMetaList, registryVars,
                  Attested, Vouched
    <2>3. QED
      BY <1>1, <2>1, <2>2 DEF IssuerStep
  <1>2. ASSUME NEW k \in Authorities, StagingStep(k)
        PROVE  UNCHANGED registryVars
    <2>1. UNCHANGED <<issuers, slot, now, settled, checked>>
      BY <1>2 DEF StagingStep, InitHookPayload, ResizeHookPayload,
                  WriteHookProof, FinalizeHookPayload, CloseHookPayload
    <2>2. QED
      BY <2>1 DEF registryVars, Attested, Vouched
  <1>3. ASSUME NEW k \in Authorities, SettlementStep(k)
        PROVE  Registry!RegistryNext
    <2>1. CASE \/ \E c \in Claims : SettleHook(k, c.mint, c.recipient, c.amount)
               \/ \E c \in Claims : ExecuteHook(k, c.mint, c.recipient, c.amount)
      <3>1. PICK c \in Claims :
              /\ RunSettlement(k, c.mint, c.recipient, c.amount)
              /\ UNCHANGED <<issuers, slot, now, checked>>
        BY <2>1 DEF SettleHook, ExecuteHook
      <3>2. QED
        BY <3>1, RunSettlementAttests DEF Registry!RegistryNext
    <2>2. CASE \E p \in Proofs, c \in Claims, t \in Trees, r \in TreeRoots :
                  VerifyProof(k, p, c, t, r)
      BY <2>2, SettleAttests DEF VerifyProof, Registry!RegistryNext
    <2>3. CASE \E i \in DOMAIN settled, c \in Claims :
                  CheckAttestation(settled[i].att, k, c.nullifier_hash)
      <3>1. \E i \in DOMAIN Attested : Registry!Vouch(Attested[i])
        BY <2>3, CheckVouches DEF Attested
      <3>2. QED
        BY <3>1 DEF Registry!RegistryNext, Attested
    <2>4. QED
      BY <1>3, <2>1, <2>2, <2>3 DEF SettlementStep
  <1>4. CASE NextSlot
    <2>1. slot' = slot + 1 /\ UNCHANGED <<issuers, now, Attested, Vouched>>
      BY <1>4 DEF NextSlot, Attested, Vouched
    <2>2. QED
      BY <2>1 DEF Registry!NextSlot, Registry!RegistryNext, Attested, Vouched
  <1>5. CASE NextSecond
    <2>1. now' = now + 1 /\ UNCHANGED <<issuers, slot, Attested, Vouched>>
      BY <1>5 DEF NextSecond, Attested, Vouched
    <2>2. QED
      BY <2>1 DEF Registry!NextSecond, Registry!RegistryNext, Attested, Vouched
  <1>6. CASE TreeMoves \/ UNCHANGED vars
    BY <1>6 DEF TreeMoves, TreeMovesOn, vars, registryVars, Attested, Vouched
  <1>7. QED
    BY <1>1, <1>2, <1>3, <1>4, <1>5, <1>6 DEF Next, TreeMoves

\* Each settlement, by whichever of the three ways, is one step that attests
\* one whole proof of its claim, against the roots that the issuer has at that
\* moment, once per nullifier and tree (run_settlement, verify_proof_handler,
\* check_attestation_handler).
THEOREM RegistryRefinement == Spec => ImplementsRegistry
  <1>1. Init => Registry!RegistryInit
    BY DEF Init, Registry!RegistryInit
  <1>2. IInv /\ FreshInv /\ [Next]_vars =>
           [Registry!RegistryNext]_(Registry!registryVars)
    BY StepRegistry DEF registryVars, Registry!registryVars, Attested, Vouched
  <1>3. QED
    BY <1>1, <1>2, Invariance, Freshness, PTL
       DEF Spec, ImplementsRegistry, Registry!RegistrySpec

-----------------------------------------------------------------------------
(* What is ready can settle.  The guards of settle_hook and Execute are     *)
(* stated here as predicates of a state; two lemmas say that an action is   *)
(* its guard and one value for every variable, so that a state with the     *)
(* guard has a next state.                                                  *)

\* The checks of run_settlement and the address that settle_core must find
\* free.
CanRunSettlement(k, mint, destination, amount) ==
    LET p == payload[k] IN
    /\ p # NoPayload /\ registry /\ p.finalized
    /\ amount > 0
    /\ p.claim.mint = mint /\ p.claim.recipient = destination
    /\ p.claim.amount = amount
    /\ RootsFresh(k) /\ ValidateEpoch(p.claim.epoch)
    /\ VerifyBundle(p.proof_and_witness, k, p.claim)
    /\ ProofHolds(p.light_args.tree, p.light_args.root)
    /\ LightAddress(p.light_args.tree, k, p.claim) \notin addresses

CanSettleHook(k, mint, destination, amount) ==
    CanRunSettlement(k, mint, destination, amount) /\ leaves < MAX_LEAVES

CanExecuteHook(k, mint, destination, amount) ==
    /\ mint \in HookedMints /\ mint \in metas
    /\ CanRunSettlement(k, mint, destination, amount)
    /\ \/ payload[k].light_args.bubblegum_tail = 0
       \/ /\ payload[k].light_args.bubblegum_tail = BUBBLEGUM_MINT_V1_ACCOUNT_COUNT
          /\ leaves < MAX_LEAVES

\* The attestation of what k staged.
StagedSettlement(k) ==
    LET p == payload[k] IN
    [att |-> [issuer |-> k, roots |-> issuers[k].roots, claim |-> p.claim,
              timestamp |-> p.claim.epoch * EPOCH_LEN_SECS, slot |-> slot],
     proof |-> p.proof_and_witness[1], tree |-> p.light_args.tree, at |-> now]

\* settle_hook is its guard and a value for every variable.
LEMMA SettleHookGuard ==
    ASSUME NEW k, NEW mint, NEW destination, NEW amount
    PROVE  SettleHook(k, mint, destination, amount) <=>
              /\ CanSettleHook(k, mint, destination, amount)
              /\ issuers' = issuers
              /\ payload' = [payload EXCEPT ![k] = NoPayload]
              /\ registry' = registry
              /\ leaves' = leaves + 1
              /\ metas' = metas
              /\ addresses' = addresses \cup
                    {LightAddress(payload[k].light_args.tree, k, payload[k].claim)}
              /\ tree_root' = tree_root
              /\ slot' = slot
              /\ now' = now
              /\ settled' = Append(settled, StagedSettlement(k))
              /\ published' = published
              /\ checked' = checked
  BY Zenon DEF SettleHook, RunSettlement, SettleCore, MintLeaf, CanSettleHook,
         CanRunSettlement, StagedSettlement

\* So is Execute of a transfer that asks for no leaf.
LEMMA ExecuteHookGuard ==
    ASSUME NEW k, NEW mint, NEW destination, NEW amount,
           payload[k].light_args.bubblegum_tail = 0,
           BUBBLEGUM_MINT_V1_ACCOUNT_COUNT # 0
    PROVE  ExecuteHook(k, mint, destination, amount) <=>
              /\ CanExecuteHook(k, mint, destination, amount)
              /\ issuers' = issuers
              /\ payload' = payload
              /\ registry' = registry
              /\ leaves' = leaves
              /\ metas' = metas
              /\ addresses' = addresses \cup
                    {LightAddress(payload[k].light_args.tree, k, payload[k].claim)}
              /\ tree_root' = tree_root
              /\ slot' = slot
              /\ now' = now
              /\ settled' = Append(settled, StagedSettlement(k))
              /\ published' = published
              /\ checked' = checked
  BY Zenon DEF ExecuteHook, RunSettlement, SettleCore, MintLeaf, CanExecuteHook,
         CanRunSettlement, StagedSettlement

\* Addresses come from settlements only, and a finalized claim has an amount.
AddressesSettled ==
    \A a \in addresses : \E i \in DOMAIN settled :
        a = LightAddress(settled[i].tree, settled[i].att.issuer,
                         settled[i].att.claim)

AmountsPositive ==
    \A k \in Authorities :
        payload[k] # NoPayload /\ payload[k].finalized
           => payload[k].claim.amount > 0

\* A settlement writes the address of what it attests.
LEMMA SettleCoreAddress ==
    ASSUME IInv, AddressesSettled, NEW k, NEW bytes, NEW claim, NEW tree,
           NEW root,
           SettleCore(k, bytes, claim, tree, root), settled' \in Seq(Settlement)
    PROVE  AddressesSettled'
  <1> DEFINE new == [att |-> [issuer |-> k, roots |-> issuers[k].roots,
                              claim |-> claim,
                              timestamp |-> claim.epoch * EPOCH_LEN_SECS,
                              slot |-> slot],
                     proof |-> bytes[1], tree |-> tree, at |-> now]
  <1>1. /\ addresses' = addresses \cup {LightAddress(tree, k, claim)}
        /\ settled' = Append(settled, new)
    BY DEF SettleCore
  <1>2. new.tree = tree /\ new.att.issuer = k /\ new.att.claim = claim
    OBVIOUS
  <1> HIDE DEF new
  <1>3. /\ Len(settled) \in Nat
        /\ DOMAIN settled = 1 .. Len(settled)
        /\ DOMAIN settled' = 1 .. Len(settled) + 1
        /\ \A i \in 1 .. Len(settled) : settled'[i] = settled[i]
        /\ settled'[Len(settled) + 1] = new
    <2>1. settled \in Seq(Settlement)
      BY DEF IInv, TypeOK
    <2>2. QED
      BY <1>1, <2>1
  <1>4. SUFFICES ASSUME NEW a \in addresses'
                 PROVE  \E i \in DOMAIN settled' :
                           a = LightAddress(settled'[i].tree,
                                            settled'[i].att.issuer,
                                            settled'[i].att.claim)
    BY DEF AddressesSettled, LightAddress
  <1>5. CASE a \in addresses
    <2>1. PICK i \in DOMAIN settled :
             a = LightAddress(settled[i].tree, settled[i].att.issuer,
                              settled[i].att.claim)
      BY <1>5 DEF AddressesSettled
    <2>2. i \in DOMAIN settled' /\ settled'[i] = settled[i]
      BY <1>3
    <2>3. QED
      BY <2>1, <2>2
  <1>6. CASE a = LightAddress(tree, k, claim)
    BY <1>2, <1>3, <1>6
  <1>7. QED
    BY <1>1, <1>5, <1>6

\* Every step preserves both facts.
LEMMA SettlableNext ==
    ASSUME IInv, IInv', AddressesSettled, AmountsPositive, [Next]_vars
    PROVE  AddressesSettled' /\ AmountsPositive'
  <1>1. settled' \in Seq(Settlement)
    BY DEF IInv, TypeOK
  <1>2. AddressesSettled'
    <2>1. CASE \E k, bytes, claim, tree, root : SettleCore(k, bytes, claim, tree, root)
      BY <1>1, <2>1, SettleCoreAddress
    <2>2. CASE UNCHANGED <<addresses, settled>>
      BY <2>2 DEF AddressesSettled, LightAddress
    <2>3. CASE \E k \in Authorities : IssuerStep(k) \/ StagingStep(k)
      <3>1. PICK k \in Authorities : IssuerStep(k) \/ StagingStep(k)
        BY <2>3
      <3>2. CASE IssuerStep(k)
        BY <2>2, <3>2
           DEF IssuerStep, RegisterIssuer, UpdateIssuerRoot, Publish,
               InitAttestationTree, InitExtraAccountMetaList
      <3>3. CASE StagingStep(k)
        BY <2>2, <3>3
           DEF StagingStep, InitHookPayload, ResizeHookPayload, WriteHookProof,
               FinalizeHookPayload, CloseHookPayload
      <3>4. QED
        BY <3>1, <3>2, <3>3
    <2>4. ASSUME NEW k \in Authorities, SettlementStep(k)
          PROVE  AddressesSettled'
      <3>1. CASE \E c \in Claims :
                   \/ SettleHook(k, c.mint, c.recipient, c.amount)
                   \/ ExecuteHook(k, c.mint, c.recipient, c.amount)
        BY <2>1, <3>1, Zenon DEF SettleHook, ExecuteHook, RunSettlement
      <3>2. CASE \E p \in Proofs, c \in Claims, t \in Trees, r \in TreeRoots :
                   VerifyProof(k, p, c, t, r)
        BY <2>1, <3>2, Zenon DEF VerifyProof
      <3>3. CASE \E i \in DOMAIN settled, c \in Claims :
                   CheckAttestation(settled[i].att, k, c.nullifier_hash)
        BY <2>2, <3>3 DEF CheckAttestation
      <3>4. QED
        BY <2>4, <3>1, <3>2, <3>3 DEF SettlementStep
    <2>5. CASE TreeMoves \/ NextSlot \/ NextSecond \/ UNCHANGED vars
      BY <2>2, <2>5 DEF TreeMoves, TreeMovesOn, NextSlot, NextSecond, vars
    <2>6. QED
      BY <2>3, <2>4, <2>5 DEF Next, TreeMoves
  <1>3. AmountsPositive'
    <2>1. ASSUME NEW k \in Authorities, StagingStep(k) PROVE AmountsPositive'
      <3>1. SUFFICES ASSUME NEW h \in Authorities, payload'[h] # NoPayload,
                            payload'[h].finalized, payload'[h] # payload[h]
                     PROVE  payload'[h].claim.amount > 0
        BY DEF AmountsPositive
      <3>2. h = k /\ \E c \in Claims, args \in StagedLightArgs :
                         FinalizeHookPayload(k, c, args)
        <4>1. CASE \E n \in ProofLens : InitHookPayload(k, n)
          BY <3>1, <4>1 DEF InitHookPayload, IInv, TypeOK
        <4>2. CASE ResizeHookPayload(k)
          <5>1. payload[k] \in HookPayload /\ ~payload[k].finalized
            BY <4>2, Modifiable DEF ResizeHookPayload
          <5>2. ~Grown(payload[k]).finalized
            BY <5>1 DEF Grown, HookPayload
          <5>3. QED
            BY <3>1, <4>2, <5>1, <5>2 DEF ResizeHookPayload, IInv, TypeOK
        <4>3. CASE \E offset, n \in 0 .. MAX_HOOK_PROOF_BYTES, p \in Proofs :
                      WriteHookProof(k, offset, p, n)
          <5>1. payload[k] \in HookPayload /\ ~payload[k].finalized
            BY <4>3, Modifiable DEF WriteHookProof
          <5>2. \E bytes, end : payload' = [payload EXCEPT ![k] =
                  [payload[k] EXCEPT !.proof_and_witness = bytes,
                                     !.high_water_mark = end]]
            <6>1. PICK offset \in 0 .. MAX_HOOK_PROOF_BYTES,
                       n \in 0 .. MAX_HOOK_PROOF_BYTES, p \in Proofs :
                          WriteHookProof(k, offset, p, n)
              BY <4>3
            <6> DEFINE bytes == [i \in DOMAIN payload[k].proof_and_witness |->
                                   IF i \in offset + 1 .. offset + n
                                   THEN p ELSE payload[k].proof_and_witness[i]]
            <6>2. payload' = [payload EXCEPT ![k] =
                    [payload[k] EXCEPT !.proof_and_witness = bytes,
                                       !.high_water_mark = offset + n]]
              BY <5>1, <6>1 DEF WriteHookProof, IInv, TypeOK, HookPayload
            <6> HIDE DEF bytes
            <6>3. QED
              BY <6>2
          <5>3. \A h1 \in Authorities \ {k} : payload'[h1] = payload[h1]
            BY <5>2 DEF IInv, TypeOK
          <5>4. payload'[k].finalized = payload[k].finalized
            BY <5>1, <5>2 DEF IInv, TypeOK, HookPayload
          <5>5. QED
            BY <3>1, <5>1, <5>3, <5>4
        <4>4. CASE CloseHookPayload(k)
          BY <3>1, <4>4 DEF CloseHookPayload, IInv, TypeOK
        <4>5. CASE \E c \in Claims, args \in StagedLightArgs :
                      FinalizeHookPayload(k, c, args)
          BY <3>1, <4>5 DEF FinalizeHookPayload, IInv, TypeOK
        <4>6. QED
          BY <2>1, <4>1, <4>2, <4>3, <4>4, <4>5 DEF StagingStep
      <3>3. PICK c \in Claims, args \in StagedLightArgs :
                    FinalizeHookPayload(k, c, args)
        BY <3>2
      <3>4. payload'[k].claim = c /\ c.amount > 0
        BY <3>3 DEF FinalizeHookPayload, CanModify, IInv, TypeOK, HookPayload
      <3>5. QED
        BY <3>2, <3>4
    <2>2. ASSUME NEW k \in Authorities, IssuerStep(k) \/ SettlementStep(k)
          PROVE  AmountsPositive'
      <3>1. \/ payload' = payload
            \/ payload' = [payload EXCEPT ![k] = NoPayload]
        BY <2>2
           DEF IssuerStep, RegisterIssuer, UpdateIssuerRoot, Publish,
               InitAttestationTree, InitExtraAccountMetaList, SettlementStep,
               SettleHook, ExecuteHook, VerifyProof, CheckAttestation
      <3>2. QED
        BY <3>1 DEF IInv, TypeOK, AmountsPositive
    <2>3. CASE TreeMoves \/ NextSlot \/ NextSecond \/ UNCHANGED vars
      BY <2>3 DEF TreeMoves, TreeMovesOn, NextSlot, NextSecond, vars, AmountsPositive
    <2>4. QED
      BY <2>1, <2>2, <2>3 DEF Next, TreeMoves
  <1>4. QED
    BY <1>2, <1>3

\* A payload that is ready passes every check of a settlement.
LEMMA ReadyRuns ==
    ASSUME IInv, AddressesSettled, AmountsPositive,
           NEW k \in Authorities, Ready(k)
    PROVE  LET c == payload[k].claim
           IN  CanRunSettlement(k, c.mint, c.recipient, c.amount)
  <1> DEFINE p == payload[k]
  <1>1. p.claim.amount > 0
    BY DEF Ready, AmountsPositive
  <1>2. LightAddress(p.light_args.tree, k, p.claim) \notin addresses
    <2>1. SUFFICES ASSUME NEW i \in DOMAIN settled,
                          LightAddress(p.light_args.tree, k, p.claim)
                             = LightAddress(settled[i].tree,
                                            settled[i].att.issuer,
                                            settled[i].att.claim)
                   PROVE  FALSE
      BY DEF AddressesSettled
    <2>2. /\ settled[i].att.issuer = k
          /\ settled[i].att.claim.nullifier_hash = p.claim.nullifier_hash
      BY <2>1 DEF LightAddress
    <2>3. QED
      BY <2>2 DEF Ready
  <1>3. QED
    BY <1>1, <1>2 DEF Ready, CanRunSettlement

\* Whatever other issuers publish, stage and settle, a payload that is ready,
\* its validity proof not yet stale, passes every check of settle_hook while
\* the attestation tree has room, and every check of Execute, room or not,
\* when it asks for no leaf (derive_address, execute_hook_handler).
THEOREM ReadySettles ==
    Spec => [](\A k \in Authorities :
        LET c == payload[k].claim IN
        Ready(k) =>
           /\ leaves < MAX_LEAVES
                 => CanSettleHook(k, c.mint, c.recipient, c.amount)
           /\ payload[k].light_args.bubblegum_tail = 0 /\ c.mint \in metas
                 => CanExecuteHook(k, c.mint, c.recipient, c.amount))
  <1> DEFINE Settles ==
         \A k \in Authorities :
            LET c == payload[k].claim IN
            Ready(k) =>
               /\ leaves < MAX_LEAVES
                     => CanSettleHook(k, c.mint, c.recipient, c.amount)
               /\ payload[k].light_args.bubblegum_tail = 0 /\ c.mint \in metas
                     => CanExecuteHook(k, c.mint, c.recipient, c.amount)
  <1>1. Init => AddressesSettled /\ AmountsPositive
    BY DEF Init, AddressesSettled, AmountsPositive
  <1>2. IInv /\ IInv' /\ AddressesSettled /\ AmountsPositive /\ [Next]_vars
           => AddressesSettled' /\ AmountsPositive'
    BY SettlableNext
  <1>3. IInv /\ AddressesSettled /\ AmountsPositive => Settles
    BY ReadyRuns DEF CanSettleHook, CanExecuteHook, IInv, TypeOK
  <1> HIDE DEF Settles
  <1>4. Spec => []Settles
    BY <1>1, <1>2, <1>3, Invariance, PTL DEF Spec
  <1>5. QED
    BY <1>4 DEF Settles
=============================================================================

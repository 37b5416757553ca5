----------------------------- MODULE ProofUpload -----------------------------
(***************************************************************************)
(* Staging a proof from a client: the submit step of the dashboard's prove *)
(* flow (frontend/src/hooks/use-prove-flow.ts) and uploadProofChunked of   *)
(* the SDK (sdk/src/wrap/index.ts).  Both send a series of transactions to *)
(* the one HookPayload account of a wallet, and both learn what became of  *)
(* a transaction only through an RPC node.                                 *)
(*                                                                         *)
(* A transaction that was sent may land after any other, land in an order  *)
(* of the leader's choosing, fail on chain (every one is sent with         *)
(* skipPreflight), or expire with its blockhash.  A client that gives up   *)
(* leaves its transactions in flight, where they meet those of the next    *)
(* attempt.                                                                *)
(***************************************************************************)
EXTENDS Integers, Sequences, FiniteSets

CONSTANTS
    Flows,          \* the attempts to stage a proof, in the order they start
    LEN,            \* the length of a proof, in chunks of CHUNK_SIZE
    WRITES_PER_TX,
    RESIZE_STEP,    \* chunks by which one instruction may realloc (10 KiB)
    NoPayload,
    MaxFaults       \* bound on RPC errors, rejections and lost transactions

ASSUME UploadNumbers ==
    /\ IsFiniteSet(Flows) /\ Flows = 1 .. Cardinality(Flows)
    /\ LEN \in Nat \ {0} /\ WRITES_PER_TX \in Nat \ {0}
    /\ RESIZE_STEP \in Nat \ {0} /\ MaxFaults \in Nat

VARIABLES
    issuer,     \* the Issuer account exists
    payload,    \* the HookPayload account
    tx,         \* the fate of each transaction of each flow
    flow,       \* the program counter and local variables of each flow
    faults,     \* the number of faults so far
    alone,      \* history: the flow has had the payload to itself
    faulty,     \* history: the flow met a fault
    staged      \* history: the payload that the flow's finalize completed

uvars == <<issuer, payload, tx, flow, faults, alone, faulty, staged>>

CeilDiv(a, b) == (a + b - 1) \div b

\* buildResizeIxs: an upper bound on the resizes, from the proof length alone.
Resizes == CeilDiv(LEN, RESIZE_STEP)
Writes == CeilDiv(LEN, WRITES_PER_TX)

TxNames ==
    {<<n, 1>> : n \in {"register", "close", "init", "finalize"}}
        \cup {<<"resize", i>> : i \in 1 .. Resizes}
        \cup {<<"write", i>> : i \in 1 .. Writes}

\* The transactions that one approval of the wallet signs.  The dashboard puts
\* the first resize into the transaction of init and signs batches; the SDK
\* hands each transaction to signAndSend.
Batch(f) ==
    LET stage == flow[f].stage IN
    IF flow[f].kind = "sdk" THEN << <<stage, flow[f].next>> >>
    ELSE CASE stage = "init" ->
                [i \in 1 .. Resizes |->
                   IF i = 1 THEN <<"init", 1>> ELSE <<"resize", i>>]
           [] stage = "write" -> [i \in 1 .. Writes |-> <<"write", i>>]
           [] OTHER -> << <<stage, 1>> >>

Fates == {"unsent", "flight", "ok", "err", "gone"}

Payload ==
    [space : 0 .. LEN, data : [1 .. LEN -> Flows \cup {0}],
     high_water_mark : 0 .. LEN, finalized : BOOLEAN, claim : Flows \cup {0}]

ASSUME NoPayloadIsNone == NoPayload \notin Payload

NewFlow ==
    [kind |-> "none", stage |-> "none", phase |-> "off", next |-> 1,
     base |-> 0, fits |-> TRUE]

UploadInit ==
    /\ issuer = FALSE /\ payload = NoPayload
    /\ tx = [f \in Flows |-> [n \in TxNames |-> "unsent"]]
    /\ flow = [f \in Flows |-> NewFlow]
    /\ faults = 0
    /\ alone = [f \in Flows |-> FALSE]
    /\ faulty = [f \in Flows |-> FALSE]
    /\ staged = [f \in Flows |-> NoPayload]

At(f, stage, phase) == flow[f].stage = stage /\ flow[f].phase = phase

Alive(f) == flow[f].phase \notin {"off", "done", "failed"}

InFlight(f) == {n \in TxNames : tx[f][n] = "flight"}

-----------------------------------------------------------------------------
(* The chain: the six instructions of the program that an upload uses.     *)
(* A transaction is atomic, so that of two writes is one longer write.     *)

WriteFrom(i) == (i - 1) * WRITES_PER_TX
WriteTo(i) == IF i = Writes THEN LEN ELSE i * WRITES_PER_TX

Succeeds(n) ==
    CASE n[1] = "register" -> ~issuer
      [] n[1] = "close" -> payload # NoPayload
      [] n[1] = "init" -> issuer /\ payload = NoPayload
      [] OTHER ->
            /\ issuer /\ payload # NoPayload
            /\ ~payload.finalized
            /\ n[1] = "write" => /\ payload.high_water_mark = WriteFrom(n[2])
                                 /\ payload.space = LEN
            /\ n[1] = "finalize" => payload.high_water_mark = LEN

Grow(space) == IF space + RESIZE_STEP >= LEN THEN LEN ELSE space + RESIZE_STEP

NewPayload(f) ==
    [space |-> IF flow[f].kind = "sdk" THEN 0 ELSE Grow(0),
     data |-> [i \in 1 .. LEN |-> 0], high_water_mark |-> 0,
     finalized |-> FALSE, claim |-> 0]

Effect(f, n) ==
    CASE n[1] = "close" -> NoPayload
      [] n[1] = "init" -> NewPayload(f)
      [] n[1] = "resize" -> [payload EXCEPT !.space = Grow(@)]
      [] n[1] = "write" ->
            [payload EXCEPT
               !.data = [i \in 1 .. LEN |->
                  IF i \in WriteFrom(n[2]) + 1 .. WriteTo(n[2]) THEN f ELSE @[i]],
               !.high_water_mark = WriteTo(n[2])]
      [] n[1] = "finalize" ->
            [payload EXCEPT !.finalized = TRUE, !.claim = f]
      [] OTHER -> payload

\* A write that overtakes the one before it.
Overtakes(f, n) ==
    n[1] = "write" /\ n[2] > 1 /\ tx[f][<<"write", n[2] - 1>>] # "ok"

Land(f, n) ==
    /\ n \in InFlight(f)
    /\ tx' = [tx EXCEPT ![f][n] = IF Succeeds(n) THEN "ok" ELSE "err"]
    /\ payload' = IF Succeeds(n) THEN Effect(f, n) ELSE payload
    /\ issuer' = (issuer \/ n[1] = "register")
    /\ staged' = IF Succeeds(n) /\ n[1] = "finalize"
                 THEN [staged EXCEPT ![f] = Effect(f, n)] ELSE staged
    /\ faulty' = [faulty EXCEPT ![f] = @ \/ Overtakes(f, n)]
    /\ UNCHANGED <<flow, faults, alone>>

\* A transaction is forgotten once its blockhash is too old.
Expire(f, n) ==
    /\ n \in InFlight(f)
    /\ faults < MaxFaults /\ faults' = faults + 1
    /\ tx' = [tx EXCEPT ![f][n] = "gone"]
    /\ faulty' = [faulty EXCEPT ![f] = TRUE]
    /\ UNCHANGED <<issuer, payload, flow, alone, staged>>

-----------------------------------------------------------------------------
(* What the steps of both clients have in common.                          *)

Goto(f, stage, phase) ==
    flow' = [flow EXCEPT ![f].stage = stage, ![f].phase = phase, ![f].next = 1]

\* All instructions of the upload are built before the first is sent, that of
\* finalize with the claim.
GotoInit(f) == Goto(f, "init", "sign")

\* Transactions of f reach the network: nobody else is alone any more, except
\* who already has a payload completed.
Sent(f, names) ==
    /\ tx' = [tx EXCEPT ![f] = [n \in TxNames |->
                                  IF n \in names THEN "flight" ELSE @[n]]]
    /\ alone' = [g \in Flows |-> alone[g] /\ (g = f \/ staged[g] # NoPayload)]

\* The error reaches the catch of the flow and the step fails.
Fail(f) ==
    flow' = [flow EXCEPT ![f].phase = "failed", ![f].next = 1, ![f].base = 0]

Fault(f) ==
    /\ faults < MaxFaults /\ faults' = faults + 1
    /\ faulty' = [faulty EXCEPT ![f] = TRUE]

\* The user rejects, or the wallet has gone.
Reject(f) ==
    /\ flow[f].phase = "sign"
    /\ Fault(f) /\ Fail(f)
    /\ UNCHANGED <<issuer, payload, tx, alone, staged>>

\* sendRawTransaction fails: of a batch of writes the first few were sent.
SendFails(f) ==
    /\ flow[f].phase = "sign"
    /\ Fault(f) /\ Fail(f)
    /\ \E k \in 0 .. Len(Batch(f)) - 1 :
          /\ k > 0 => flow[f].stage = "write"
          /\ Sent(f, {Batch(f)[i] : i \in 1 .. k})
    /\ UNCHANGED <<issuer, payload, staged>>

\* The transaction whose confirmation is awaited: of a batch of writes only
\* the last.
Awaited(f) ==
    Batch(f)[IF flow[f].kind = "sdk" THEN 1
             ELSE IF flow[f].stage = "write" THEN Writes ELSE flow[f].next]

AwaitedFate(f) == tx[f][Awaited(f)]

\* confirmTransaction rejects when the transaction expired (and polling for
\* another 30 s does not find it), when its first status query already sees
\* the on-chain error, and on any RPC error.
ConfirmFails(f) ==
    /\ flow[f].phase = "wait" /\ flow[f].stage # "finalize"
    /\ \/ AwaitedFate(f) \in {"gone", "err"} /\ UNCHANGED <<faults, faulty>>
       \/ Fault(f)
    /\ Fail(f)
    /\ UNCHANGED <<issuer, payload, tx, alone, staged>>

\* It resolves once the transaction landed, failed on chain or not: nobody
\* looks at the err in its result.
Confirmed(f) ==
    /\ flow[f].phase = "wait" /\ flow[f].stage # "finalize"
    /\ AwaitedFate(f) \in {"ok", "err"}

-----------------------------------------------------------------------------
(* runStepSubmit: register the issuer unless it exists, close a payload    *)
(* left by an earlier attempt, then init and resizes, writes, finalize.    *)

Quiet(f) == \A g \in Flows \ {f} : ~Alive(g) /\ InFlight(g) = {}

StartSubmit(f) ==
    /\ Goto(f, "register", "check")
    /\ alone' = [alone EXCEPT ![f] = Quiet(f)]
    /\ UNCHANGED <<issuer, payload, tx, faults, faulty, staged>>

EnsureIssuerRegistered(f) ==
    /\ At(f, "register", "check")
    /\ IF issuer THEN Goto(f, "close", "check") ELSE Goto(f, "register", "sign")
    /\ UNCHANGED <<issuer, payload, tx, faults, alone, faulty, staged>>

\* Mutated: a payload that is complete is taken for a good one.
KeepFinalized(f) ==
    /\ At(f, "close", "check")
    /\ IF payload # NoPayload /\ ~payload.finalized
       THEN Goto(f, "close", "sign")
       ELSE GotoInit(f)
    /\ UNCHANGED <<issuer, payload, tx, faults, alone, faulty, staged>>

\* Mutated: the payload is not looked for.
SkipCleanup(f) ==
    /\ At(f, "close", "check")
    /\ GotoInit(f)
    /\ UNCHANGED <<issuer, payload, tx, faults, alone, faulty, staged>>

CleanupStaleHookPayload(f) ==
    /\ At(f, "close", "check")
    /\ IF payload # NoPayload THEN Goto(f, "close", "sign") ELSE GotoInit(f)
    /\ UNCHANGED <<issuer, payload, tx, faults, alone, faulty, staged>>

\* The approval of the wallet and the sending that follows it: all writes at
\* once, of the other batches the first transaction.
SignAndSend(f) ==
    /\ flow[f].kind = "live" /\ flow[f].phase = "sign"
    /\ Sent(f, IF flow[f].stage = "write"
               THEN {Batch(f)[i] : i \in 1 .. Writes} ELSE {Batch(f)[1]})
    /\ flow' = [flow EXCEPT ![f].phase = "wait"]
    /\ UNCHANGED <<issuer, payload, faults, faulty, staged>>

NextStage(f) ==
    CASE flow[f].stage = "register" -> Goto(f, "close", "check")
      [] flow[f].stage = "close" -> GotoInit(f)
      [] flow[f].stage = "init" -> Goto(f, "write", "sign")
      [] flow[f].stage = "write" -> Goto(f, "finalize", "sign")

Proceed(f) ==
    /\ flow[f].kind = "live"
    /\ Confirmed(f)
    /\ IF flow[f].stage # "write" /\ flow[f].next < Len(Batch(f))
       THEN /\ flow' = [flow EXCEPT ![f].next = @ + 1]
            /\ Sent(f, {Batch(f)[flow[f].next + 1]})
       ELSE NextStage(f) /\ UNCHANGED <<tx, alone>>
    /\ UNCHANGED <<issuer, payload, faults, faulty, staged>>

\* Mutated: the err of the status is not looked at.
PollIgnoringErr(f) ==
    /\ flow[f].kind = "live" /\ At(f, "finalize", "wait")
    /\ tx[f][<<"finalize", 1>>] \in {"ok", "err", "gone"}
    /\ flow' = [flow EXCEPT ![f].phase =
                  IF tx[f][<<"finalize", 1>>] \in {"ok", "err"} THEN "done" ELSE "failed"]
    /\ UNCHANGED <<issuer, payload, tx, faults, alone, faulty, staged>>

\* Mutated: the loop does not look at the block height.
PollForever(f) ==
    /\ flow[f].kind = "live" /\ At(f, "finalize", "wait")
    /\ tx[f][<<"finalize", 1>>] \in {"ok", "err"}
    /\ flow' = [flow EXCEPT ![f].phase =
                  IF tx[f][<<"finalize", 1>>] = "ok" THEN "done" ELSE "failed"]
    /\ UNCHANGED <<issuer, payload, tx, faults, alone, faulty, staged>>

\* rebroadcastUntilLandedOrExpired: RPC errors are swallowed, so only the fate
\* of the transaction ends the loop.  Sending the same bytes again changes
\* nothing while the transaction is in flight.
PollFinalize(f) ==
    /\ flow[f].kind = "live" /\ At(f, "finalize", "wait")
    /\ tx[f][<<"finalize", 1>>] \in {"ok", "err", "gone"}
    /\ flow' = [flow EXCEPT ![f].phase =
                  IF tx[f][<<"finalize", 1>>] = "ok" THEN "done" ELSE "failed"]
    /\ UNCHANGED <<issuer, payload, tx, faults, alone, faulty, staged>>

-----------------------------------------------------------------------------
(* uploadProofChunked: no clean-up, one transaction at a time, resizes     *)
(* until the account has grown by the length of the proof.                 *)

StartUpload(f) ==
    /\ flow' = [flow EXCEPT ![f] =
          [NewFlow EXCEPT !.kind = "sdk", !.stage = "init", !.phase = "sign"]]
    /\ alone' = [alone EXCEPT ![f] = Quiet(f) /\ payload = NoPayload]
    /\ UNCHANGED <<issuer, payload, tx, faults, faulty, staged>>

\* signAndSend; the result of finalize is not waited for.
SdkSend(f) ==
    /\ flow[f].kind = "sdk" /\ flow[f].phase = "sign"
    /\ Sent(f, {Batch(f)[1]})
    /\ flow' = [flow EXCEPT ![f].phase =
                  IF flow[f].stage = "finalize" THEN "done" ELSE "wait"]
    /\ UNCHANGED <<issuer, payload, faults, faulty, staged>>

SdkConfirmed(f) ==
    /\ flow[f].kind = "sdk"
    /\ Confirmed(f)
    /\ flow' =
         CASE flow[f].stage = "init" -> [flow EXCEPT ![f].phase = "measure"]
           [] flow[f].stage = "resize" -> [flow EXCEPT ![f].phase = "check"]
           [] flow[f].stage = "write" /\ flow[f].next < Writes ->
                [flow EXCEPT ![f].phase = "sign", ![f].next = @ + 1]
           [] OTHER -> [flow EXCEPT ![f].stage = "finalize", ![f].phase = "sign",
                                    ![f].next = 1]
    /\ UNCHANGED <<issuer, payload, tx, faults, alone, faulty, staged>>

\* The size of the account after init is the baseline, and is read again after
\* every resize.
SdkMeasure(f) ==
    LET base == IF flow[f].phase = "measure" THEN payload.space ELSE flow[f].base IN
    /\ flow[f].kind = "sdk" /\ flow[f].phase \in {"measure", "check"}
    /\ IF payload = NoPayload
       THEN Fail(f)
       ELSE flow' = [flow EXCEPT ![f].base = base, ![f].phase = "sign",
               ![f].stage = IF payload.space < base + LEN THEN "resize" ELSE "write"]
    /\ UNCHANGED <<issuer, payload, tx, faults, alone, faulty, staged>>

-----------------------------------------------------------------------------
(* Steps of the flows that need no user, and steps of the network.         *)

ClientStep(f) ==
    \/ EnsureIssuerRegistered(f)
    \/ CleanupStaleHookPayload(f)
    \/ Proceed(f)
    \/ PollFinalize(f)
    \/ SdkConfirmed(f)
    \/ SdkMeasure(f)

ClientError(f) == Reject(f) \/ SendFails(f) \/ ConfirmFails(f)

WalletStep(f) == SignAndSend(f) \/ SdkSend(f)

NetworkStep(f) == \E n \in TxNames : Land(f, n) \/ Expire(f, n)

=============================================================================

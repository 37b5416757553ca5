-------------------------- MODULE ProveFlowProofs --------------------------
(***************************************************************************)
(* What staging a proof and the prove page guarantee for any number of     *)
(* attempts, any proof length, batch size and resize step, and any number  *)
(* of faults.                                                              *)
(*                                                                         *)
(* The argument is built in layers, each on top of the one before:         *)
(*   Typed    the types, and which phases a flow may be in at each stage;  *)
(*   Page     what the page shows is where the flow it started stands;     *)
(*   Ordered  which transactions a flow can have sent at each stage;       *)
(*   Settled  a finalize that executed completed a payload, and what the   *)
(*            page calls verified is a flow with such a finalize;          *)
(*   Own      a flow alone with the payload finds only its own chunks in   *)
(*            it from the stage of init on;                                *)
(*   Smooth   such a flow, as long as it meets no fault, finds the chain   *)
(*            in just the state that its next transaction needs.           *)
(***************************************************************************)
EXTENDS ProveFlow, FiniteSetTheorems, SequenceTheorems, NaturalsInduction,
        WellFoundedInduction, TLAPS

Kinds == {"none", "live", "demo", "sdk"}
EarlyStages == {"credential", "paths", "prove"}
StageNames == {"none", "demo", "register", "close", "init", "resize", "write", "finalize"}
                 \cup EarlyStages
PhaseNames == {"off", "call", "check", "sign", "wait", "measure", "done", "failed"}

FlowRecord == [kind : Kinds, stage : StageNames, phase : PhaseNames,
               next : Nat, base : Nat, fits : BOOLEAN]

\* Where the loops of a flow count to.
LastNext(kind, stage) ==
    IF kind = "live" /\ stage = "init" THEN Resizes
    ELSE IF kind = "sdk" /\ stage = "write" THEN Writes ELSE 1

\* The phases of a flow at each stage.
Phases(kind, stage) ==
    IF kind = "none" THEN IF stage = "none" THEN {"off"} ELSE {}
    ELSE IF kind = "demo" THEN IF stage = "demo" THEN {"call", "done", "failed"} ELSE {}
    ELSE IF kind = "live"
         THEN IF stage \in EarlyStages THEN {"call", "failed"}
              ELSE IF stage \in {"register", "close"} THEN {"check", "sign", "wait", "failed"}
              ELSE IF stage \in {"init", "write"} THEN {"sign", "wait", "failed"}
              ELSE IF stage = "finalize" THEN {"sign", "wait", "done", "failed"} ELSE {}
         ELSE IF stage = "init" THEN {"sign", "wait", "measure", "failed"}
              ELSE IF stage = "resize" THEN {"sign", "wait", "check", "failed"}
              ELSE IF stage = "write" THEN {"sign", "wait", "failed"}
              ELSE IF stage = "finalize" THEN {"sign", "done", "failed"} ELSE {}

FlowShape ==
    {a \in FlowRecord : /\ a.phase \in Phases(a.kind, a.stage)
                        /\ a.next \in 1 .. LastNext(a.kind, a.stage)
                        /\ a.kind = "live" /\ a.phase = "sign" => a.next = 1}

UiState == [steps : [STEPS -> StepStatus], currentStep : -1 .. 6,
            mode : {"live", "demo"}, txSignature : Flows \cup {0},
            missing : BOOLEAN]

TxState == [TxNames -> Fates]

FlowsTyped == flow \in [Flows -> FlowShape]

TxTyped == tx \in [Flows -> TxState] /\ alone \in [Flows -> BOOLEAN]

StateTyped ==
    /\ issuer \in BOOLEAN /\ payload \in Payload \cup {NoPayload}
    /\ TxTyped /\ FlowsTyped
    /\ faulty \in [Flows -> BOOLEAN]
    /\ staged \in [Flows -> Payload \cup {NoPayload}]
    /\ faults \in Nat

\* Only the flows of the page have an owner.
PageTyped ==
    /\ ui \in UiState
    /\ mount \in Nat \ {0} /\ owner \in [Flows -> Nat] /\ running \in BOOLEAN
    /\ \A f \in Flows :
          /\ owner[f] <= mount
          /\ owner[f] = 0 <=> flow[f].kind \in {"none", "sdk"}

Typed == StateTyped /\ PageTyped

-----------------------------------------------------------------------------
(* Page.                                                                   *)

\* k steps passed, step k has status st, the rest is idle.
Shown(k, st) ==
    [i \in STEPS |-> IF i < k THEN "success" ELSE IF i = k THEN st ELSE "idle"]

\* The step of the page that a flow is in.
StepOf(stage) ==
    IF stage = "credential" THEN 1 ELSE IF stage = "paths" THEN 2
    ELSE IF stage \in {"prove", "demo"} THEN 3 ELSE 4

Mine(f) == owner[f] = mount /\ Alive(f)

Page ==
    /\ \A f \in Flows :
          Mine(f) => /\ running
                     /\ ui.steps = Shown(StepOf(flow[f].stage), "running")
                     /\ ui.mode = flow[f].kind
    /\ \A f, g \in Flows : Mine(f) /\ Mine(g) => f = g
    /\ running => \E f \in Flows : Mine(f)
    /\ ~running => \E k \in 0 .. 6, st \in {"idle", "error"} : ui.steps = Shown(k, st)

-----------------------------------------------------------------------------
(* Ordered.                                                                *)

Finalize == <<"finalize", 1>>
Register == <<"register", 1>>
CloseTx == <<"close", 1>>

\* The position of a stage and of a transaction in the upload.
Rank(s) == CASE s = "register" -> 1 [] s = "close" -> 2
             [] s \in {"init", "resize"} -> 3 [] s = "write" -> 4
             [] s = "finalize" -> 5 [] OTHER -> 0

\* A flow has sent nothing of a stage it has not reached, and nothing of its
\* stage before it signed; the SDK client passes from stage 3 to 3.
OrderedFor(a, t) ==
    \A n \in TxNames : t[n] # "unsent" =>
       \/ Rank(n[1]) < Rank(a.stage)
       \/ Rank(n[1]) = Rank(a.stage) /\ a.phase \notin {"check", "sign"}
       \/ Rank(n[1]) = Rank(a.stage) /\ a.kind = "sdk" /\ a.stage \in {"resize", "write"}

Ordered == \A f \in Flows : OrderedFor(flow[f], tx[f])

-----------------------------------------------------------------------------
(* Settled.                                                                *)

CompletedFor(t, p) ==
    /\ p # NoPayload <=> t[Finalize] = "ok"
    /\ p # NoPayload => p.finalized /\ p.high_water_mark = LEN

Settled ==
    /\ \A f \in Flows : CompletedFor(tx[f], staged[f])
    /\ \A f \in Flows :
          flow[f].kind = "live" /\ flow[f].phase = "done" => tx[f][Finalize] = "ok"
    /\ SaysVerified =>
          /\ ui.txSignature \in Flows
          /\ flow[ui.txSignature].kind = "live" /\ flow[ui.txSignature].phase = "done"

-----------------------------------------------------------------------------
(* Own.                                                                    *)

\* The chunks below the high-water mark are those of f.
OwnChunks(f, p) == p # NoPayload => \A i \in 1 .. p.high_water_mark : p.data[i] = f

LateStages == {"init", "resize", "write", "finalize"}

WholeOwn(f, p) == p.data = [i \in 1 .. LEN |-> f] /\ p.claim = f

\* What holds of a flow that is alone.
OwnFor(f) ==
    /\ flow[f].kind \in {"live", "sdk"} /\ flow[f].stage \notin EarlyStages
    /\ staged[f] # NoPayload => WholeOwn(f, staged[f])
    /\ staged[f] = NoPayload =>
         /\ \A g \in Flows \ {f} : InFlight(g) = {}
         /\ flow[f].stage \in LateStages => OwnChunks(f, payload)
         /\ flow[f].stage = "close" /\ tx[f][CloseTx] \in {"ok", "err"}
               => payload = NoPayload

Own == \A f \in Flows : alone[f] => OwnFor(f)

-----------------------------------------------------------------------------
(* Smooth.                                                                 *)

\* The transaction of the init batch at position i.
InitTx(i) == IF i = 1 THEN <<"init", 1>> ELSE <<"resize", i>>

\* The account after k instructions grew it.
SpaceAfter(k) == IF k * RESIZE_STEP >= LEN THEN LEN ELSE k * RESIZE_STEP

\* The high-water mark after the first m writes.
Written(m) == IF m = 0 THEN 0 ELSE WriteTo(m)

Blank(p, k) ==
    /\ p # NoPayload /\ ~p.finalized
    /\ p.high_water_mark = 0 /\ p.space = SpaceAfter(k)

\* The batch of init, one transaction after the other.
InitReady(a, t, p) ==
    IF a.phase = "sign" THEN p = NoPayload
    ELSE /\ \A i \in 1 .. Resizes : /\ i > a.next => t[InitTx(i)] = "unsent"
                                    /\ i < a.next => t[InitTx(i)] = "ok"
         /\ t[InitTx(a.next)] = "ok" => Blank(p, a.next)
         /\ t[InitTx(a.next)] # "ok" =>
              IF a.next = 1 THEN p = NoPayload ELSE Blank(p, a.next - 1)

\* The batch of writes, all in flight at once.
WriteReady(t, p) ==
    /\ p # NoPayload /\ ~p.finalized /\ p.space = LEN
    /\ \E m \in 0 .. Writes :
          /\ p.high_water_mark = Written(m)
          /\ \A i \in 1 .. Writes : t[<<"write", i>>] = "ok" <=> i <= m

\* The state of the chain that a fault-free live flow finds.
Ready(a, t, iss, p) ==
    CASE a.stage = "register" ->
           /\ a.phase = "sign" \/ t[Register] = "flight" => ~iss
           /\ t[Register] = "ok" => iss
      [] a.stage = "close" ->
           /\ iss
           /\ a.phase = "sign" \/ t[CloseTx] = "flight" => p # NoPayload
      [] a.stage = "init" -> iss /\ InitReady(a, t, p)
      [] a.stage = "write" -> iss /\ WriteReady(t, p)
      [] a.stage = "finalize" ->
           iss /\ p # NoPayload /\ ~p.finalized /\ p.high_water_mark = LEN

\* Nothing failed or was lost, and only what the stage awaits is in flight.
Calm(a, t) ==
    /\ a.phase # "failed"
    /\ \A n \in TxNames :
          /\ t[n] \notin {"err", "gone"}
          /\ t[n] = "flight" => Rank(n[1]) = Rank(a.stage) /\ n # <<"resize", 1>>

SmoothFor(f) ==
    /\ Calm(flow[f], tx[f])
    /\ staged[f] = NoPayload => Ready(flow[f], tx[f], issuer, payload)

Smooth ==
    \A f \in Flows : flow[f].kind = "live" /\ alone[f] /\ ~faulty[f] => SmoothFor(f)

FlowInv == Typed /\ Page /\ Ordered /\ Settled /\ Own /\ Smooth
-----------------------------------------------------------------------------
(* Facts about the operators of the model.                                 *)

LEMMA CeilDivBounds ==
    ASSUME NEW a \in Nat \ {0}, NEW b \in Nat \ {0}
    PROVE  /\ CeilDiv(a, b) \in Nat \ {0}
           /\ a <= CeilDiv(a, b) * b
           /\ CeilDiv(a, b) * b < a + b
<1>. DEFINE x == a + b - 1
            q == x \div b
<1>1. q \in Int /\ x = q * b + (x % b) /\ x % b \in 0 .. b - 1
  OBVIOUS
<1>2. q * b \in Int
  BY <1>1
<1>3. q * b <= x /\ x < q * b + b
  BY <1>1, <1>2
<1>4. q >= 1
  <2>. SUFFICES ASSUME q <= 0 PROVE FALSE
    BY <1>1
  <2>1. q * b <= 0
    BY <1>1
  <2>. QED
    BY <2>1, <1>3, <1>2
<1>. QED
  BY <1>1, <1>2, <1>3, <1>4 DEF CeilDiv

\* The upload has at least one resize and one write; the resizes make room for
\* the whole proof and the writes do not go beyond it.
LEMMA Sizes ==
    /\ LEN \in Nat \ {0} /\ Resizes \in Nat \ {0} /\ Writes \in Nat \ {0}
    /\ LEN <= Resizes * RESIZE_STEP
    /\ (Writes - 1) * WRITES_PER_TX < LEN
<1>1. /\ LEN \in Nat \ {0} /\ RESIZE_STEP \in Nat \ {0} /\ WRITES_PER_TX \in Nat \ {0}
  BY UploadNumbers
<1>2. Resizes \in Nat \ {0} /\ LEN <= Resizes * RESIZE_STEP
  BY <1>1, CeilDivBounds DEF Resizes
<1>3. Writes \in Nat \ {0} /\ Writes * WRITES_PER_TX < LEN + WRITES_PER_TX
  BY <1>1, CeilDivBounds DEF Writes
<1>4. (Writes - 1) * WRITES_PER_TX = Writes * WRITES_PER_TX - WRITES_PER_TX
  BY <1>1, <1>3
<1>5. Writes * WRITES_PER_TX \in Int
  BY <1>1, <1>3
<1>. QED
  BY <1>1, <1>2, <1>3, <1>4, <1>5

\* Every write ends within the proof.
LEMMA WriteBounds ==
    ASSUME NEW i \in 1 .. Writes
    PROVE  WriteTo(i) \in 0 .. LEN /\ WriteFrom(i) \in Nat
<1>1. /\ WRITES_PER_TX \in Nat \ {0} /\ LEN \in Nat \ {0} /\ Writes \in Nat \ {0}
      /\ (Writes - 1) * WRITES_PER_TX < LEN
  BY Sizes, UploadNumbers
<1>2. WriteFrom(i) \in Nat
  BY <1>1 DEF WriteFrom
<1>3. ASSUME i # Writes PROVE i * WRITES_PER_TX \in 0 .. LEN
  <2>1. i <= Writes - 1
    BY <1>1, <1>3
  <2>2. i * WRITES_PER_TX <= (Writes - 1) * WRITES_PER_TX
    BY <2>1, <1>1
  <2>3. i * WRITES_PER_TX \in Nat /\ (Writes - 1) * WRITES_PER_TX \in Nat
    BY <1>1
  <2>. QED
    BY <1>1, <2>2, <2>3
<1>. QED
  BY <1>1, <1>2, <1>3 DEF WriteTo

LEMMA FlowsNumbered == Flows \subseteq Nat \ {0} /\ IsFiniteSet(Flows)
<1>1. IsFiniteSet(Flows) /\ Flows = 1 .. Cardinality(Flows)
  BY UploadNumbers
<1>2. Cardinality(Flows) \in Nat
  BY <1>1, FS_CardinalityType
<1>. QED
  BY <1>1, <1>2

\* A flow that has not started is found for the next attempt.
LEMMA NextFlowIsFree ==
    ASSUME Free # {}
    PROVE  NextFlow \in Flows /\ flow[NextFlow].kind = "none"
<1>. DEFINE Less == {p \in Nat \X Nat : p[1] < p[2]}
<1>1. Free \subseteq Flows /\ Free \subseteq Nat
  BY FlowsNumbered DEF Free
<1>2. IsWellFoundedOn(Less, Nat)
  BY NatLessThanWellFounded DEF OpToRel
<1>3. PICK f \in Free : \A g \in Free : ~(<<g, f>> \in Less)
  BY <1>1, <1>2, WFMin
<1>4. \A g \in Free : f <= g
  <2>. TAKE g \in Free
  <2>1. f \in Nat /\ g \in Nat /\ <<g, f>> \notin Less
    BY <1>1, <1>3
  <2>2. ~(g < f)
    BY <2>1
  <2>. QED
    BY <2>1, <2>2
<1>5. NextFlow \in Free
  BY <1>4 DEF NextFlow
<1>. QED
  BY <1>1, <1>5 DEF Free

TxKinds == {"register", "close", "init", "finalize", "resize", "write"}

LEMMA TxNameFacts ==
    ASSUME NEW n \in TxNames
    PROVE  /\ n[1] \in TxKinds /\ n[2] \in Nat \ {0} /\ n = <<n[1], n[2]>>
           /\ n[1] \in {"register", "close", "init", "finalize"} => n = <<n[1], 1>>
           /\ n[1] = "resize" => n[2] \in 1 .. Resizes
           /\ n[1] = "write" => n[2] \in 1 .. Writes
BY Sizes DEF TxNames, TxKinds

LEMMA TxNamesHas ==
    /\ Finalize \in TxNames /\ Register \in TxNames /\ CloseTx \in TxNames
    /\ <<"init", 1>> \in TxNames
    /\ \A i \in 1 .. Resizes : <<"resize", i>> \in TxNames
    /\ \A i \in 1 .. Writes : <<"write", i>> \in TxNames
BY DEF TxNames, Finalize, Register, CloseTx
\* Batch, for a live flow and for the SDK client.
LEMMA BatchFacts ==
    ASSUME NEW f \in Flows
    PROVE  /\ flow[f].kind = "sdk" =>
                Batch(f) = << <<flow[f].stage, flow[f].next>> >> /\ Len(Batch(f)) = 1
           /\ flow[f].kind # "sdk" /\ flow[f].stage \notin {"init", "write"} =>
                Batch(f) = << <<flow[f].stage, 1>> >> /\ Len(Batch(f)) = 1
           /\ flow[f].kind # "sdk" /\ flow[f].stage = "init" =>
                Len(Batch(f)) = Resizes /\ \A i \in 1 .. Resizes : Batch(f)[i] = InitTx(i)
           /\ flow[f].kind # "sdk" /\ flow[f].stage = "write" =>
                Len(Batch(f)) = Writes /\ \A i \in 1 .. Writes : Batch(f)[i] = <<"write", i>>
<1>1. CASE flow[f].kind = "sdk"
  BY <1>1 DEF Batch
<1>2. CASE flow[f].kind # "sdk" /\ flow[f].stage \notin {"init", "write"}
  BY <1>2 DEF Batch
<1>3. CASE flow[f].kind # "sdk" /\ flow[f].stage = "init"
  <2>1. Batch(f) = [i \in 1 .. Resizes |-> InitTx(i)]
    BY <1>3 DEF Batch, InitTx
  <2>2. Batch(f) \in Seq(TxNames)
    <3>1. \A i \in 1 .. Resizes : InitTx(i) \in TxNames
      BY TxNamesHas DEF InitTx
    <3>. QED
      BY <2>1, <3>1, Sizes, IsASeq
  <2>3. Len(Batch(f)) = Resizes
    BY <2>1, <2>2, Sizes, LenProperties
  <2>. QED
    BY <1>3, <2>1, <2>3
<1>4. CASE flow[f].kind # "sdk" /\ flow[f].stage = "write"
  <2>1. Batch(f) = [i \in 1 .. Writes |-> <<"write", i>>]
    BY <1>4 DEF Batch
  <2>2. Batch(f) \in Seq(TxNames)
    BY <2>1, TxNamesHas, Sizes, IsASeq
  <2>3. Len(Batch(f)) = Writes
    BY <2>1, <2>2, Sizes, LenProperties
  <2>. QED
    BY <1>4, <2>1, <2>3
<1>. QED
  BY <1>1, <1>2, <1>3, <1>4

\* The transaction whose fate a live flow waits for.
LEMMA AwaitedFacts ==
    ASSUME NEW f \in Flows, flow[f] \in FlowShape
    PROVE  /\ flow[f].kind = "live" /\ flow[f].stage = "write" =>
                Awaited(f) = <<"write", Writes>>
           /\ flow[f].kind = "live" /\ flow[f].stage = "init" =>
                Awaited(f) = InitTx(flow[f].next)
           /\ flow[f].kind = "live" /\ flow[f].stage \notin {"init", "write"} =>
                Awaited(f) = <<flow[f].stage, 1>>
<1>1. flow[f].next \in 1 .. LastNext(flow[f].kind, flow[f].stage)
  BY DEF FlowShape
<1>2. CASE flow[f].kind = "live" /\ flow[f].stage = "write"
  BY <1>2, BatchFacts, Sizes DEF Awaited
<1>3. CASE flow[f].kind = "live" /\ flow[f].stage = "init"
  BY <1>1, <1>3, BatchFacts DEF Awaited, LastNext
<1>4. CASE flow[f].kind = "live" /\ flow[f].stage \notin {"init", "write"}
  <2>1. flow[f].next = 1
    BY <1>1, <1>4 DEF LastNext
  <2>. QED
    BY <1>4, <2>1, BatchFacts DEF Awaited
<1>. QED
  BY <1>2, <1>3, <1>4

-----------------------------------------------------------------------------
(* Steps of a flow.                                                        *)

\* The flow f, and no other, moves to a stage, a phase and a count.
Moved(f, st, ph, nx) ==
    /\ flow' \in [Flows -> FlowShape]
    /\ \A g \in Flows \ {f} : flow'[g] = flow[g]
    /\ flow'[f].kind = flow[f].kind
    /\ flow'[f].stage = st /\ flow'[f].phase = ph /\ flow'[f].next = nx

LEMMA ShapeFacts ==
    ASSUME NEW a \in FlowShape
    PROVE  /\ a \in FlowRecord /\ a.phase \in Phases(a.kind, a.stage)
           /\ a.kind \in Kinds /\ a.stage \in StageNames /\ a.phase \in PhaseNames
           /\ a.next \in 1 .. LastNext(a.kind, a.stage) /\ a.base \in Nat
           /\ a.kind = "live" /\ a.phase = "sign" => a.next = 1
BY DEF FlowShape, FlowRecord

LEMMA MoveIntro ==
    ASSUME FlowsTyped, NEW f \in Flows, NEW q \in FlowRecord,
           flow' = [flow EXCEPT ![f] = q],
           q.kind = flow[f].kind,
           q.phase \in Phases(q.kind, q.stage),
           q.next \in 1 .. LastNext(q.kind, q.stage),
           q.kind = "live" /\ q.phase = "sign" => q.next = 1
    PROVE  Moved(f, q.stage, q.phase, q.next)
<1>1. q \in FlowShape
  BY DEF FlowShape
<1>. QED
  BY <1>1 DEF Moved, FlowsTyped

LEMMA LastNextPositive == \A k, s : LastNext(k, s) \in Nat \ {0}
BY Sizes DEF LastNext

LEMMA GotoMoves ==
    ASSUME FlowsTyped, NEW f \in Flows, NEW st \in StageNames, NEW ph \in PhaseNames,
           ph \in Phases(flow[f].kind, st), Goto(f, st, ph)
    PROVE  Moved(f, st, ph, 1)
<1>. DEFINE q == [flow[f] EXCEPT !.stage = st, !.phase = ph, !.next = 1]
<1>1. flow[f] \in FlowRecord /\ flow \in [Flows -> FlowShape]
  BY ShapeFacts DEF FlowsTyped
<1>2. flow' = [flow EXCEPT ![f] = q]
  BY <1>1 DEF Goto
<1>3. /\ q \in FlowRecord /\ q.kind = flow[f].kind
      /\ q.stage = st /\ q.phase = ph /\ q.next = 1
  BY <1>1 DEF FlowRecord
<1>. HIDE DEF q
<1>4. 1 \in 1 .. LastNext(q.kind, q.stage)
  BY LastNextPositive
<1>. QED
  BY <1>2, <1>3, <1>4, MoveIntro

LEMMA FailMoves ==
    ASSUME FlowsTyped, NEW f \in Flows, "failed" \in Phases(flow[f].kind, flow[f].stage),
           Fail(f)
    PROVE  Moved(f, flow[f].stage, "failed", 1)
<1>. DEFINE q == [flow[f] EXCEPT !.phase = "failed", !.next = 1, !.base = 0]
<1>1. flow[f] \in FlowRecord /\ flow \in [Flows -> FlowShape]
  BY ShapeFacts DEF FlowsTyped
<1>2. flow' = [flow EXCEPT ![f] = q]
  BY <1>1 DEF Fail
<1>3. /\ q \in FlowRecord /\ q.kind = flow[f].kind
      /\ q.stage = flow[f].stage /\ q.phase = "failed" /\ q.next = 1
  BY <1>1 DEF FlowRecord, PhaseNames
<1>. HIDE DEF q
<1>4. 1 \in 1 .. LastNext(q.kind, q.stage)
  BY LastNextPositive
<1>. QED
  BY <1>2, <1>3, <1>4, MoveIntro

LEMMA PhaseMoves ==
    ASSUME FlowsTyped, NEW f \in Flows, NEW ph \in PhaseNames,
           ph \in Phases(flow[f].kind, flow[f].stage),
           ph # "sign",
           flow' = [flow EXCEPT ![f].phase = ph]
    PROVE  Moved(f, flow[f].stage, ph, flow[f].next)
<1>. DEFINE q == [flow[f] EXCEPT !.phase = ph]
<1>1. flow[f] \in FlowRecord /\ flow \in [Flows -> FlowShape] /\ flow[f] \in FlowShape
  BY ShapeFacts DEF FlowsTyped
<1>2. flow' = [flow EXCEPT ![f] = q]
  BY <1>1
<1>3. /\ q \in FlowRecord /\ q.kind = flow[f].kind
      /\ q.stage = flow[f].stage /\ q.phase = ph /\ q.next = flow[f].next
  BY <1>1 DEF FlowRecord
<1>. HIDE DEF q
<1>4. q.next \in 1 .. LastNext(q.kind, q.stage)
  BY <1>1, <1>3, ShapeFacts
<1>. QED
  BY <1>2, <1>3, <1>4, MoveIntro

-----------------------------------------------------------------------------
(* What each step of the submit stage does, in terms of Moved.             *)

SubmitStages == {"register", "close", "init", "write", "finalize"}

LEMMA EnsureFacts ==
    ASSUME FlowsTyped, NEW f \in Flows, EnsureIssuerRegistered(f)
    PROVE  /\ flow[f].kind = "live" /\ flow[f].stage = "register" /\ flow[f].phase = "check"
           /\ issuer => Moved(f, "close", "check", 1)
           /\ ~issuer => Moved(f, "register", "sign", 1)
           /\ UNCHANGED <<issuer, payload, tx, faults, alone, faulty, staged>>
<1>1. flow[f] \in FlowShape /\ flow[f].stage = "register" /\ flow[f].phase = "check"
  BY DEF FlowsTyped, EnsureIssuerRegistered, At
<1>2. flow[f].kind = "live"
  BY <1>1, ShapeFacts DEF Phases, Kinds, EarlyStages
<1>3. ASSUME issuer PROVE Moved(f, "close", "check", 1)
  BY <1>2, <1>3, GotoMoves DEF EnsureIssuerRegistered, Phases, EarlyStages, StageNames, PhaseNames
<1>4. ASSUME ~issuer PROVE Moved(f, "register", "sign", 1)
  BY <1>2, <1>4, GotoMoves DEF EnsureIssuerRegistered, Phases, EarlyStages, StageNames, PhaseNames
<1>. QED
  BY <1>1, <1>2, <1>3, <1>4 DEF EnsureIssuerRegistered

LEMMA CleanupFacts ==
    ASSUME FlowsTyped, NEW f \in Flows, CleanupStaleHookPayload(f)
    PROVE  /\ flow[f].kind = "live" /\ flow[f].stage = "close" /\ flow[f].phase = "check"
           /\ payload # NoPayload => Moved(f, "close", "sign", 1)
           /\ payload = NoPayload => Moved(f, "init", "sign", 1)
           /\ UNCHANGED <<issuer, payload, tx, faults, alone, faulty, staged>>
<1>1. flow[f] \in FlowShape /\ flow[f].stage = "close" /\ flow[f].phase = "check"
  BY DEF FlowsTyped, CleanupStaleHookPayload, At
<1>2. flow[f].kind = "live"
  BY <1>1, ShapeFacts DEF Phases, Kinds, EarlyStages
<1>3. ASSUME payload # NoPayload PROVE Moved(f, "close", "sign", 1)
  BY <1>2, <1>3, GotoMoves DEF CleanupStaleHookPayload, Phases, EarlyStages, StageNames, PhaseNames
<1>4. ASSUME payload = NoPayload PROVE Moved(f, "init", "sign", 1)
  BY <1>2, <1>4, GotoMoves
     DEF CleanupStaleHookPayload, GotoInit, Phases, EarlyStages, StageNames, PhaseNames
<1>. QED
  BY <1>1, <1>2, <1>3, <1>4 DEF CleanupStaleHookPayload

\* A live flow that waits, and not for finalize.
LEMMA WaitingStages ==
    ASSUME FlowsTyped, NEW f \in Flows, flow[f].kind = "live", flow[f].phase = "wait",
           flow[f].stage # "finalize"
    PROVE  flow[f].stage \in {"register", "close", "init", "write"}
<1>1. flow[f] \in FlowShape
  BY DEF FlowsTyped
<1>. QED
  BY <1>1, ShapeFacts DEF Phases, Kinds, StageNames, EarlyStages

LEMMA ProceedFacts ==
    ASSUME FlowsTyped, NEW f \in Flows, Proceed(f)
    PROVE  /\ flow[f].kind = "live" /\ flow[f].phase = "wait"
           /\ flow[f].stage \in {"register", "close", "init", "write"}
           /\ tx[f][Awaited(f)] \in {"ok", "err"}
           /\ UNCHANGED <<issuer, payload, faults, faulty, staged>>
           /\ \/ /\ flow[f].stage = "init" /\ flow[f].next < Resizes
                 /\ flow[f].next + 1 \in 1 .. Resizes
                 /\ Moved(f, "init", "wait", flow[f].next + 1)
                 /\ Sent(f, {<<"resize", flow[f].next + 1>>})
              \/ /\ UNCHANGED <<tx, alone>>
                 /\ \/ flow[f].stage = "register" /\ Moved(f, "close", "check", 1)
                    \/ flow[f].stage = "close" /\ Moved(f, "init", "sign", 1)
                    \/ /\ flow[f].stage = "init" /\ flow[f].next = Resizes
                       /\ Moved(f, "write", "sign", 1)
                    \/ flow[f].stage = "write" /\ Moved(f, "finalize", "sign", 1)
<1>1. /\ flow[f] \in FlowShape /\ flow[f].kind = "live" /\ flow[f].phase = "wait"
      /\ flow[f].stage # "finalize" /\ tx[f][Awaited(f)] \in {"ok", "err"}
      /\ UNCHANGED <<issuer, payload, faults, faulty, staged>>
  BY DEF FlowsTyped, Proceed, Confirmed, AwaitedFate
<1>2. flow[f].stage \in {"register", "close", "init", "write"}
  BY <1>1, WaitingStages
<1>3. CASE flow[f].stage # "write" /\ flow[f].next < Len(Batch(f))
  <2>. DEFINE q == [flow[f] EXCEPT !.next = flow[f].next + 1]
  <2>1. flow[f].next \in 1 .. LastNext("live", flow[f].stage) /\ flow[f] \in FlowRecord
    BY <1>1, ShapeFacts
  <2>2. flow[f].stage = "init" /\ Len(Batch(f)) = Resizes
    <3>1. CASE flow[f].stage # "init"
      <4>1. Len(Batch(f)) = 1 /\ flow[f].next = 1
        BY <1>1, <1>2, <1>3, <2>1, <3>1, BatchFacts DEF LastNext
      <4>. QED
        BY <1>3, <4>1
    <3>2. CASE flow[f].stage = "init"
      BY <1>1, <3>2, BatchFacts
    <3>. QED
      BY <3>1, <3>2
  <2>3. flow[f].next + 1 \in 1 .. Resizes /\ flow[f].next < Resizes
    BY <1>3, <2>1, <2>2, Sizes DEF LastNext
  <2>4. flow' = [flow EXCEPT ![f] = q] /\ Sent(f, {Batch(f)[flow[f].next + 1]})
    BY <1>3 DEF Proceed, FlowsTyped
  <2>5. Batch(f)[flow[f].next + 1] = <<"resize", flow[f].next + 1>>
    <3>1. Batch(f)[flow[f].next + 1] = InitTx(flow[f].next + 1)
      BY <1>1, <2>2, <2>3, BatchFacts
    <3>2. flow[f].next + 1 # 1
      BY <2>1, Sizes, <2>2 DEF LastNext
    <3>. QED
      BY <3>1, <3>2 DEF InitTx
  <2>6. /\ q \in FlowRecord /\ q.kind = "live" /\ q.stage = "init" /\ q.phase = "wait"
        /\ q.next = flow[f].next + 1
    BY <1>1, <2>1, <2>2, <2>3, Sizes DEF FlowRecord
  <2>. HIDE DEF q
  <2>7. q.phase \in Phases(q.kind, q.stage) /\ q.next \in 1 .. LastNext(q.kind, q.stage)
    BY <2>3, <2>6 DEF Phases, LastNext, EarlyStages
  <2>8. Moved(f, q.stage, q.phase, q.next)
    BY <1>1, <2>4, <2>6, <2>7, MoveIntro
  <2>. QED
    BY <1>1, <1>2, <2>2, <2>3, <2>4, <2>5, <2>6, <2>8
<1>4. CASE ~(flow[f].stage # "write" /\ flow[f].next < Len(Batch(f)))
  <2>1. NextStage(f) /\ UNCHANGED <<tx, alone>>
    BY <1>4 DEF Proceed
  <2>2. ASSUME flow[f].stage = "init" PROVE flow[f].next = Resizes
    <3>1. Len(Batch(f)) = Resizes /\ flow[f].next \in 1 .. Resizes
      BY <1>1, <2>2, BatchFacts, ShapeFacts DEF LastNext
    <3>. QED
      BY <1>4, <2>2, <3>1, Sizes
  <2>3. CASE flow[f].stage = "register"
    <3>1. Goto(f, "close", "check")
      BY <2>1, <2>3 DEF NextStage
    <3>2. Moved(f, "close", "check", 1)
      BY <1>1, <3>1, GotoMoves DEF Phases, EarlyStages, StageNames, PhaseNames
    <3>. QED
      BY <1>1, <2>1, <2>3, <3>2
  <2>4. CASE flow[f].stage = "close"
    <3>1. Goto(f, "init", "sign")
      BY <2>1, <2>4 DEF NextStage, GotoInit
    <3>2. Moved(f, "init", "sign", 1)
      BY <1>1, <3>1, GotoMoves DEF Phases, EarlyStages, StageNames, PhaseNames
    <3>. QED
      BY <1>1, <2>1, <2>4, <3>2
  <2>5. CASE flow[f].stage = "init"
    <3>1. Goto(f, "write", "sign")
      BY <2>1, <2>5 DEF NextStage
    <3>2. Moved(f, "write", "sign", 1)
      BY <1>1, <3>1, GotoMoves DEF Phases, EarlyStages, StageNames, PhaseNames
    <3>. QED
      BY <1>1, <2>1, <2>2, <2>5, <3>2
  <2>6. CASE flow[f].stage = "write"
    <3>1. Goto(f, "finalize", "sign")
      BY <2>1, <2>6 DEF NextStage
    <3>2. Moved(f, "finalize", "sign", 1)
      BY <1>1, <3>1, GotoMoves DEF Phases, EarlyStages, StageNames, PhaseNames
    <3>. QED
      BY <1>1, <2>1, <2>6, <3>2
  <2>. QED
    BY <1>2, <2>3, <2>4, <2>5, <2>6
<1>. QED
  BY <1>3, <1>4

LEMMA PollFacts ==
    ASSUME FlowsTyped, NEW f \in Flows, PollFinalize(f)
    PROVE  /\ flow[f].kind = "live" /\ flow[f].stage = "finalize" /\ flow[f].phase = "wait"
           /\ tx[f][Finalize] \in {"ok", "err", "gone"}
           /\ tx[f][Finalize] = "ok" => Moved(f, "finalize", "done", flow[f].next)
           /\ tx[f][Finalize] # "ok" => Moved(f, "finalize", "failed", flow[f].next)
           /\ UNCHANGED <<issuer, payload, tx, faults, alone, faulty, staged>>
<1>1. /\ flow[f].kind = "live" /\ flow[f].stage = "finalize" /\ flow[f].phase = "wait"
      /\ tx[f][Finalize] \in {"ok", "err", "gone"}
      /\ UNCHANGED <<issuer, payload, tx, faults, alone, faulty, staged>>
      /\ flow' = [flow EXCEPT ![f].phase = IF tx[f][Finalize] = "ok" THEN "done" ELSE "failed"]
  BY DEF PollFinalize, At, Finalize
<1>2. {"done", "failed"} \subseteq Phases(flow[f].kind, flow[f].stage) \cap PhaseNames
  BY <1>1 DEF Phases, EarlyStages, PhaseNames
<1>3. CASE tx[f][Finalize] = "ok"
  <2>1. flow' = [flow EXCEPT ![f].phase = "done"]
    BY <1>1, <1>3
  <2>2. Moved(f, flow[f].stage, "done", flow[f].next)
    BY <1>2, <2>1, PhaseMoves
  <2>. QED
    BY <1>1, <1>3, <2>2
<1>4. CASE tx[f][Finalize] # "ok"
  <2>1. flow' = [flow EXCEPT ![f].phase = "failed"]
    BY <1>1, <1>4
  <2>2. Moved(f, flow[f].stage, "failed", flow[f].next)
    BY <1>2, <2>1, PhaseMoves
  <2>. QED
    BY <1>1, <1>4, <2>2
<1>. QED
  BY <1>3, <1>4

LEMMA SdkConfirmedFacts ==
    ASSUME FlowsTyped, NEW f \in Flows, SdkConfirmed(f)
    PROVE  /\ flow[f].kind = "sdk" /\ flow[f].phase = "wait"
           /\ UNCHANGED <<issuer, payload, tx, faults, alone, faulty, staged>>
           /\ \/ flow[f].stage = "init" /\ Moved(f, "init", "measure", flow[f].next)
              \/ flow[f].stage = "resize" /\ Moved(f, "resize", "check", flow[f].next)
              \/ flow[f].stage = "write" /\ Moved(f, "write", "sign", flow[f].next + 1)
              \/ flow[f].stage = "write" /\ Moved(f, "finalize", "sign", 1)
<1>1. /\ flow[f] \in FlowShape /\ flow[f].kind = "sdk" /\ flow[f].phase = "wait"
      /\ flow[f].stage # "finalize"
      /\ UNCHANGED <<issuer, payload, tx, faults, alone, faulty, staged>>
  BY DEF FlowsTyped, SdkConfirmed, Confirmed
<1>2. flow[f].stage \in {"init", "resize", "write"}
  BY <1>1, ShapeFacts DEF Phases, Kinds, StageNames, EarlyStages
<1>3. CASE flow[f].stage = "init"
  <2>1. flow' = [flow EXCEPT ![f].phase = "measure"]
    BY <1>3 DEF SdkConfirmed
  <2>2. Moved(f, flow[f].stage, "measure", flow[f].next)
    BY <1>1, <1>3, <2>1, PhaseMoves DEF Phases, PhaseNames
  <2>. QED
    BY <1>1, <1>3, <2>2
<1>4. CASE flow[f].stage = "resize"
  <2>1. flow' = [flow EXCEPT ![f].phase = "check"]
    BY <1>4 DEF SdkConfirmed
  <2>2. Moved(f, flow[f].stage, "check", flow[f].next)
    BY <1>1, <1>4, <2>1, PhaseMoves DEF Phases, PhaseNames
  <2>. QED
    BY <1>1, <1>4, <2>2
<1>5. CASE flow[f].stage = "write" /\ flow[f].next < Writes
  <2>. DEFINE q == [flow[f] EXCEPT !.phase = "sign", !.next = flow[f].next + 1]
  <2>1. flow' = [flow EXCEPT ![f] = q]
    BY <1>5 DEF SdkConfirmed, FlowsTyped
  <2>2. flow[f] \in FlowRecord /\ flow[f].next \in 1 .. Writes /\ flow[f].next + 1 \in Nat
    BY <1>1, <1>5, ShapeFacts, Sizes DEF LastNext
  <2>3. /\ q \in FlowRecord /\ q.kind = "sdk" /\ q.stage = "write" /\ q.phase = "sign"
        /\ q.next = flow[f].next + 1
    BY <1>1, <1>5, <2>2 DEF FlowRecord, PhaseNames
  <2>. HIDE DEF q
  <2>4. q.phase \in Phases(q.kind, q.stage) /\ q.next \in 1 .. LastNext(q.kind, q.stage)
    BY <1>5, <2>2, <2>3, Sizes DEF Phases, LastNext
  <2>5. Moved(f, q.stage, q.phase, q.next)
    BY <1>1, <2>1, <2>3, <2>4, MoveIntro
  <2>. QED
    BY <1>1, <1>5, <2>3, <2>5
<1>6. CASE flow[f].stage = "write" /\ ~(flow[f].next < Writes)
  <2>1. Goto(f, "finalize", "sign")
    BY <1>6 DEF SdkConfirmed, Goto
  <2>2. Moved(f, "finalize", "sign", 1)
    BY <1>1, <2>1, GotoMoves DEF Phases, StageNames, PhaseNames
  <2>. QED
    BY <1>1, <1>6, <2>2
<1>. QED
  BY <1>2, <1>3, <1>4, <1>5, <1>6

LEMMA SdkMeasureFacts ==
    ASSUME FlowsTyped, payload \in Payload \cup {NoPayload}, NEW f \in Flows, SdkMeasure(f)
    PROVE  /\ flow[f].kind = "sdk" /\ flow[f].phase \in {"measure", "check"}
           /\ flow[f].stage \in {"init", "resize"}
           /\ UNCHANGED <<issuer, payload, tx, faults, alone, faulty, staged>>
           /\ \/ Moved(f, flow[f].stage, "failed", 1)
              \/ Moved(f, "resize", "sign", 1)
              \/ Moved(f, "write", "sign", 1)
<1>1. /\ flow[f] \in FlowShape /\ flow[f].kind = "sdk" /\ flow[f].phase \in {"measure", "check"}
      /\ UNCHANGED <<issuer, payload, tx, faults, alone, faulty, staged>>
  BY DEF FlowsTyped, SdkMeasure
<1>2. flow[f].stage \in {"init", "resize"}
  BY <1>1, ShapeFacts DEF Phases, Kinds, StageNames, EarlyStages
<1>3. flow[f] \in FlowRecord /\ flow[f].next = 1 /\ flow[f].base \in Nat
  BY <1>1, <1>2, ShapeFacts DEF LastNext
<1>4. CASE payload = NoPayload
  <2>1. Moved(f, flow[f].stage, "failed", 1)
    BY <1>1, <1>2, <1>4, FailMoves DEF SdkMeasure, Phases
  <2>. QED
    BY <1>1, <1>2, <2>1
<1>5. CASE payload # NoPayload
  <2>. DEFINE base == IF flow[f].phase = "measure" THEN payload.space ELSE flow[f].base
              st == IF payload.space < base + LEN THEN "resize" ELSE "write"
              q == [flow[f] EXCEPT !.base = base, !.phase = "sign", !.stage = st]
  <2>1. base \in Nat /\ st \in {"resize", "write"}
    BY <1>3, <1>5, Sizes DEF Payload
  <2>2. flow' = [flow EXCEPT ![f] = q]
    BY <1>5 DEF SdkMeasure, FlowsTyped
  <2>. HIDE DEF base, st
  <2>3. /\ q \in FlowRecord /\ q.kind = "sdk" /\ q.stage = st /\ q.phase = "sign"
        /\ q.next = 1
    BY <1>1, <1>3, <2>1 DEF FlowRecord, PhaseNames, StageNames
  <2>. HIDE DEF q
  <2>4. q.phase \in Phases(q.kind, q.stage) /\ q.next \in 1 .. LastNext(q.kind, q.stage)
    BY <2>1, <2>3, LastNextPositive DEF Phases
  <2>5. Moved(f, q.stage, q.phase, q.next)
    BY <1>1, <2>2, <2>3, <2>4, MoveIntro
  <2>. QED
    BY <1>1, <1>2, <2>1, <2>3, <2>5
<1>. QED
  BY <1>4, <1>5

\* The stage of a flow that waits for a signature.
LEMMA SigningStages ==
    ASSUME FlowsTyped, NEW f \in Flows, flow[f].phase = "sign"
    PROVE  /\ flow[f].kind \in {"live", "sdk"}
           /\ flow[f].kind = "live" => flow[f].stage \in SubmitStages /\ flow[f].next = 1
           /\ flow[f].kind = "sdk" => flow[f].stage \in LateStages
           /\ "failed" \in Phases(flow[f].kind, flow[f].stage)
<1>1. flow[f] \in FlowShape
  BY DEF FlowsTyped
<1>. QED
  BY <1>1, ShapeFacts DEF Phases, Kinds, StageNames, EarlyStages, SubmitStages, LateStages

LEMMA RejectFacts ==
    ASSUME FlowsTyped, NEW f \in Flows, Reject(f)
    PROVE  /\ flow[f].phase = "sign" /\ Moved(f, flow[f].stage, "failed", 1) /\ Fault(f)
           /\ UNCHANGED <<issuer, payload, tx, alone, staged>>
BY SigningStages, FailMoves DEF Reject

LEMMA SendFailsFacts ==
    ASSUME FlowsTyped, NEW f \in Flows, SendFails(f)
    PROVE  /\ flow[f].phase = "sign" /\ Moved(f, flow[f].stage, "failed", 1) /\ Fault(f)
           /\ \E names \in SUBSET TxNames :
                 /\ Sent(f, names)
                 /\ \A n \in names : n[1] = "write" /\ flow[f].stage = "write"
           /\ UNCHANGED <<issuer, payload, staged>>
<1>1. /\ flow[f].phase = "sign" /\ Fault(f) /\ Fail(f)
      /\ UNCHANGED <<issuer, payload, staged>>
  BY DEF SendFails
<1>2. Moved(f, flow[f].stage, "failed", 1)
  BY <1>1, SigningStages, FailMoves
<1>3. PICK k \in 0 .. Len(Batch(f)) - 1 :
         /\ k > 0 => flow[f].stage = "write"
         /\ Sent(f, {Batch(f)[i] : i \in 1 .. k})
  BY DEF SendFails
<1>. DEFINE names == {Batch(f)[i] : i \in 1 .. k}
<1>4. names \subseteq TxNames /\ \A n \in names : n[1] = "write" /\ flow[f].stage = "write"
  <2>1. CASE k = 0
    BY <2>1
  <2>2. CASE k # 0 /\ flow[f].kind = "sdk"
    <3>1. Len(Batch(f)) = 1
      BY <2>2, BatchFacts
    <3>. QED
      BY <2>2, <3>1
  <2>3. CASE k # 0 /\ flow[f].kind # "sdk"
    <3>1. k > 0
      BY <1>3, <2>3
    <3>2. flow[f].stage = "write"
      BY <1>3, <3>1
    <3>3. Len(Batch(f)) = Writes /\ \A i \in 1 .. Writes : Batch(f)[i] = <<"write", i>>
      BY <2>3, <3>2, BatchFacts
    <3>4. \A i \in 1 .. k : i \in 1 .. Writes
      BY <3>1, <3>3, Sizes
    <3>5. \A i \in 1 .. k : Batch(f)[i] = <<"write", i>> /\ <<"write", i>> \in TxNames
      BY <3>3, <3>4, TxNamesHas
    <3>6. ASSUME NEW n \in names PROVE n \in TxNames /\ n[1] = "write"
      <4>1. PICK i \in 1 .. k : n = Batch(f)[i]
        OBVIOUS
      <4>2. n = <<"write", i>> /\ <<"write", i>> \in TxNames
        BY <4>1, <3>5
      <4>. QED
        BY <4>2
    <3>. QED
      BY <3>2, <3>6
  <2>. QED
    BY <2>1, <2>2, <2>3
<1>. QED
  BY <1>1, <1>2, <1>3, <1>4

LEMMA ConfirmFailsFacts ==
    ASSUME FlowsTyped, NEW f \in Flows, ConfirmFails(f)
    PROVE  /\ flow[f].phase = "wait" /\ flow[f].stage # "finalize"
           /\ flow[f].kind \in {"live", "sdk"}
           /\ flow[f].kind = "live" => flow[f].stage \in SubmitStages
           /\ Moved(f, flow[f].stage, "failed", 1)
           /\ \/ tx[f][Awaited(f)] \in {"gone", "err"} /\ UNCHANGED <<faults, faulty>>
              \/ Fault(f)
           /\ UNCHANGED <<issuer, payload, tx, alone, staged>>
<1>1. /\ flow[f] \in FlowShape /\ flow[f].phase = "wait" /\ flow[f].stage # "finalize"
  BY DEF FlowsTyped, ConfirmFails
<1>2. /\ flow[f].kind \in {"live", "sdk"}
      /\ flow[f].kind = "live" => flow[f].stage \in SubmitStages
      /\ "failed" \in Phases(flow[f].kind, flow[f].stage)
  BY <1>1, ShapeFacts DEF Phases, Kinds, StageNames, EarlyStages, SubmitStages
<1>3. Moved(f, flow[f].stage, "failed", 1)
  BY <1>2, FailMoves DEF ConfirmFails
<1>. QED
  BY <1>1, <1>2, <1>3 DEF ConfirmFails, AwaitedFate

\* What the wallet's approval sends.
SignedNames(a) ==
    IF a.stage = "write" THEN {<<"write", i>> : i \in 1 .. Writes} ELSE {<<a.stage, 1>>}

LEMMA SignFacts ==
    ASSUME FlowsTyped, NEW f \in Flows, SignAndSend(f)
    PROVE  /\ flow[f].kind = "live" /\ flow[f].phase = "sign"
           /\ flow[f].stage \in SubmitStages /\ flow[f].next = 1
           /\ SignedNames(flow[f]) \subseteq TxNames /\ Sent(f, SignedNames(flow[f]))
           /\ Moved(f, flow[f].stage, "wait", 1)
           /\ UNCHANGED <<issuer, payload, faults, faulty, staged>>
<1>1. /\ flow[f].kind = "live" /\ flow[f].phase = "sign"
      /\ flow' = [flow EXCEPT ![f].phase = "wait"]
      /\ UNCHANGED <<issuer, payload, faults, faulty, staged>>
  BY DEF SignAndSend
<1>2. flow[f].stage \in SubmitStages /\ flow[f].next = 1
  BY <1>1, SigningStages
<1>3. Moved(f, flow[f].stage, "wait", 1)
  <2>1. "wait" \in Phases(flow[f].kind, flow[f].stage)
    BY <1>1, <1>2 DEF Phases, SubmitStages, EarlyStages
  <2>. QED
    BY <1>1, <1>2, <2>1, PhaseMoves DEF PhaseNames
<1>4. /\ Sent(f, SignedNames(flow[f])) /\ SignedNames(flow[f]) \subseteq TxNames
  <2>1. CASE flow[f].stage = "write"
    <3>1. {Batch(f)[i] : i \in 1 .. Writes} = {<<"write", i>> : i \in 1 .. Writes}
      BY <1>1, <2>1, BatchFacts
    <3>. QED
      BY <2>1, <3>1, TxNamesHas DEF SignAndSend, SignedNames
  <2>2. CASE flow[f].stage # "write"
    <3>1. Batch(f)[1] = <<flow[f].stage, 1>>
      <4>1. CASE flow[f].stage = "init"
        <5>1. Batch(f)[1] = InitTx(1)
          BY <1>1, <4>1, BatchFacts, Sizes
        <5>. QED
          BY <4>1, <5>1 DEF InitTx
      <4>2. CASE flow[f].stage # "init"
        BY <1>1, <2>2, <4>2, BatchFacts
      <4>. QED
        BY <4>1, <4>2
    <3>2. <<flow[f].stage, 1>> \in TxNames
      BY <1>2, <2>2, TxNamesHas DEF SubmitStages, Finalize, Register, CloseTx
    <3>. QED
      BY <2>2, <3>1, <3>2 DEF SignAndSend, SignedNames
  <2>. QED
    BY <2>1, <2>2
<1>. QED
  BY <1>1, <1>2, <1>3, <1>4

LEMMA SdkSendFacts ==
    ASSUME FlowsTyped, NEW f \in Flows, SdkSend(f)
    PROVE  /\ flow[f].kind = "sdk" /\ flow[f].phase = "sign"
           /\ flow[f].stage \in LateStages
           /\ <<flow[f].stage, flow[f].next>> \in TxNames
           /\ Sent(f, {<<flow[f].stage, flow[f].next>>})
           /\ \/ flow[f].stage = "finalize" /\ Moved(f, "finalize", "done", flow[f].next)
              \/ flow[f].stage # "finalize" /\ Moved(f, flow[f].stage, "wait", flow[f].next)
           /\ UNCHANGED <<issuer, payload, faults, faulty, staged>>
<1>1. /\ flow[f].kind = "sdk" /\ flow[f].phase = "sign" /\ flow[f] \in FlowShape
      /\ UNCHANGED <<issuer, payload, faults, faulty, staged>>
  BY DEF SdkSend, FlowsTyped
<1>2. flow[f].stage \in LateStages
  BY <1>1, SigningStages
<1>3. Sent(f, {<<flow[f].stage, flow[f].next>>})
  <2>1. Batch(f) = << <<flow[f].stage, flow[f].next>> >>
    BY <1>1, BatchFacts
  <2>2. Batch(f)[1] = <<flow[f].stage, flow[f].next>>
    BY <2>1
  <2>3. Sent(f, {Batch(f)[1]})
    BY DEF SdkSend
  <2>. QED
    BY <2>2, <2>3
<1>4. <<flow[f].stage, flow[f].next>> \in TxNames
  <2>1. flow[f].next \in 1 .. LastNext("sdk", flow[f].stage)
    BY <1>1, ShapeFacts
  <2>2. CASE flow[f].stage = "write"
    BY <2>1, <2>2, TxNamesHas DEF LastNext
  <2>3. CASE flow[f].stage # "write"
    <3>1. flow[f].next = 1 /\ 1 \in 1 .. Resizes
      BY <2>1, <2>3, Sizes DEF LastNext
    <3>. QED
      BY <1>2, <2>3, <3>1, TxNamesHas DEF LateStages, Finalize
  <2>. QED
    BY <2>2, <2>3
<1>5. CASE flow[f].stage = "finalize"
  <2>1. flow' = [flow EXCEPT ![f].phase = "done"]
    BY <1>5 DEF SdkSend
  <2>2. Moved(f, flow[f].stage, "done", flow[f].next)
    BY <1>1, <1>5, <2>1, PhaseMoves DEF Phases, PhaseNames
  <2>. QED
    BY <1>1, <1>2, <1>3, <1>4, <1>5, <2>2
<1>6. CASE flow[f].stage # "finalize"
  <2>1. flow' = [flow EXCEPT ![f].phase = "wait"]
    BY <1>6 DEF SdkSend
  <2>2. Moved(f, flow[f].stage, "wait", flow[f].next)
    BY <1>1, <1>2, <1>6, <2>1, PhaseMoves DEF Phases, PhaseNames, LateStages
  <2>. QED
    BY <1>1, <1>2, <1>3, <1>4, <1>6, <2>2
<1>. QED
  BY <1>5, <1>6

-----------------------------------------------------------------------------
(* What reaches the network and what lands.                                *)

LEMMA SentFacts ==
    ASSUME TxTyped, NEW f \in Flows, NEW names \in SUBSET TxNames, Sent(f, names)
    PROVE  /\ tx' \in [Flows -> TxState] /\ alone' \in [Flows -> BOOLEAN]
           /\ \A g \in Flows \ {f} : tx'[g] = tx[g]
           /\ \A n \in TxNames : tx'[f][n] = IF n \in names THEN "flight" ELSE tx[f][n]
           /\ alone'[f] = alone[f]
           /\ \A g \in Flows \ {f} : alone'[g] => alone[g] /\ staged[g] # NoPayload
<1>. DEFINE t == [n \in TxNames |-> IF n \in names THEN "flight" ELSE tx[f][n]]
<1>1. tx' = [tx EXCEPT ![f] = t]
  BY DEF Sent, TxTyped
<1>2. tx[f] \in TxState
  BY DEF TxTyped
<1>3. t \in TxState
  BY <1>2 DEF TxState, Fates
<1>4. \A n \in TxNames : t[n] = IF n \in names THEN "flight" ELSE tx[f][n]
  OBVIOUS
<1>. HIDE DEF t
<1>5. tx' \in [Flows -> TxState] /\ tx'[f] = t /\ \A g \in Flows \ {f} : tx'[g] = tx[g]
  BY <1>1, <1>3 DEF TxTyped
<1>6. alone' = [g \in Flows |-> alone[g] /\ (g = f \/ staged[g] # NoPayload)]
  BY DEF Sent
<1>7. alone' \in [Flows -> BOOLEAN]
  BY <1>6
<1>8. alone'[f] = (alone[f] /\ (f = f \/ staged[f] # NoPayload)) /\ alone[f] \in BOOLEAN
  BY <1>6 DEF TxTyped
<1>9. alone'[f] = alone[f]
  BY <1>8
<1>10. \A g \in Flows \ {f} : alone'[g] => alone[g] /\ staged[g] # NoPayload
  BY <1>6
<1>. QED
  BY <1>4, <1>5, <1>7, <1>9, <1>10

LEMMA PayloadsAreSome == \A p \in Payload : p # NoPayload
BY NoPayloadIsNone

\* What an instruction does to the account, of the type of the account.
LEMMA EffectFacts ==
    ASSUME FlowsTyped, NEW f \in Flows, NEW n \in TxNames,
           payload \in Payload \cup {NoPayload}, Succeeds(n)
    PROVE  /\ Effect(f, n) \in Payload \cup {NoPayload}
           /\ n[1] = "register" => Effect(f, n) = payload /\ ~issuer
           /\ n[1] = "close" => Effect(f, n) = NoPayload /\ payload # NoPayload
           /\ n[1] = "init" =>
                /\ issuer /\ payload = NoPayload
                /\ Effect(f, n) \in Payload /\ Effect(f, n).high_water_mark = 0
                /\ ~Effect(f, n).finalized
                /\ flow[f].kind # "sdk" => Effect(f, n).space = Grow(0)
           /\ n[1] \in {"resize", "write", "finalize"} =>
                /\ payload \in Payload /\ ~payload.finalized
                /\ Effect(f, n) \in Payload
           /\ n[1] = "resize" =>
                /\ Effect(f, n).data = payload.data /\ ~Effect(f, n).finalized
                /\ Effect(f, n).high_water_mark = payload.high_water_mark
                /\ Effect(f, n).space = Grow(payload.space)
           /\ n[1] = "write" =>
                /\ payload.high_water_mark = WriteFrom(n[2]) /\ ~Effect(f, n).finalized
                /\ Effect(f, n).high_water_mark = WriteTo(n[2])
                /\ Effect(f, n).space = payload.space
                /\ \A i \in 1 .. LEN :
                      Effect(f, n).data[i] =
                         IF i \in WriteFrom(n[2]) + 1 .. WriteTo(n[2]) THEN f
                         ELSE payload.data[i]
           /\ n[1] = "finalize" =>
                /\ payload.high_water_mark = LEN
                /\ Effect(f, n).high_water_mark = LEN /\ Effect(f, n).finalized
                /\ Effect(f, n).data = payload.data /\ Effect(f, n).claim = f
<1>1. n[1] \in TxKinds /\ LEN \in Nat \ {0} /\ RESIZE_STEP \in Nat \ {0}
  BY TxNameFacts, Sizes, UploadNumbers
<1>2. CASE n[1] = "register"
  BY <1>2 DEF Effect, Succeeds
<1>3. CASE n[1] = "close"
  BY <1>3 DEF Effect, Succeeds
<1>4. CASE n[1] = "init"
  <2>1. Effect(f, n) = NewPayload(f) /\ issuer /\ payload = NoPayload
    BY <1>4 DEF Effect, Succeeds
  <2>2. Grow(0) \in 0 .. LEN
    BY <1>1 DEF Grow
  <2>3. /\ NewPayload(f) \in Payload /\ NewPayload(f).high_water_mark = 0
        /\ NewPayload(f).finalized = FALSE
        /\ flow[f].kind # "sdk" => NewPayload(f).space = Grow(0)
    BY <1>1, <2>2 DEF NewPayload, Payload
  <2>. QED
    BY <1>4, <2>1, <2>3
<1>5. CASE n[1] \in {"resize", "write", "finalize"}
  <2>1. payload \in Payload /\ ~payload.finalized
    BY <1>5 DEF Succeeds
  <2>2. CASE n[1] = "resize"
    <3>1. Effect(f, n) = [payload EXCEPT !.space = Grow(payload.space)]
      BY <2>2 DEF Effect
    <3>2. Grow(payload.space) \in 0 .. LEN
      BY <1>1, <2>1 DEF Grow, Payload
    <3>3. Effect(f, n) \in Payload
      BY <2>1, <3>1, <3>2 DEF Payload
    <3>4. /\ Effect(f, n).data = payload.data /\ Effect(f, n).finalized = payload.finalized
          /\ Effect(f, n).high_water_mark = payload.high_water_mark
          /\ Effect(f, n).space = Grow(payload.space)
      BY <2>1, <3>1 DEF Payload
    <3>. QED
      BY <2>1, <2>2, <3>3, <3>4
  <2>3. CASE n[1] = "write"
    <3>. DEFINE d == [i \in 1 .. LEN |->
                        IF i \in WriteFrom(n[2]) + 1 .. WriteTo(n[2]) THEN f
                        ELSE payload.data[i]]
    <3>1. Effect(f, n) = [payload EXCEPT !.data = d, !.high_water_mark = WriteTo(n[2])]
      BY <2>1, <2>3 DEF Effect, Payload
    <3>2. WriteTo(n[2]) \in 0 .. LEN
      BY <2>3, TxNameFacts, WriteBounds
    <3>3. payload.data \in [1 .. LEN -> Flows \cup {0}]
      BY <2>1 DEF Payload
    <3>4. d \in [1 .. LEN -> Flows \cup {0}]
      BY <3>3
    <3>5. \A i \in 1 .. LEN :
             d[i] = IF i \in WriteFrom(n[2]) + 1 .. WriteTo(n[2]) THEN f ELSE payload.data[i]
      OBVIOUS
    <3>. HIDE DEF d
    <3>6. Effect(f, n) \in Payload
      BY <2>1, <3>1, <3>2, <3>4 DEF Payload
    <3>7. /\ Effect(f, n).data = d /\ Effect(f, n).finalized = payload.finalized
          /\ Effect(f, n).high_water_mark = WriteTo(n[2])
          /\ Effect(f, n).space = payload.space
      BY <2>1, <3>1 DEF Payload
    <3>8. payload.high_water_mark = WriteFrom(n[2])
      BY <2>3 DEF Succeeds
    <3>. QED
      BY <2>1, <2>3, <3>5, <3>6, <3>7, <3>8
  <2>4. CASE n[1] = "finalize"
    <3>1. Effect(f, n) = [payload EXCEPT !.finalized = TRUE, !.claim = f]
      BY <2>4 DEF Effect
    <3>2. Effect(f, n) \in Payload
      BY <2>1, <3>1 DEF Payload
    <3>3. /\ Effect(f, n).data = payload.data /\ Effect(f, n).finalized = TRUE
          /\ Effect(f, n).high_water_mark = payload.high_water_mark
          /\ Effect(f, n).claim = f
      BY <2>1, <3>1 DEF Payload
    <3>4. payload.high_water_mark = LEN
      BY <2>4 DEF Succeeds
    <3>. QED
      BY <2>1, <2>4, <3>2, <3>3, <3>4
  <2>. QED
    BY <1>5, <2>2, <2>3, <2>4
<1>. QED
  BY <1>1, <1>2, <1>3, <1>4, <1>5 DEF TxKinds

LEMMA LandFacts ==
    ASSUME StateTyped, NEW f \in Flows, NEW n \in TxNames, Land(f, n)
    PROVE  /\ tx[f][n] = "flight"
           /\ tx' \in [Flows -> TxState]
           /\ tx'[f][n] = IF Succeeds(n) THEN "ok" ELSE "err"
           /\ \A m \in TxNames \ {n} : tx'[f][m] = tx[f][m]
           /\ \A g \in Flows \ {f} : tx'[g] = tx[g]
           /\ payload' = IF Succeeds(n) THEN Effect(f, n) ELSE payload
           /\ payload' \in Payload \cup {NoPayload}
           /\ issuer' = (issuer \/ n[1] = "register") /\ issuer' \in BOOLEAN
           /\ staged' \in [Flows -> Payload \cup {NoPayload}]
           /\ staged'[f] = IF Succeeds(n) /\ n[1] = "finalize" THEN Effect(f, n) ELSE staged[f]
           /\ \A g \in Flows \ {f} : staged'[g] = staged[g]
           /\ faulty' \in [Flows -> BOOLEAN]
           /\ \A g \in Flows : ~faulty'[g] => ~faulty[g]
           /\ ~faulty'[f] => ~Overtakes(f, n)
           /\ UNCHANGED <<flow, faults, alone>>
<1>1. tx[f][n] = "flight" /\ UNCHANGED <<flow, faults, alone>>
  BY DEF Land, InFlight
<1>. DEFINE t == [tx[f] EXCEPT ![n] = IF Succeeds(n) THEN "ok" ELSE "err"]
<1>2. tx \in [Flows -> TxState] /\ tx[f] \in TxState
  BY DEF StateTyped, TxTyped
<1>3. tx' = [tx EXCEPT ![f] = t]
  BY <1>2 DEF Land
<1>4. /\ t \in TxState /\ t[n] = (IF Succeeds(n) THEN "ok" ELSE "err")
      /\ \A m \in TxNames \ {n} : t[m] = tx[f][m]
  BY <1>2 DEF TxState, Fates
<1>. HIDE DEF t
<1>5. tx' \in [Flows -> TxState] /\ tx'[f] = t /\ \A g \in Flows \ {f} : tx'[g] = tx[g]
  BY <1>2, <1>3, <1>4
<1>6. payload' = IF Succeeds(n) THEN Effect(f, n) ELSE payload
  BY DEF Land
<1>7. Succeeds(n) => Effect(f, n) \in Payload \cup {NoPayload}
  BY EffectFacts DEF StateTyped
<1>8. payload' \in Payload \cup {NoPayload}
  BY <1>6, <1>7 DEF StateTyped
<1>9. issuer' = (issuer \/ n[1] = "register") /\ issuer' \in BOOLEAN
  BY DEF Land
<1>10. staged' = IF Succeeds(n) /\ n[1] = "finalize"
                 THEN [staged EXCEPT ![f] = Effect(f, n)] ELSE staged
  BY DEF Land
<1>11. /\ staged' \in [Flows -> Payload \cup {NoPayload}]
       /\ staged'[f] = IF Succeeds(n) /\ n[1] = "finalize" THEN Effect(f, n) ELSE staged[f]
       /\ \A g \in Flows \ {f} : staged'[g] = staged[g]
  BY <1>7, <1>10 DEF StateTyped
<1>12. faulty' = [faulty EXCEPT ![f] = faulty[f] \/ Overtakes(f, n)]
       /\ faulty \in [Flows -> BOOLEAN]
  BY DEF Land, StateTyped
<1>13. faulty' \in [Flows -> BOOLEAN]
  BY <1>12
<1>14. \A g \in Flows : ~faulty'[g] => ~faulty[g]
  BY <1>12
<1>15. ~faulty'[f] => ~Overtakes(f, n)
  BY <1>12
<1>. QED
  BY <1>1, <1>4, <1>5, <1>6, <1>8, <1>9, <1>11, <1>13, <1>14, <1>15

LEMMA ExpireFacts ==
    ASSUME StateTyped, NEW f \in Flows, NEW n \in TxNames, Expire(f, n)
    PROVE  /\ tx[f][n] = "flight"
           /\ tx' \in [Flows -> TxState]
           /\ tx'[f][n] = "gone"
           /\ \A m \in TxNames \ {n} : tx'[f][m] = tx[f][m]
           /\ \A g \in Flows \ {f} : tx'[g] = tx[g]
           /\ faulty' \in [Flows -> BOOLEAN] /\ faulty'[f]
           /\ \A g \in Flows \ {f} : faulty'[g] = faulty[g]
           /\ faults' \in Nat
           /\ UNCHANGED <<issuer, payload, flow, alone, staged>>
<1>1. tx[f][n] = "flight" /\ UNCHANGED <<issuer, payload, flow, alone, staged>>
  BY DEF Expire, InFlight
<1>. DEFINE t == [tx[f] EXCEPT ![n] = "gone"]
<1>2. tx \in [Flows -> TxState] /\ tx[f] \in TxState
  BY DEF StateTyped, TxTyped
<1>3. tx' = [tx EXCEPT ![f] = t]
  BY <1>2 DEF Expire
<1>4. /\ t \in TxState /\ t[n] = "gone" /\ \A m \in TxNames \ {n} : t[m] = tx[f][m]
  BY <1>2 DEF TxState, Fates
<1>. HIDE DEF t
<1>5. tx' \in [Flows -> TxState] /\ tx'[f] = t /\ \A g \in Flows \ {f} : tx'[g] = tx[g]
  BY <1>2, <1>3, <1>4
<1>6. /\ faulty' \in [Flows -> BOOLEAN] /\ faulty'[f]
      /\ \A g \in Flows \ {f} : faulty'[g] = faulty[g]
  BY DEF Expire, StateTyped
<1>7. faults' \in Nat
  BY DEF Expire, StateTyped
<1>. QED
  BY <1>1, <1>4, <1>5, <1>6, <1>7

LEMMA FaultFacts ==
    ASSUME StateTyped, NEW f \in Flows, Fault(f)
    PROVE  /\ faulty' \in [Flows -> BOOLEAN] /\ faulty'[f]
           /\ \A g \in Flows \ {f} : faulty'[g] = faulty[g]
           /\ faults' \in Nat
BY DEF Fault, StateTyped

-----------------------------------------------------------------------------
(* What the reducer does to a page that shows k steps passed.              *)

LEMMA ShownTyped ==
    ASSUME NEW k \in 0 .. 6, NEW st \in StepStatus
    PROVE  Shown(k, st) \in [STEPS -> StepStatus]
BY DEF Shown, StepStatus

LEMMA StepRunningShows ==
    ASSUME NEW s \in UiState, NEW i \in STEPS, s.steps = Shown(i, "idle")
    PROVE  /\ StepRunning(s, i) \in UiState
           /\ StepRunning(s, i).steps = Shown(i, "running")
           /\ StepRunning(s, i).mode = s.mode
           /\ StepRunning(s, i).txSignature = s.txSignature
<1>1. s.steps \in [STEPS -> StepStatus]
  BY DEF UiState
<1>. DEFINE st == [s.steps EXCEPT ![i] = "running"]
<1>2. StepRunning(s, i) = [s EXCEPT !.steps = st, !.currentStep = i]
  BY DEF StepRunning, UiState
<1>3. st = Shown(i, "running") /\ st \in [STEPS -> StepStatus]
  <2>1. \A j \in STEPS : st[j] = Shown(i, "running")[j]
    BY <1>1 DEF Shown, STEPS
  <2>2. st \in [STEPS -> StepStatus]
    BY <1>1 DEF StepStatus
  <2>. QED
    BY <2>1, <2>2 DEF Shown
<1>. HIDE DEF st
<1>4. i \in -1 .. 6
  BY DEF STEPS
<1>. QED
  BY <1>2, <1>3, <1>4 DEF UiState

LEMMA StepSuccessShows ==
    ASSUME NEW s \in UiState, NEW i \in STEPS, s.steps = Shown(i, "running")
    PROVE  /\ StepSuccess(s, i) \in UiState
           /\ StepSuccess(s, i).steps = Shown(i + 1, "idle")
           /\ StepSuccess(s, i).mode = s.mode
           /\ StepSuccess(s, i).txSignature = s.txSignature
<1>1. s.steps \in [STEPS -> StepStatus]
  BY DEF UiState
<1>. DEFINE st == [s.steps EXCEPT ![i] = "success"]
<1>2. StepSuccess(s, i) = [s EXCEPT !.steps = st, !.currentStep = i + 1]
  BY DEF StepSuccess, UiState
<1>3. st = Shown(i + 1, "idle") /\ st \in [STEPS -> StepStatus]
  <2>1. \A j \in STEPS : st[j] = Shown(i + 1, "idle")[j]
    <3>. TAKE j \in STEPS
    <3>1. CASE j = i
      BY <1>1, <3>1 DEF Shown, STEPS
    <3>2. CASE j # i
      BY <1>1, <3>2 DEF Shown, STEPS
    <3>. QED
      BY <3>1, <3>2
  <2>2. st \in [STEPS -> StepStatus]
    BY <1>1 DEF StepStatus
  <2>. QED
    BY <2>1, <2>2 DEF Shown
<1>. HIDE DEF st
<1>4. i + 1 \in -1 .. 6
  BY DEF STEPS
<1>. QED
  BY <1>2, <1>3, <1>4 DEF UiState

LEMMA StepErrorShows ==
    ASSUME NEW s \in UiState, NEW i \in STEPS,
           s.steps \in {Shown(i, "running"), Shown(i, "idle")}
    PROVE  /\ StepError(s, i) \in UiState
           /\ StepError(s, i).steps = Shown(i, "error")
           /\ StepError(s, i).mode = s.mode
<1>1. s.steps \in [STEPS -> StepStatus]
  BY DEF UiState
<1>. DEFINE st == [s.steps EXCEPT ![i] = "error"]
<1>2. StepError(s, i) = [s EXCEPT !.steps = st]
  BY DEF StepError, UiState
<1>3. st = Shown(i, "error") /\ st \in [STEPS -> StepStatus]
  <2>1. \A j \in STEPS : st[j] = Shown(i, "error")[j]
    BY <1>1 DEF Shown, STEPS
  <2>2. st \in [STEPS -> StepStatus]
    BY <1>1 DEF StepStatus
  <2>. QED
    BY <2>1, <2>2 DEF Shown
<1>. HIDE DEF st
<1>. QED
  BY <1>2, <1>3 DEF UiState

LEMMA PassShows ==
    ASSUME NEW s \in UiState, NEW i \in 0 .. 4, s.steps = Shown(i, "running")
    PROVE  /\ Pass(s, i) \in UiState
           /\ Pass(s, i).steps = Shown(i + 1, "running")
           /\ Pass(s, i).mode = s.mode
           /\ Pass(s, i).txSignature = s.txSignature
<1>1. i \in STEPS /\ i + 1 \in STEPS
  BY DEF STEPS
<1>. QED
  BY <1>1, StepSuccessShows, StepRunningShows DEF Pass

LEMMA InitialShows ==
    InitialState \in UiState /\ InitialState.steps = Shown(0, "idle") /\ InitialState.mode = "live"
BY DEF InitialState, UiState, Shown, StepStatus, STEPS

LEMMA StartedShows ==
    ASSUME NEW mode \in {"live", "demo"}
    PROVE  /\ Started(mode) \in UiState /\ Started(mode).steps = Shown(0, "running")
           /\ Started(mode).mode = mode
<1>. DEFINE s == StartFlow(ui, mode)
<1>1. s \in UiState /\ s.steps = Shown(0, "idle") /\ s.mode = mode
  <2>1. s = [InitialState EXCEPT !.currentStep = 0, !.mode = mode] /\ 0 \in -1 .. 6
    BY DEF StartFlow
  <2>. HIDE DEF s
  <2>2. s \in UiState
    BY <2>1, InitialShows DEF UiState
  <2>. QED
    BY <2>1, <2>2, InitialShows DEF UiState
<1>2. 0 \in STEPS
  BY DEF STEPS
<1>. QED
  BY <1>1, <1>2, StepRunningShows DEF Started

\* Two pages that show the same have passed as many steps.
LEMMA ShownFacts ==
    /\ \A k \in 0 .. 5 : Shown(k, "running")[k] = "running"
    /\ \A k \in 0 .. 5 : k \in STEPS
    /\ \A k \in 0 .. 4 : Shown(k, "running")[5] = "idle"
    /\ \A k \in 0 .. 4, i \in STEPS : Shown(k, "running")[i] # "error"
    /\ \A k \in 0 .. 6, st \in {"idle", "error"}, i \in STEPS : Shown(k, st)[i] # "running"
    /\ \A k \in 0 .. 6, st \in StepStatus, i, j \in STEPS :
          i < j /\ Shown(k, st)[j] # "idle" => Shown(k, st)[i] = "success"
BY DEF Shown, STEPS

-----------------------------------------------------------------------------
(* The steps of a flow on the page.                                        *)

Ended == {"off", "done", "failed"}

\* A step of a flow that moves and dispatches s, or ends and clears runningRef.
LEMMA FlowOnPage ==
    ASSUME FlowsTyped, PageTyped, Page, NEW f \in Flows, Alive(f),
           NEW st, NEW ph, NEW nx, NEW s, Moved(f, st, ph, nx),
           ui' = (IF owner[f] = mount THEN s ELSE ui),
           owner[f] = mount =>
              /\ s \in UiState /\ s.mode = ui.mode
              /\ ph \notin Ended => s.steps = Shown(StepOf(st), "running")
              /\ ph \in Ended =>
                   \E k \in 0 .. 6, v \in {"idle", "error"} : s.steps = Shown(k, v),
           running' = (running /\ (ph \notin Ended \/ owner[f] # mount)),
           UNCHANGED <<mount, owner>>
    PROVE  PageTyped' /\ Page'
<1>1. /\ flow' \in [Flows -> FlowShape] /\ \A g \in Flows \ {f} : flow'[g] = flow[g]
      /\ flow'[f].kind = flow[f].kind /\ flow'[f].stage = st /\ flow'[f].phase = ph
  BY DEF Moved
<1>2. PageTyped'
  <2>1. ui' \in UiState /\ running' \in BOOLEAN
    BY DEF PageTyped
  <2>. QED
    BY <1>1, <2>1 DEF PageTyped
<1>3. \A g \in Flows \ {f} : Mine(g)' <=> Mine(g)
  BY <1>1 DEF Mine, Alive
<1>4. Mine(f)' <=> owner[f] = mount /\ ph \notin Ended
  BY <1>1 DEF Mine, Alive, Ended
<1>5. Mine(f) <=> owner[f] = mount
  BY DEF Mine
<1>6. CASE owner[f] = mount
  <2>1. running /\ ui' = s /\ ui.mode = flow[f].kind /\ \A g \in Flows : Mine(g) => g = f
    BY <1>5, <1>6 DEF Page
  <2>2. \A g \in Flows : Mine(g)' => g = f
    BY <1>3, <2>1
  <2>3. CASE ph \notin Ended
    <3>1. Mine(f)' /\ running' /\ ui'.steps = Shown(StepOf(st), "running")
      BY <1>4, <1>6, <2>1, <2>3
    <3>2. \A g \in Flows : Mine(g)' => /\ running'
                                       /\ ui'.steps = Shown(StepOf(flow'[g].stage), "running")
                                       /\ ui'.mode = flow'[g].kind
      BY <1>1, <1>6, <2>1, <2>2, <3>1
    <3>3. Page'
      BY <2>2, <3>1, <3>2 DEF Page
    <3>. QED
      BY <1>2, <3>3
  <2>4. CASE ph \in Ended
    <3>1. ~running' /\ \A g \in Flows : ~Mine(g)'
      BY <1>4, <1>6, <2>2, <2>4
    <3>2. \E k \in 0 .. 6, v \in {"idle", "error"} : ui'.steps = Shown(k, v)
      BY <1>6, <2>1, <2>4
    <3>3. Page'
      BY <3>1, <3>2 DEF Page
    <3>. QED
      BY <1>2, <3>3
  <2>. QED
    BY <2>3, <2>4
<1>7. CASE owner[f] # mount
  <2>1. ui' = ui /\ running' = running /\ \A g \in Flows : Mine(g)' <=> Mine(g)
    BY <1>3, <1>4, <1>5, <1>7 DEF PageTyped
  <2>2. \A g \in Flows : Mine(g) => flow'[g] = flow[g]
    BY <1>1, <1>7 DEF Mine
  <2>3. Page'
    BY <2>1, <2>2 DEF Page
  <2>. QED
    BY <1>2, <2>3
<1>. QED
  BY <1>6, <1>7

\* A step that touches neither the flows nor the page.
LEMMA PageUntouched ==
    ASSUME PageTyped, Page, UNCHANGED <<flow, ui, mount, owner, running>>
    PROVE  PageTyped' /\ Page'
BY DEF PageTyped, Page, Mine, Alive

\* The flow f, which had not started, starts.
Began(f, kind, st, ph) ==
    /\ flow' \in [Flows -> FlowShape]
    /\ \A g \in Flows \ {f} : flow'[g] = flow[g]
    /\ flow[f].kind = "none" /\ flow[f].stage = "none" /\ flow[f].phase = "off"
    /\ flow'[f].kind = kind /\ flow'[f].stage = st /\ flow'[f].phase = ph
    /\ flow'[f].next = 1

LEMMA BeginFacts ==
    ASSUME FlowsTyped, NEW f \in Flows, flow[f].kind = "none",
           NEW kind \in Kinds, NEW st \in StageNames, NEW ph \in PhaseNames,
           ph \in Phases(kind, st),
           flow' = [flow EXCEPT ![f] = [NewFlow EXCEPT !.kind = kind, !.stage = st, !.phase = ph]]
    PROVE  Began(f, kind, st, ph)
<1>. DEFINE q == [NewFlow EXCEPT !.kind = kind, !.stage = st, !.phase = ph]
<1>1. /\ q \in FlowRecord /\ q.kind = kind /\ q.stage = st /\ q.phase = ph /\ q.next = 1
  BY DEF NewFlow, FlowRecord
<1>2. flow' = [flow EXCEPT ![f] = q]
  OBVIOUS
<1>. HIDE DEF q
<1>3. q \in FlowShape
  BY <1>1, LastNextPositive DEF FlowShape
<1>4. flow[f].stage = "none" /\ flow[f].phase = "off"
  <2>1. flow[f] \in FlowShape
    BY DEF FlowsTyped
  <2>. QED
    BY <2>1, ShapeFacts DEF Phases
<1>. QED
  BY <1>1, <1>2, <1>3, <1>4 DEF Began, FlowsTyped

\* Nobody of this page is alive: the page may show what it likes.
LEMMA PageAtRest ==
    ASSUME FlowsTyped, PageTyped, Page, ~running, UNCHANGED <<flow, mount, owner, running>>,
           ui' \in UiState,
           \E k \in 0 .. 6, v \in {"idle", "error"} : ui'.steps = Shown(k, v)
    PROVE  PageTyped' /\ Page'
<1>1. \A g \in Flows : ~Mine(g) /\ Mine(g)' = Mine(g)
  BY DEF Page, Mine, Alive
<1>2. Page'
  BY <1>1 DEF Page
<1>. QED
  BY <1>2 DEF PageTyped

\* A flow starts on the page.
LEMMA PageBegins ==
    ASSUME FlowsTyped, PageTyped, Page, ~running, NEW f \in Flows,
           NEW kind \in {"live", "demo"}, NEW st, NEW ph,
           Began(f, kind, st, ph), ph \notin Ended,
           owner' = [owner EXCEPT ![f] = mount], running' = TRUE, mount' = mount,
           ui' \in UiState, ui'.steps = Shown(StepOf(st), "running"), ui'.mode = kind
    PROVE  PageTyped' /\ Page'
<1>1. /\ flow' \in [Flows -> FlowShape] /\ \A g \in Flows \ {f} : flow'[g] = flow[g]
      /\ flow'[f].kind = kind /\ flow'[f].stage = st /\ flow'[f].phase = ph
  BY DEF Began
<1>2. owner'[f] = mount /\ \A g \in Flows \ {f} : owner'[g] = owner[g]
  BY DEF PageTyped
<1>3. PageTyped'
  <2>1. owner' \in [Flows -> Nat] /\ mount \in Nat \ {0}
    BY DEF PageTyped
  <2>2. \A g \in Flows : /\ owner'[g] <= mount
                         /\ owner'[g] = 0 <=> flow'[g].kind \in {"none", "sdk"}
    <3>. TAKE g \in Flows
    <3>1. CASE g = f
      BY <1>1, <1>2, <2>1, <3>1
    <3>2. CASE g # f
      BY <1>1, <1>2, <3>2 DEF PageTyped
    <3>. QED
      BY <3>1, <3>2
  <2>. QED
    BY <2>1, <2>2 DEF PageTyped
<1>4. \A g \in Flows \ {f} : ~Mine(g)'
  BY <1>1, <1>2 DEF Page, Mine, Alive
<1>5. Mine(f)'
  BY <1>1, <1>2 DEF Mine, Alive, Ended
<1>6. Page'
  BY <1>1, <1>4, <1>5 DEF Page
<1>. QED
  BY <1>3, <1>6

-----------------------------------------------------------------------------
(* Steps 1 to 3 of the page.                                               *)

\* A flow that fails dispatches the error of its step, step 1 perhaps with the
\* offer of a demo.
ErrorShown(f) ==
    \/ Dispatch(f, StepError(ui, StepOf(flow[f].stage)))
    \/ \E missing \in BOOLEAN :
          Dispatch(f, [StepError(ui, StepOf(flow[f].stage)) EXCEPT !.missing = missing])

LEMMA CallStages ==
    ASSUME FlowsTyped, NEW f \in Flows, flow[f].phase = "call"
    PROVE  /\ \/ flow[f].kind = "live" /\ flow[f].stage \in EarlyStages
              \/ flow[f].kind = "demo" /\ flow[f].stage = "demo"
           /\ "failed" \in Phases(flow[f].kind, flow[f].stage)
<1>1. flow[f] \in FlowShape
  BY DEF FlowsTyped
<1>. QED
  BY <1>1, ShapeFacts DEF Phases, Kinds, StageNames, EarlyStages

LEMMA EndsFacts ==
    ASSUME FlowsTyped, NEW f \in Flows, flow[f].phase = "call", NEW s, Ends(f, s)
    PROVE  Moved(f, flow[f].stage, "failed", 1) /\ Dispatch(f, s) /\ Returned(f)
BY CallStages, FailMoves DEF Ends

LEMMA FlowStepFacts ==
    ASSUME FlowsTyped, NEW f \in Flows, FlowStep(f)
    PROVE  /\ flow[f].phase = "call"
           /\ UNCHANGED <<issuer, payload, tx, faults, faulty, staged, owner, mount>>
           /\ \/ /\ flow[f].kind = "live" /\ flow[f].stage = "credential"
                 /\ Moved(f, "paths", "call", 1) /\ Dispatch(f, Pass(ui, 1))
                 /\ UNCHANGED <<running, alone>>
              \/ /\ flow[f].kind = "live" /\ flow[f].stage = "paths"
                 /\ Moved(f, "prove", "call", 1) /\ Dispatch(f, Pass(ui, 2))
                 /\ UNCHANGED <<running, alone>>
              \/ /\ flow[f].kind = "live" /\ flow[f].stage = "prove"
                 /\ Moved(f, "register", "check", 1) /\ Dispatch(f, Pass(ui, 3))
                 /\ UNCHANGED running /\ alone' = [alone EXCEPT ![f] = Quiet(f)]
              \/ /\ flow[f].kind = "demo" /\ flow[f].stage = "demo"
                 /\ Moved(f, "demo", "done", flow[f].next)
                 /\ Dispatch(f, StepSuccess(Pass(Pass(ui, 3), 4), 5))
                 /\ Returned(f) /\ UNCHANGED alone
              \/ /\ Moved(f, flow[f].stage, "failed", 1) /\ ErrorShown(f)
                 /\ Returned(f) /\ UNCHANGED alone
<1>1. flow[f] \in FlowShape
  BY DEF FlowsTyped
<1>2. CASE CredentialFound(f)
  <2>1. flow[f].phase = "call" /\ flow[f].stage = "credential" /\ Goto(f, "paths", "call")
    BY <1>2 DEF CredentialFound, At
  <2>2. flow[f].kind = "live"
    BY <2>1, CallStages
  <2>3. Moved(f, "paths", "call", 1)
    BY <2>1, <2>2, GotoMoves DEF Phases, EarlyStages, StageNames, PhaseNames
  <2>. QED
    BY <1>2, <2>1, <2>2, <2>3 DEF CredentialFound, ChainUnchanged
<1>3. CASE CredentialError(f)
  <2>1. flow[f].phase = "call" /\ StepOf(flow[f].stage) = 1
    BY <1>3 DEF CredentialError, At, StepOf
  <2>2. PICK missing \in BOOLEAN : Ends(f, [StepError(ui, 1) EXCEPT !.missing = missing])
    BY <1>3 DEF CredentialError
  <2>3. ErrorShown(f)
    BY <2>1, <2>2 DEF ErrorShown, Ends
  <2>. QED
    BY <1>3, <2>1, <2>2, <2>3, EndsFacts DEF CredentialError, ChainUnchanged
<1>4. CASE PathsFetched(f)
  <2>1. flow[f].phase = "call" /\ flow[f].stage = "paths"
    BY <1>4 DEF PathsFetched, At
  <2>2. flow[f].kind = "live"
    BY <2>1, CallStages DEF EarlyStages
  <2>3. flow[f].next = 1 /\ flow[f] \in FlowRecord
    BY <1>1, <2>1, <2>2, ShapeFacts DEF LastNext
  <2>4. PICK path, roots \in Versions :
           flow' = [flow EXCEPT ![f].stage = "prove", ![f].fits = Fits(path, roots)]
    BY <1>4 DEF PathsFetched
  <2>. DEFINE fit == Fits(path, roots)
              q == [flow[f] EXCEPT !.stage = "prove", !.fits = fit]
  <2>5. flow' = [flow EXCEPT ![f] = q] /\ fit \in BOOLEAN
    BY <2>4 DEF FlowsTyped, Fits
  <2>. HIDE DEF fit
  <2>6. /\ q \in FlowRecord /\ q.kind = "live" /\ q.stage = "prove" /\ q.phase = "call"
        /\ q.next = 1
    BY <2>1, <2>2, <2>3, <2>5 DEF FlowRecord, StageNames, EarlyStages
  <2>. HIDE DEF q
  <2>7. q.phase \in Phases(q.kind, q.stage) /\ q.next \in 1 .. LastNext(q.kind, q.stage)
    BY <2>6, LastNextPositive DEF Phases, EarlyStages
  <2>8. Moved(f, q.stage, q.phase, q.next)
    BY <2>2, <2>5, <2>6, <2>7, MoveIntro
  <2>. QED
    BY <1>4, <2>1, <2>2, <2>6, <2>8 DEF PathsFetched, ChainUnchanged
<1>5. CASE PathsError(f)
  <2>1. flow[f].phase = "call" /\ StepOf(flow[f].stage) = 2 /\ Ends(f, StepError(ui, 2))
    BY <1>5 DEF PathsError, At, StepOf
  <2>2. ErrorShown(f)
    BY <2>1 DEF ErrorShown, Ends
  <2>. QED
    BY <1>5, <2>1, <2>2, EndsFacts DEF PathsError, ChainUnchanged
<1>6. CASE ProofGenerated(f)
  <2>1. /\ flow[f].phase = "call" /\ flow[f].stage = "prove"
        /\ Goto(f, "register", "check") /\ alone' = [alone EXCEPT ![f] = Quiet(f)]
        /\ UNCHANGED <<issuer, payload, tx, faults, faulty, staged>>
    BY <1>6 DEF ProofGenerated, StartSubmit, At
  <2>2. flow[f].kind = "live"
    BY <2>1, CallStages
  <2>3. Moved(f, "register", "check", 1)
    BY <2>1, <2>2, GotoMoves DEF Phases, EarlyStages, StageNames, PhaseNames
  <2>. QED
    BY <1>6, <2>1, <2>2, <2>3 DEF ProofGenerated
<1>7. CASE ProofError(f)
  <2>1. flow[f].phase = "call" /\ StepOf(flow[f].stage) = 3 /\ Ends(f, StepError(ui, 3))
    BY <1>7 DEF ProofError, At, StepOf
  <2>2. ErrorShown(f)
    BY <2>1 DEF ErrorShown, Ends
  <2>. QED
    BY <1>7, <2>1, <2>2, EndsFacts DEF ProofError, ChainUnchanged
<1>8. CASE DemoGenerated(f)
  <2>1. /\ flow[f].phase = "call" /\ flow[f].stage = "demo"
        /\ flow' = [flow EXCEPT ![f].phase = "done"]
    BY <1>8 DEF DemoGenerated, At
  <2>2. flow[f].kind = "demo"
    BY <2>1, CallStages DEF EarlyStages
  <2>3. Moved(f, flow[f].stage, "done", flow[f].next)
    BY <2>1, <2>2, PhaseMoves DEF Phases, PhaseNames
  <2>. QED
    BY <1>8, <2>1, <2>2, <2>3 DEF DemoGenerated, ChainUnchanged
<1>9. CASE DemoError(f)
  <2>1. flow[f].phase = "call" /\ StepOf(flow[f].stage) = 3 /\ Ends(f, StepError(ui, 3))
    BY <1>9 DEF DemoError, At, StepOf
  <2>2. ErrorShown(f)
    BY <2>1 DEF ErrorShown, Ends
  <2>. QED
    BY <1>9, <2>1, <2>2, EndsFacts DEF DemoError, ChainUnchanged
<1>. QED
  BY <1>2, <1>3, <1>4, <1>5, <1>6, <1>7, <1>8, <1>9 DEF FlowStep

\* The page of a flow that is alive shows the flow's step running.
LEMMA MineShows ==
    ASSUME PageTyped, Page, NEW f \in Flows, Alive(f), owner[f] = mount
    PROVE  /\ ui \in UiState /\ ui.steps = Shown(StepOf(flow[f].stage), "running")
           /\ ui.mode = flow[f].kind
BY DEF PageTyped, Page, Mine

LEMMA StepOfIsStep == \A st : StepOf(st) \in 1 .. 4
BY DEF StepOf

LEMMA ErrorOnPage ==
    ASSUME PageTyped, Page, NEW f \in Flows, Alive(f), ErrorShown(f)
    PROVE  \E s : /\ ui' = (IF owner[f] = mount THEN s ELSE ui)
                  /\ owner[f] = mount =>
                       /\ s \in UiState /\ s.mode = ui.mode
                       /\ s.steps = Shown(StepOf(flow[f].stage), "error")
<1>. DEFINE i == StepOf(flow[f].stage)
            e == StepError(ui, i)
<1>1. owner[f] = mount => /\ e \in UiState /\ e.mode = ui.mode
                          /\ e.steps = Shown(i, "error")
  BY MineShows, StepOfIsStep, StepErrorShows DEF STEPS
<1>2. ASSUME NEW missing \in BOOLEAN, e \in UiState
      PROVE  /\ [e EXCEPT !.missing = missing] \in UiState
             /\ [e EXCEPT !.missing = missing].mode = e.mode
             /\ [e EXCEPT !.missing = missing].steps = e.steps
  <2>. HIDE DEF e
  <2>. QED
    BY <1>2 DEF UiState
<1>3. CASE Dispatch(f, e)
  BY <1>1, <1>3 DEF Dispatch
<1>4. CASE \E missing \in BOOLEAN : Dispatch(f, [e EXCEPT !.missing = missing])
  <2>1. PICK missing \in BOOLEAN : Dispatch(f, [e EXCEPT !.missing = missing])
    BY <1>4
  <2>. DEFINE s == [e EXCEPT !.missing = missing]
  <2>2. owner[f] = mount => s \in UiState /\ s.mode = ui.mode /\ s.steps = Shown(i, "error")
    BY <1>1, <1>2
  <2>3. ui' = (IF owner[f] = mount THEN s ELSE ui)
    BY <2>1 DEF Dispatch
  <2>. HIDE DEF s
  <2>. QED
    BY <2>2, <2>3
<1>. QED
  BY <1>3, <1>4 DEF ErrorShown

-----------------------------------------------------------------------------
(* Typed and Page are inductive.                                           *)

LEMMA InitTyped == Init => Typed /\ Page
<1>. SUFFICES ASSUME Init PROVE Typed /\ Page
  OBVIOUS
<1>1. /\ issuer = FALSE /\ payload = NoPayload /\ faults = 0
      /\ tx = [f \in Flows |-> [n \in TxNames |-> "unsent"]]
      /\ flow = [f \in Flows |-> NewFlow]
      /\ alone = [f \in Flows |-> FALSE] /\ faulty = [f \in Flows |-> FALSE]
      /\ staged = [f \in Flows |-> NoPayload]
      /\ ui = InitialState /\ mount = 1 /\ owner = [f \in Flows |-> 0] /\ running = FALSE
  BY DEF Init, UploadInit
<1>2. NewFlow \in FlowShape /\ NewFlow.kind = "none" /\ NewFlow.phase = "off"
  BY LastNextPositive
     DEF NewFlow, FlowShape, FlowRecord, Kinds, StageNames, PhaseNames, Phases
<1>3. [n \in TxNames |-> "unsent"] \in TxState
  BY DEF TxState, Fates
<1>4. StateTyped
  BY <1>1, <1>2, <1>3 DEF StateTyped, TxTyped, FlowsTyped
<1>5. PageTyped
  <2>0. ui \in UiState
    BY <1>1, InitialShows, Zenon
  <2>1. mount \in Nat \ {0} /\ owner \in [Flows -> Nat] /\ running \in BOOLEAN
    <3>1. mount = 1 /\ owner = [f \in Flows |-> 0] /\ running = FALSE
      BY <1>1
    <3>2. running \in BOOLEAN
      BY <3>1, Zenon
    <3>. QED
      BY <3>1, <3>2
  <2>2. \A f \in Flows : owner[f] = 0 /\ flow[f].kind = "none" /\ owner[f] <= mount
    BY <1>1, <1>2
  <2>. QED
    BY <2>0, <2>1, <2>2 DEF PageTyped
<1>6. Page
  <2>1. \A f \in Flows : ~Mine(f)
    BY <1>1, <1>2 DEF Mine, Alive
  <2>. QED
    BY <1>1, <2>1, InitialShows DEF Page
<1>. QED
  BY <1>4, <1>5, <1>6 DEF Typed

LEMMA FlowStepTyped ==
    ASSUME Typed, Page, NEW f \in Flows, FlowStep(f)
    PROVE  Typed' /\ Page'
<1>1. StateTyped /\ PageTyped /\ FlowsTyped /\ TxTyped
  BY DEF Typed, StateTyped
<1>2. /\ flow[f].phase = "call"
      /\ UNCHANGED <<issuer, payload, tx, faults, faulty, staged, owner, mount>>
  BY <1>1, FlowStepFacts
<1>3. Alive(f) /\ "call" \notin Ended /\ "check" \notin Ended /\ {"failed", "done"} \subseteq Ended
  BY <1>2 DEF Alive, Ended
<1>4. ASSUME NEW st, NEW ph, NEW nx, Moved(f, st, ph, nx), alone' \in [Flows -> BOOLEAN]
      PROVE  StateTyped'
  BY <1>1, <1>2, <1>4 DEF StateTyped, TxTyped, FlowsTyped, Moved
<1>5. alone' \in [Flows -> BOOLEAN]
  <2>1. Quiet(f) \in BOOLEAN
    BY DEF Quiet
  <2>2. alone' = alone \/ alone' = [alone EXCEPT ![f] = Quiet(f)]
    BY <1>1, FlowStepFacts
  <2>3. alone \in [Flows -> BOOLEAN]
    BY <1>1 DEF TxTyped
  <2>. HIDE DEF Quiet
  <2>. QED
    BY <2>1, <2>2, <2>3
<1>6. \A i \in 1 .. 3 : i \in 0 .. 4
  OBVIOUS
<1>7. ASSUME NEW i \in 1 .. 3, StepOf(flow[f].stage) = i, NEW st, NEW ph, NEW nx,
             Moved(f, st, ph, nx), StepOf(st) = i + 1, ph \notin Ended,
             Dispatch(f, Pass(ui, i)), running' = running
      PROVE  PageTyped' /\ Page'
  <2>. DEFINE s == Pass(ui, i)
  <2>1. owner[f] = mount =>
           s \in UiState /\ s.mode = ui.mode /\ s.steps = Shown(i + 1, "running")
    BY <1>1, <1>3, <1>7, MineShows, PassShows
  <2>2. ui' = (IF owner[f] = mount THEN s ELSE ui)
    BY <1>7 DEF Dispatch
  <2>3. running' = (running /\ (ph \notin Ended \/ owner[f] # mount))
    BY <1>1, <1>7 DEF PageTyped
  <2>. HIDE DEF s
  <2>. QED
    BY <1>1, <1>2, <1>3, <1>7, <2>1, <2>2, <2>3, FlowOnPage
<1>8. CASE /\ flow[f].stage = "credential" /\ Moved(f, "paths", "call", 1)
           /\ Dispatch(f, Pass(ui, 1)) /\ UNCHANGED running
  BY <1>3, <1>4, <1>5, <1>7, <1>8 DEF StepOf, Typed
<1>9. CASE /\ flow[f].stage = "paths" /\ Moved(f, "prove", "call", 1)
           /\ Dispatch(f, Pass(ui, 2)) /\ UNCHANGED running
  BY <1>3, <1>4, <1>5, <1>7, <1>9 DEF StepOf, Typed
<1>10. CASE /\ flow[f].stage = "prove" /\ Moved(f, "register", "check", 1)
            /\ Dispatch(f, Pass(ui, 3)) /\ UNCHANGED running
  BY <1>3, <1>4, <1>5, <1>7, <1>10 DEF StepOf, Typed
<1>11. CASE /\ flow[f].stage = "demo" /\ Moved(f, "demo", "done", flow[f].next)
            /\ Dispatch(f, StepSuccess(Pass(Pass(ui, 3), 4), 5)) /\ Returned(f)
  <2>. DEFINE s == StepSuccess(Pass(Pass(ui, 3), 4), 5)
  <2>1. ASSUME owner[f] = mount
        PROVE  s \in UiState /\ s.mode = ui.mode /\ s.steps = Shown(6, "idle")
    <3>1. ui \in UiState /\ ui.steps = Shown(3, "running")
      BY <1>1, <1>3, <1>11, <2>1, MineShows DEF StepOf
    <3>2. /\ Pass(ui, 3) \in UiState /\ Pass(ui, 3).steps = Shown(4, "running")
          /\ Pass(ui, 3).mode = ui.mode
      BY <3>1, PassShows
    <3>3. /\ Pass(Pass(ui, 3), 4) \in UiState
          /\ Pass(Pass(ui, 3), 4).steps = Shown(5, "running")
          /\ Pass(Pass(ui, 3), 4).mode = ui.mode
      BY <3>2, PassShows
    <3>4. 5 \in STEPS
      BY DEF STEPS
    <3>. QED
      BY <3>3, <3>4, StepSuccessShows
  <2>2. ui' = (IF owner[f] = mount THEN s ELSE ui)
    BY <1>11 DEF Dispatch
  <2>3. running' = (running /\ ("done" \notin Ended \/ owner[f] # mount))
    BY <1>3, <1>11 DEF Returned
  <2>. HIDE DEF s
  <2>4. PageTyped' /\ Page'
    BY <1>1, <1>2, <1>3, <1>11, <2>1, <2>2, <2>3, FlowOnPage
  <2>. QED
    BY <1>4, <1>5, <1>11, <2>4 DEF Typed
<1>12. CASE Moved(f, flow[f].stage, "failed", 1) /\ ErrorShown(f) /\ Returned(f)
  <2>1. PICK s : /\ ui' = (IF owner[f] = mount THEN s ELSE ui)
                 /\ owner[f] = mount =>
                      /\ s \in UiState /\ s.mode = ui.mode
                      /\ s.steps = Shown(StepOf(flow[f].stage), "error")
    BY <1>1, <1>3, <1>12, ErrorOnPage
  <2>2. running' = (running /\ ("failed" \notin Ended \/ owner[f] # mount))
    BY <1>3, <1>12 DEF Returned
  <2>3. owner[f] = mount => \E k \in 0 .. 6, v \in {"idle", "error"} : s.steps = Shown(k, v)
    BY <2>1, StepOfIsStep
  <2>4. PageTyped' /\ Page'
    BY <1>1, <1>2, <1>3, <1>12, <2>1, <2>2, <2>3, FlowOnPage
  <2>. QED
    BY <1>4, <1>5, <1>12, <2>4 DEF Typed
<1>. QED
  BY <1>1, <1>8, <1>9, <1>10, <1>11, <1>12, FlowStepFacts

\* A step of the submit stage moves one flow, within the stage, and keeps the types.
LEMMA SubmitFacts ==
    ASSUME StateTyped, NEW f \in Flows, ClientStep(f) \/ ClientError(f) \/ WalletStep(f)
    PROVE  /\ StateTyped' /\ Alive(f) /\ flow[f].kind \in {"live", "sdk"}
           /\ \E st, ph, nx :
                /\ Moved(f, st, ph, nx)
                /\ flow[f].kind = "live" =>
                     flow[f].stage \in SubmitStages /\ st \in SubmitStages
<1>1. FlowsTyped /\ TxTyped /\ payload \in Payload \cup {NoPayload}
  BY DEF StateTyped
<1>2. ASSUME NEW st, NEW ph, NEW nx, Moved(f, st, ph, nx),
             UNCHANGED <<issuer, payload, staged>>, TxTyped',
             faulty' \in [Flows -> BOOLEAN], faults' \in Nat
      PROVE  StateTyped'
  BY <1>2 DEF StateTyped, FlowsTyped, Moved
<1>3. /\ UNCHANGED <<tx, alone>> => TxTyped'
      /\ UNCHANGED <<faults, faulty>> => faulty' \in [Flows -> BOOLEAN] /\ faults' \in Nat
      /\ Fault(f) => faulty' \in [Flows -> BOOLEAN] /\ faults' \in Nat
  BY <1>1, FaultFacts DEF TxTyped, StateTyped
<1>4. ASSUME NEW names \in SUBSET TxNames, Sent(f, names) PROVE TxTyped'
  BY <1>1, <1>4, SentFacts DEF TxTyped
<1>5. \A st \in {"register", "close", "init", "write", "finalize"} : st \in SubmitStages
  BY DEF SubmitStages
<1>6. ASSUME flow[f].phase \in {"check", "sign", "wait", "measure"} PROVE Alive(f)
  BY <1>6 DEF Alive
<1>7. CASE EnsureIssuerRegistered(f)
  BY <1>1, <1>2, <1>3, <1>5, <1>6, <1>7, EnsureFacts
<1>8. CASE CleanupStaleHookPayload(f)
  BY <1>1, <1>2, <1>3, <1>5, <1>6, <1>8, CleanupFacts
<1>9. CASE Proceed(f)
  <2>1. /\ flow[f].kind = "live" /\ flow[f].phase = "wait" /\ flow[f].stage \in SubmitStages
        /\ UNCHANGED <<issuer, payload, faults, faulty, staged>>
    BY <1>1, <1>5, <1>9, ProceedFacts
  <2>2. TxTyped'
    <3>1. CASE UNCHANGED <<tx, alone>>
      BY <1>3, <3>1
    <3>2. CASE flow[f].next + 1 \in 1 .. Resizes /\ Sent(f, {<<"resize", flow[f].next + 1>>})
      BY <1>4, <3>2, TxNamesHas
    <3>. QED
      BY <1>1, <1>9, <3>1, <3>2, ProceedFacts
  <2>3. PICK st, ph, nx : st \in SubmitStages /\ Moved(f, st, ph, nx)
    BY <1>1, <1>5, <1>9, ProceedFacts
  <2>. QED
    BY <1>2, <1>3, <1>6, <2>1, <2>2, <2>3
<1>10. CASE PollFinalize(f)
  BY <1>1, <1>2, <1>3, <1>5, <1>6, <1>10, PollFacts
<1>11. CASE SdkConfirmed(f)
  BY <1>1, <1>2, <1>3, <1>6, <1>11, SdkConfirmedFacts
<1>12. CASE SdkMeasure(f)
  BY <1>1, <1>2, <1>3, <1>6, <1>12, SdkMeasureFacts
<1>13. CASE Reject(f)
  BY <1>1, <1>2, <1>3, <1>6, <1>13, RejectFacts, SigningStages
<1>14. CASE SendFails(f)
  <2>1. /\ flow[f].phase = "sign" /\ Moved(f, flow[f].stage, "failed", 1) /\ Fault(f)
        /\ \E names \in SUBSET TxNames : Sent(f, names)
        /\ UNCHANGED <<issuer, payload, staged>>
    BY <1>1, <1>14, SendFailsFacts
  <2>2. TxTyped'
    BY <1>4, <2>1
  <2>. QED
    BY <1>1, <1>2, <1>3, <1>6, <2>1, <2>2, SigningStages
<1>15. CASE ConfirmFails(f)
  BY <1>1, <1>2, <1>3, <1>6, <1>15, ConfirmFailsFacts
<1>16. CASE SignAndSend(f)
  BY <1>1, <1>2, <1>3, <1>4, <1>6, <1>16, SignFacts
<1>17. CASE SdkSend(f)
  <2>1. /\ flow[f].kind = "sdk" /\ flow[f].phase = "sign"
        /\ {<<flow[f].stage, flow[f].next>>} \in SUBSET TxNames
        /\ Sent(f, {<<flow[f].stage, flow[f].next>>})
        /\ UNCHANGED <<issuer, payload, faults, faulty, staged>>
        /\ \E st, ph, nx : Moved(f, st, ph, nx)
    BY <1>1, <1>17, SdkSendFacts
  <2>2. TxTyped'
    BY <1>4, <2>1
  <2>. QED
    BY <1>2, <1>3, <1>6, <2>1, <2>2
<1>. QED
  BY <1>7, <1>8, <1>9, <1>10, <1>11, <1>12, <1>13, <1>14, <1>15, <1>16, <1>17
     DEF ClientStep, ClientError, WalletStep

\* Confirm, on the page of a flow in the submit stage.
LEMMA ConfirmShows ==
    ASSUME NEW f \in Flows, ui \in UiState, ui.steps = Shown(4, "running")
    PROVE  /\ Confirm(f) \in UiState /\ Confirm(f).steps = Shown(6, "idle")
           /\ Confirm(f).mode = ui.mode /\ Confirm(f).txSignature = f
<1>. DEFINE s == SetTx(ui, f)
<1>1. /\ s \in UiState /\ s.steps = Shown(4, "running") /\ s.mode = ui.mode
      /\ s.txSignature = f
  BY DEF SetTx, UiState
<1>. HIDE DEF s
<1>2. /\ Pass(s, 4) \in UiState /\ Pass(s, 4).steps = Shown(5, "running")
      /\ Pass(s, 4).mode = ui.mode /\ Pass(s, 4).txSignature = f
  BY <1>1, PassShows
<1>3. 5 \in STEPS
  BY DEF STEPS
<1>. QED
  BY <1>2, <1>3, StepSuccessShows DEF Confirm, s

LEMMA SubmitTyped ==
    ASSUME Typed, Page, NEW f \in Flows, Submit(f)
    PROVE  Typed' /\ Page'
<1>1. StateTyped /\ PageTyped /\ FlowsTyped
  BY DEF Typed, StateTyped
<1>2. /\ StateTyped' /\ Alive(f) /\ flow[f].kind \in {"live", "sdk"}
      /\ \E st, ph, nx :
           /\ Moved(f, st, ph, nx)
           /\ flow[f].kind = "live" => flow[f].stage \in SubmitStages /\ st \in SubmitStages
  BY <1>1, SubmitFacts DEF Submit
<1>3. PICK st, ph, nx :
           /\ Moved(f, st, ph, nx)
           /\ flow[f].kind = "live" => flow[f].stage \in SubmitStages /\ st \in SubmitStages
  BY <1>2
<1>4. flow'[f].phase = ph /\ UNCHANGED <<mount, owner>>
  BY <1>3 DEF Moved, Submit
<1>5. CASE flow[f].kind = "sdk"
  <2>1. UNCHANGED <<ui, running>> /\ owner[f] # mount
    BY <1>1, <1>5 DEF Submit, PageTyped
  <2>2. running' = (running /\ (ph \notin Ended \/ owner[f] # mount))
        /\ ui' = (IF owner[f] = mount THEN ui ELSE ui)
    BY <1>1, <2>1 DEF PageTyped
  <2>3. PageTyped' /\ Page'
    BY <1>1, <1>2, <1>3, <1>4, <2>1, <2>2, FlowOnPage
  <2>. QED
    BY <1>2, <2>3 DEF Typed
<1>6. CASE flow[f].kind = "live"
  <2>1. StepOf(flow[f].stage) = 4 /\ StepOf(st) = 4
    BY <1>3, <1>6 DEF SubmitStages, StepOf
  <2>2. owner[f] = mount => ui \in UiState /\ ui.steps = Shown(4, "running")
    BY <1>1, <1>2, <2>1, MineShows
  <2>3. CASE ph = "done"
    <3>1. Dispatch(f, Confirm(f)) /\ Returned(f)
      BY <1>4, <1>6, <2>3 DEF Submit
    <3>2. /\ ui' = (IF owner[f] = mount THEN Confirm(f) ELSE ui)
          /\ running' = (running /\ (ph \notin Ended \/ owner[f] # mount))
      BY <2>3, <3>1 DEF Dispatch, Returned, Ended
    <3>3. owner[f] = mount =>
             /\ Confirm(f) \in UiState /\ Confirm(f).mode = ui.mode
             /\ Confirm(f).steps = Shown(6, "idle")
      BY <2>2, ConfirmShows
    <3>4. ph \in Ended
      BY <2>3 DEF Ended
    <3>5. PageTyped' /\ Page'
      BY <1>1, <1>2, <1>3, <1>4, <3>2, <3>3, <3>4, FlowOnPage
    <3>. QED
      BY <1>2, <3>5 DEF Typed
  <2>4. CASE ph = "failed"
    <3>1. Dispatch(f, StepError(ui, 4)) /\ Returned(f)
      BY <1>4, <1>6, <2>4 DEF Submit, SubmitError
    <3>2. /\ ui' = (IF owner[f] = mount THEN StepError(ui, 4) ELSE ui)
          /\ running' = (running /\ (ph \notin Ended \/ owner[f] # mount))
      BY <2>4, <3>1 DEF Dispatch, Returned, Ended
    <3>3. owner[f] = mount =>
             /\ StepError(ui, 4) \in UiState /\ StepError(ui, 4).mode = ui.mode
             /\ StepError(ui, 4).steps = Shown(4, "error")
      BY <2>2, StepErrorShows DEF STEPS
    <3>4. ph \in Ended
      BY <2>4 DEF Ended
    <3>5. PageTyped' /\ Page'
      BY <1>1, <1>2, <1>3, <1>4, <3>2, <3>3, <3>4, FlowOnPage
    <3>. QED
      BY <1>2, <3>5 DEF Typed
  <2>5. CASE ph \notin {"done", "failed"}
    <3>1. UNCHANGED <<ui, running>>
      BY <1>4, <1>6, <2>5 DEF Submit
    <3>2. ph \notin Ended
      <4>1. flow'[f] \in FlowShape /\ flow'[f].kind = "live"
        BY <1>3, <1>6 DEF Moved
      <4>2. ph # "off"
        BY <1>4, <4>1, ShapeFacts DEF Phases
      <4>. QED
        BY <2>5, <4>2 DEF Ended
    <3>3. /\ ui' = (IF owner[f] = mount THEN ui ELSE ui)
          /\ running' = (running /\ (ph \notin Ended \/ owner[f] # mount))
      BY <1>1, <3>1, <3>2 DEF PageTyped
    <3>4. PageTyped' /\ Page'
      BY <1>1, <1>2, <1>3, <1>4, <2>1, <2>2, <3>2, <3>3, FlowOnPage
    <3>. QED
      BY <1>2, <3>4 DEF Typed
  <2>. QED
    BY <2>3, <2>4, <2>5
<1>. QED
  BY <1>2, <1>5, <1>6

LEMMA NetworkTyped ==
    ASSUME Typed, Page, NEW f \in Flows, Network(f)
    PROVE  Typed' /\ Page'
<1>1. StateTyped /\ PageTyped /\ UNCHANGED <<ui, mount, owner, running>>
  BY DEF Typed, Network
<1>2. PICK n \in TxNames : Land(f, n) \/ Expire(f, n)
  BY DEF Network, NetworkStep
<1>3. StateTyped' /\ flow' = flow
  <2>1. CASE Land(f, n)
    BY <1>1, <2>1, LandFacts DEF StateTyped, TxTyped, FlowsTyped
  <2>2. CASE Expire(f, n)
    BY <1>1, <2>2, ExpireFacts DEF StateTyped, TxTyped, FlowsTyped
  <2>. QED
    BY <1>2, <2>1, <2>2
<1>4. PageTyped' /\ Page'
  BY <1>1, <1>3, PageUntouched
<1>. QED
  BY <1>3, <1>4 DEF Typed

LEMMA UploadFacts ==
    ASSUME FlowsTyped, Upload
    PROVE  \E f \in Flows :
              /\ Began(f, "sdk", "init", "sign")
              /\ alone' = [alone EXCEPT ![f] = Quiet(f) /\ payload = NoPayload]
              /\ UNCHANGED <<issuer, payload, tx, faults, faulty, staged>>
              /\ UNCHANGED <<ui, mount, owner, running>>
<1>1. Free # {} /\ StartUpload(NextFlow) /\ UNCHANGED <<ui, mount, owner, running>>
  BY DEF Upload
<1>2. NextFlow \in Flows /\ flow[NextFlow].kind = "none"
  BY <1>1, NextFlowIsFree
<1>3. Began(NextFlow, "sdk", "init", "sign")
  BY <1>1, <1>2, BeginFacts DEF StartUpload, Kinds, StageNames, PhaseNames, Phases
<1>. QED
  BY <1>1, <1>2, <1>3 DEF StartUpload

LEMMA UploadTyped ==
    ASSUME Typed, Page, Upload
    PROVE  Typed' /\ Page'
<1>1. StateTyped /\ PageTyped /\ FlowsTyped
  BY DEF Typed, StateTyped
<1>2. PICK f \in Flows :
              /\ Began(f, "sdk", "init", "sign")
              /\ alone' = [alone EXCEPT ![f] = Quiet(f) /\ payload = NoPayload]
              /\ UNCHANGED <<issuer, payload, tx, faults, faulty, staged>>
              /\ UNCHANGED <<ui, mount, owner, running>>
  BY <1>1, UploadFacts
<1>3. /\ flow' \in [Flows -> FlowShape] /\ \A g \in Flows \ {f} : flow'[g] = flow[g]
      /\ flow[f].kind = "none" /\ flow'[f].kind = "sdk"
  BY <1>2 DEF Began
<1>4. StateTyped'
  <2>1. alone' \in [Flows -> BOOLEAN]
    BY <1>1, <1>2 DEF StateTyped, TxTyped
  <2>. QED
    BY <1>1, <1>2, <1>3, <2>1 DEF StateTyped, TxTyped, FlowsTyped
<1>5. PageTyped'
  BY <1>1, <1>2, <1>3 DEF PageTyped
<1>6. owner[f] # mount /\ owner'[f] # mount'
  BY <1>1, <1>2, <1>3 DEF PageTyped
<1>7. \A g \in Flows : Mine(g)' <=> Mine(g)
  BY <1>2, <1>3, <1>6 DEF Mine, Alive
<1>8. \A g \in Flows : Mine(g) => flow'[g] = flow[g]
  BY <1>3, <1>6 DEF Mine
<1>9. Page'
  BY <1>2, <1>7, <1>8 DEF Page
<1>. QED
  BY <1>4, <1>5, <1>9 DEF Typed

\* The page starts a flow, or shows at once why it cannot.
LEMMA RunFacts ==
    ASSUME Typed, NEW wallet \in Wallets, RunLive(wallet) \/ RunDemo(wallet)
    PROVE  /\ ~running /\ mount' = mount
           /\ UNCHANGED <<issuer, payload, tx, faults, alone, faulty, staged>>
           /\ \/ \E f \in Flows, kind \in {"live", "demo"} :
                   /\ Began(f, kind, IF kind = "live" THEN "credential" ELSE "demo", "call")
                   /\ owner' = [owner EXCEPT ![f] = mount] /\ running' = TRUE
                   /\ ui' \in UiState /\ ui'.mode = kind
                   /\ ui'.steps = Shown(IF kind = "live" THEN 1 ELSE 3, "running")
              \/ /\ UNCHANGED <<flow, owner, running>>
                 /\ ui' \in UiState
                 /\ \E k \in 0 .. 1 : ui'.steps = Shown(k, "error")
<1>1. FlowsTyped
  BY DEF Typed, StateTyped
<1>2. /\ ~running /\ mount' = mount /\ Free # {}
      /\ UNCHANGED <<issuer, payload, tx, faults, alone, faulty, staged>>
  BY DEF RunLive, RunDemo, NotRunning
<1>3. NextFlow \in Flows /\ flow[NextFlow].kind = "none"
  BY <1>2, NextFlowIsFree
<1>4. {0, 1} \subseteq STEPS /\ {0, 1, 2} \subseteq 0 .. 4
  BY DEF STEPS
<1>5. CASE RunLive(wallet)
  <2>. DEFINE s == Started("live")
  <2>1. s \in UiState /\ s.steps = Shown(0, "running") /\ s.mode = "live"
    BY StartedShows
  <2>2. CASE wallet = "batch"
    <3>1. /\ flow' = [flow EXCEPT ![NextFlow] =
                [NewFlow EXCEPT !.kind = "live", !.stage = "credential", !.phase = "call"]]
          /\ owner' = [owner EXCEPT ![NextFlow] = mount] /\ running' = TRUE
          /\ ui' = Pass(s, 0)
      BY <1>5, <2>2 DEF RunLive
    <3>2. Began(NextFlow, "live", "credential", "call")
      BY <1>1, <1>3, <3>1, BeginFacts DEF Kinds, StageNames, PhaseNames, Phases, EarlyStages
    <3>. HIDE DEF s
    <3>3. ui' \in UiState /\ ui'.mode = "live" /\ ui'.steps = Shown(1, "running")
      BY <1>4, <2>1, <3>1, PassShows
    <3>. QED
      BY <1>2, <1>3, <3>1, <3>2, <3>3
  <2>3. CASE wallet # "batch"
    <3>1. /\ ui' = IF wallet = "none" THEN StepError(s, 0) ELSE StepError(StepSuccess(s, 0), 1)
          /\ UNCHANGED <<flow, owner, running>>
      BY <1>5, <2>3 DEF RunLive
    <3>. HIDE DEF s
    <3>2. StepError(s, 0) \in UiState /\ StepError(s, 0).steps = Shown(0, "error")
      BY <1>4, <2>1, StepErrorShows
    <3>3. StepSuccess(s, 0) \in UiState /\ StepSuccess(s, 0).steps = Shown(1, "idle")
      BY <1>4, <2>1, StepSuccessShows
    <3>4. /\ StepError(StepSuccess(s, 0), 1) \in UiState
          /\ StepError(StepSuccess(s, 0), 1).steps = Shown(1, "error")
      BY <1>4, <3>3, StepErrorShows
    <3>. QED
      BY <1>2, <3>1, <3>2, <3>4
  <2>. QED
    BY <2>2, <2>3
<1>6. CASE RunDemo(wallet)
  <2>. DEFINE s == Started("demo")
  <2>1. s \in UiState /\ s.steps = Shown(0, "running") /\ s.mode = "demo"
    BY StartedShows
  <2>2. CASE wallet # "none"
    <3>1. /\ flow' = [flow EXCEPT ![NextFlow] =
                [NewFlow EXCEPT !.kind = "demo", !.stage = "demo", !.phase = "call"]]
          /\ owner' = [owner EXCEPT ![NextFlow] = mount] /\ running' = TRUE
          /\ ui' = Pass(Pass(Pass(s, 0), 1), 2)
      BY <1>6, <2>2 DEF RunDemo
    <3>2. Began(NextFlow, "demo", "demo", "call")
      BY <1>1, <1>3, <3>1, BeginFacts DEF Kinds, StageNames, PhaseNames, Phases
    <3>. HIDE DEF s
    <3>3. /\ Pass(s, 0) \in UiState /\ Pass(s, 0).mode = "demo"
          /\ Pass(s, 0).steps = Shown(1, "running")
      BY <1>4, <2>1, PassShows
    <3>4. /\ Pass(Pass(s, 0), 1) \in UiState /\ Pass(Pass(s, 0), 1).mode = "demo"
          /\ Pass(Pass(s, 0), 1).steps = Shown(2, "running")
      BY <1>4, <3>3, PassShows
    <3>5. ui' \in UiState /\ ui'.mode = "demo" /\ ui'.steps = Shown(3, "running")
      BY <1>4, <3>1, <3>4, PassShows
    <3>. QED
      BY <1>2, <1>3, <3>1, <3>2, <3>5
  <2>3. CASE wallet = "none"
    <3>1. ui' = StepError(s, 0) /\ UNCHANGED <<flow, owner, running>>
      BY <1>6, <2>3 DEF RunDemo
    <3>. HIDE DEF s
    <3>2. StepError(s, 0) \in UiState /\ StepError(s, 0).steps = Shown(0, "error")
      BY <1>4, <2>1, StepErrorShows
    <3>. QED
      BY <1>2, <3>1, <3>2
  <2>. QED
    BY <2>2, <2>3
<1>. QED
  BY <1>5, <1>6

LEMMA RunTyped ==
    ASSUME Typed, Page, NEW wallet \in Wallets, RunLive(wallet) \/ RunDemo(wallet)
    PROVE  Typed' /\ Page'
<1>1. StateTyped /\ PageTyped /\ FlowsTyped
  BY DEF Typed, StateTyped
<1>2. /\ ~running /\ mount' = mount
      /\ UNCHANGED <<issuer, payload, tx, faults, alone, faulty, staged>>
  BY RunFacts
<1>3. CASE UNCHANGED <<flow, owner, running>> /\ ui' \in UiState
           /\ \E k \in 0 .. 1 : ui'.steps = Shown(k, "error")
  <2>1. \E k \in 0 .. 6, v \in {"idle", "error"} : ui'.steps = Shown(k, v)
    BY <1>3
  <2>2. PageTyped' /\ Page'
    BY <1>1, <1>2, <1>3, <2>1, PageAtRest
  <2>3. StateTyped'
    BY <1>1, <1>2, <1>3 DEF StateTyped, TxTyped, FlowsTyped
  <2>. QED
    BY <2>2, <2>3 DEF Typed
<1>4. ASSUME NEW f \in Flows, NEW kind \in {"live", "demo"},
             Began(f, kind, IF kind = "live" THEN "credential" ELSE "demo", "call"),
             owner' = [owner EXCEPT ![f] = mount], running' = TRUE,
             ui' \in UiState, ui'.mode = kind,
             ui'.steps = Shown(IF kind = "live" THEN 1 ELSE 3, "running")
      PROVE  Typed' /\ Page'
  <2>. DEFINE st == IF kind = "live" THEN "credential" ELSE "demo"
  <2>1. StepOf(st) = (IF kind = "live" THEN 1 ELSE 3) /\ "call" \notin Ended
    BY DEF StepOf, Ended
  <2>2. PageTyped' /\ Page'
    BY <1>1, <1>2, <1>4, <2>1, PageBegins
  <2>3. StateTyped'
    BY <1>1, <1>2, <1>4 DEF StateTyped, TxTyped, FlowsTyped, Began
  <2>. QED
    BY <2>2, <2>3 DEF Typed
<1>. QED
  BY <1>3, <1>4, RunFacts

\* Reset and the summary are there only when no flow of the page is alive.
LEMMA ResetAtRest ==
    ASSUME Typed, Page, hasError \/ isDone
    PROVE  ~running
<1>. SUFFICES ASSUME running PROVE FALSE
  OBVIOUS
<1>1. PICK f \in Flows : Mine(f)
  BY DEF Page
<1>2. ui.steps = Shown(StepOf(flow[f].stage), "running")
  BY <1>1 DEF Page
<1>3. StepOf(flow[f].stage) \in 0 .. 4
  BY StepOfIsStep
<1>4. ~isDone /\ ~hasError
  BY <1>2, <1>3, ShownFacts DEF isDone, hasError
<1>. QED
  BY <1>4

LEMMA ResetTyped ==
    ASSUME Typed, Page, Reset \/ Remount
    PROVE  Typed' /\ Page'
<1>1. StateTyped /\ PageTyped /\ FlowsTyped
  BY DEF Typed, StateTyped
<1>2. ui' = InitialState /\ UNCHANGED <<uvars, owner>>
  BY DEF Reset, Remount
<1>3. StateTyped'
  BY <1>1, <1>2 DEF StateTyped, TxTyped, FlowsTyped, uvars
<1>4. ui' \in UiState /\ ui'.steps = Shown(0, "idle")
  BY <1>2, InitialShows
<1>5. CASE Reset
  <2>1. UNCHANGED <<flow, mount, owner, running>> /\ ~running
    BY <1>5, ResetAtRest DEF Reset, uvars
  <2>2. PageTyped' /\ Page'
    BY <1>1, <1>4, <2>1, PageAtRest
  <2>. QED
    BY <1>3, <2>2 DEF Typed
<1>6. CASE Remount
  <2>1. mount' = mount + 1 /\ running' = FALSE /\ UNCHANGED flow
    BY <1>6 DEF Remount, uvars
  <2>2. PageTyped'
    <3>0. running' \in BOOLEAN
      BY <2>1, Zenon
    <3>1. mount' \in Nat \ {0}
      BY <1>1, <2>1 DEF PageTyped
    <3>2. \A f \in Flows : owner'[f] <= mount'
      BY <1>1, <1>2, <2>1 DEF PageTyped
    <3>3. \A f \in Flows : owner'[f] = 0 <=> flow'[f].kind \in {"none", "sdk"}
      BY <1>1, <1>2, <2>1 DEF PageTyped
    <3>. QED
      BY <1>1, <1>2, <1>4, <3>0, <3>1, <3>2, <3>3 DEF PageTyped
  <2>3. \A g \in Flows : ~Mine(g)'
    BY <1>1, <1>2, <2>1 DEF PageTyped, Mine
  <2>4. Page'
    BY <1>4, <2>1, <2>3 DEF Page
  <2>. QED
    BY <1>3, <2>2, <2>4 DEF Typed
<1>. QED
  BY <1>5, <1>6

LEMMA TypedNext ==
    ASSUME Typed, Page, [Next]_vars
    PROVE  Typed' /\ Page'
<1>1. CASE UNCHANGED vars
  <2>1. StateTyped'
    BY <1>1 DEF vars, uvars, Typed, StateTyped, TxTyped, FlowsTyped
  <2>2. UNCHANGED <<flow, ui, mount, owner, running>>
    BY <1>1 DEF vars, uvars
  <2>3. PageTyped' /\ Page'
    BY <2>2, PageUntouched DEF Typed
  <2>. QED
    BY <2>1, <2>3 DEF Typed
<1>2. CASE Next
  BY <1>2, RunTyped, ResetTyped, FlowStepTyped, SubmitTyped, NetworkTyped, UploadTyped DEF Next
<1>. QED
  BY <1>1, <1>2

-----------------------------------------------------------------------------
(* Ordered is inductive.                                                   *)

LEMMA RankFacts ==
    /\ Rank("register") = 1 /\ Rank("close") = 2 /\ Rank("init") = 3 /\ Rank("resize") = 3
    /\ Rank("write") = 4 /\ Rank("finalize") = 5
    /\ \A s \in {"none", "demo"} \cup EarlyStages : Rank(s) = 0
    /\ \A n \in TxNames : Rank(n[1]) \in 1 .. 5
<1>1. /\ Rank("register") = 1 /\ Rank("close") = 2 /\ Rank("init") = 3 /\ Rank("resize") = 3
      /\ Rank("write") = 4 /\ Rank("finalize") = 5
  BY DEF Rank
<1>2. \A s \in {"none", "demo"} \cup EarlyStages : Rank(s) = 0
  BY DEF Rank, EarlyStages
<1>3. \A n \in TxNames : n[1] \in TxKinds
  BY TxNameFacts
<1>. QED
  BY <1>1, <1>2, <1>3 DEF TxKinds

\* A flow that has not come to the submit stage has sent nothing.
LEMMA NothingSent ==
    ASSUME Ordered, NEW f \in Flows, flow[f].stage \in {"none", "demo"} \cup EarlyStages
    PROVE  \A n \in TxNames : tx[f][n] = "unsent"
<1>1. Rank(flow[f].stage) = 0
  BY RankFacts
<1>2. ASSUME NEW n \in TxNames PROVE tx[f][n] = "unsent"
  <2>1. Rank(n[1]) \in 1 .. 5
    BY RankFacts
  <2>2. OrderedFor(flow[f], tx[f])
    BY DEF Ordered
  <2>. QED
    BY <1>1, <2>1, <2>2 DEF OrderedFor
<1>. QED
  BY <1>2

\* Enough for OrderedFor: every transaction that was sent is of a rank below
\* the new stage, or of the same rank and the stage does not forbid it.
LEMMA OrderedIntro ==
    ASSUME Ordered, NEW f \in Flows,
           \A g \in Flows \ {f} : flow'[g] = flow[g] /\ tx'[g] = tx[g],
           OrderedFor(flow'[f], tx'[f])
    PROVE  Ordered'
BY DEF Ordered

\* The steps that send nothing.
LEMMA OrderedQuietly ==
    ASSUME Ordered, NEW f \in Flows, NEW st, NEW ph, NEW nx, Moved(f, st, ph, nx), tx' = tx,
           Rank(flow[f].stage) \in 0 .. 5,
           Rank(st) \in 0 .. 5,
           \/ Rank(flow[f].stage) < Rank(st)
           \/ Rank(flow[f].stage) = Rank(st) /\ ph \notin {"check", "sign"}
           \/ /\ Rank(flow[f].stage) = Rank(st) /\ flow[f].kind = "sdk"
              /\ st \in {"resize", "write"}
           \/ flow[f].kind = "live" /\ flow[f].phase = "check" /\ st = flow[f].stage
    PROVE  Ordered'
<1>1. /\ flow'[f].kind = flow[f].kind /\ flow'[f].stage = st /\ flow'[f].phase = ph
      /\ \A g \in Flows \ {f} : flow'[g] = flow[g]
  BY DEF Moved
<1>2. OrderedFor(flow'[f], tx'[f])
  <2>. SUFFICES ASSUME NEW n \in TxNames, tx[f][n] # "unsent"
                PROVE  \/ Rank(n[1]) < Rank(st)
                       \/ Rank(n[1]) = Rank(st) /\ ph \notin {"check", "sign"}
                       \/ /\ Rank(n[1]) = Rank(st) /\ flow[f].kind = "sdk"
                          /\ st \in {"resize", "write"}
    BY <1>1 DEF OrderedFor
  <2>1. \/ Rank(n[1]) < Rank(flow[f].stage)
        \/ /\ Rank(n[1]) = Rank(flow[f].stage) /\ flow[f].phase \notin {"check", "sign"}
        \/ Rank(n[1]) = Rank(flow[f].stage) /\ flow[f].kind = "sdk"
    BY DEF Ordered, OrderedFor
  <2>2. Rank(n[1]) \in 1 .. 5
    BY RankFacts
  <2>. QED
    BY <2>1, <2>2
<1>. QED
  BY <1>1, <1>2, OrderedIntro

\* The steps that send transactions of the flow's own stage.
LEMMA OrderedSending ==
    ASSUME StateTyped, Ordered, NEW f \in Flows, NEW ph, NEW nx,
           Moved(f, flow[f].stage, ph, nx), ph \in {"wait", "done", "failed"},
           NEW names \in SUBSET TxNames, Sent(f, names),
           \A n \in names : Rank(n[1]) = Rank(flow[f].stage)
    PROVE  Ordered'
<1>1. /\ flow'[f].kind = flow[f].kind /\ flow'[f].stage = flow[f].stage /\ flow'[f].phase = ph
      /\ \A g \in Flows \ {f} : flow'[g] = flow[g]
  BY DEF Moved
<1>2. /\ \A g \in Flows \ {f} : tx'[g] = tx[g]
      /\ \A n \in TxNames : tx'[f][n] = IF n \in names THEN "flight" ELSE tx[f][n]
  BY SentFacts DEF StateTyped
<1>3. OrderedFor(flow'[f], tx'[f])
  <2>. SUFFICES ASSUME NEW n \in TxNames, tx'[f][n] # "unsent"
                PROVE  Rank(n[1]) < Rank(flow[f].stage) \/ Rank(n[1]) = Rank(flow[f].stage)
    BY <1>1 DEF OrderedFor
  <2>1. CASE n \in names
    BY <2>1
  <2>2. CASE n \notin names
    <3>1. tx[f][n] # "unsent"
      BY <1>2, <2>2
    <3>. QED
      BY <3>1 DEF Ordered, OrderedFor
  <2>. QED
    BY <2>1, <2>2
<1>. QED
  BY <1>1, <1>2, <1>3, OrderedIntro

LEMMA OrderedSubmit ==
    ASSUME StateTyped, Ordered, NEW f \in Flows, ClientStep(f) \/ ClientError(f) \/ WalletStep(f)
    PROVE  Ordered'
<1>1. FlowsTyped /\ TxTyped /\ payload \in Payload \cup {NoPayload}
  BY DEF StateTyped
<1>2. \A s \in SubmitStages \cup LateStages : Rank(s) \in 0 .. 5
  BY RankFacts DEF SubmitStages, LateStages
<1>3. CASE EnsureIssuerRegistered(f)
  BY <1>1, <1>3, EnsureFacts, OrderedQuietly, RankFacts
<1>4. CASE CleanupStaleHookPayload(f)
  BY <1>1, <1>4, CleanupFacts, OrderedQuietly, RankFacts
<1>5. CASE Proceed(f)
  <2>1. CASE /\ flow[f].stage = "init" /\ flow[f].next + 1 \in 1 .. Resizes
             /\ Moved(f, "init", "wait", flow[f].next + 1)
             /\ Sent(f, {<<"resize", flow[f].next + 1>>})
    <3>. DEFINE names == {<<"resize", flow[f].next + 1>>}
    <3>1. names \in SUBSET TxNames /\ \A n \in names : n[1] = "resize"
      BY <2>1, TxNamesHas
    <3>2. \A n \in names : Rank(n[1]) = Rank(flow[f].stage)
      BY <2>1, <3>1, RankFacts
    <3>. HIDE DEF names
    <3>3. Sent(f, names)
      BY <2>1 DEF names
    <3>. QED
      <4>1. Moved(f, flow[f].stage, "wait", flow[f].next + 1)
        BY <2>1
      <4>. QED
        BY <4>1, <3>1, <3>2, <3>3, OrderedSending, Zenon
  <2>2. CASE /\ UNCHANGED <<tx, alone>>
             /\ \/ flow[f].stage = "register" /\ Moved(f, "close", "check", 1)
                \/ flow[f].stage = "close" /\ Moved(f, "init", "sign", 1)
                \/ /\ flow[f].stage = "init" /\ flow[f].next = Resizes
                   /\ Moved(f, "write", "sign", 1)
                \/ flow[f].stage = "write" /\ Moved(f, "finalize", "sign", 1)
    BY <2>2, OrderedQuietly, RankFacts
  <2>. QED
    BY <1>1, <1>5, <2>1, <2>2, ProceedFacts
<1>6. CASE PollFinalize(f)
  BY <1>1, <1>6, PollFacts, OrderedQuietly, RankFacts
<1>7. CASE SdkConfirmed(f)
  BY <1>1, <1>7, SdkConfirmedFacts, OrderedQuietly, RankFacts
<1>8. CASE SdkMeasure(f)
  <2>1. /\ flow[f].kind = "sdk" /\ Rank(flow[f].stage) = 3 /\ tx' = tx
        /\ \/ Moved(f, flow[f].stage, "failed", 1)
           \/ Moved(f, "resize", "sign", 1)
           \/ Moved(f, "write", "sign", 1)
    BY <1>1, <1>8, SdkMeasureFacts, RankFacts
  <2>. QED
    BY <2>1, OrderedQuietly, RankFacts
<1>9. CASE Reject(f)
  BY <1>1, <1>2, <1>9, RejectFacts, SigningStages, OrderedQuietly
<1>10. CASE SendFails(f)
  <2>1. PICK names \in SUBSET TxNames :
           /\ Sent(f, names) /\ \A n \in names : n[1] = "write" /\ flow[f].stage = "write"
    BY <1>1, <1>10, SendFailsFacts
  <2>2. Moved(f, flow[f].stage, "failed", 1)
    BY <1>1, <1>10, SendFailsFacts
  <2>3. \A n \in names : Rank(n[1]) = Rank(flow[f].stage)
    BY <2>1
  <2>. QED
    BY <2>1, <2>2, <2>3, OrderedSending, Zenon
<1>11. CASE ConfirmFails(f)
  <2>1. flow[f].stage \in SubmitStages \cup LateStages
    <3>1. flow[f] \in FlowShape /\ flow[f].phase = "wait"
      BY <1>1, <1>11, ConfirmFailsFacts DEF FlowsTyped
    <3>. QED
      BY <3>1, ShapeFacts DEF Phases, Kinds, StageNames, EarlyStages, SubmitStages, LateStages
  <2>. QED
    BY <1>1, <1>2, <1>11, <2>1, ConfirmFailsFacts, OrderedQuietly
<1>12. CASE SignAndSend(f)
  <2>1. /\ SignedNames(flow[f]) \in SUBSET TxNames /\ Sent(f, SignedNames(flow[f]))
        /\ Moved(f, flow[f].stage, "wait", 1)
    BY <1>1, <1>12, SignFacts
  <2>2. \A n \in SignedNames(flow[f]) : n[1] = flow[f].stage
    BY DEF SignedNames
  <2>3. \A n \in SignedNames(flow[f]) : Rank(n[1]) = Rank(flow[f].stage)
    BY <2>2
  <2>. QED
    BY <2>1, <2>3, OrderedSending, Zenon
<1>13. CASE SdkSend(f)
  <2>. DEFINE names == {<<flow[f].stage, flow[f].next>>}
  <2>1. names \in SUBSET TxNames /\ Sent(f, names)
    BY <1>1, <1>13, SdkSendFacts
  <2>2. \A n \in names : n[1] = flow[f].stage
    OBVIOUS
  <2>3. \A n \in names : Rank(n[1]) = Rank(flow[f].stage)
    BY <2>2
  <2>4. \/ Moved(f, flow[f].stage, "done", flow[f].next)
        \/ Moved(f, flow[f].stage, "wait", flow[f].next)
    BY <1>1, <1>13, SdkSendFacts
  <2>. HIDE DEF names
  <2>. QED
    BY <2>1, <2>3, <2>4, OrderedSending, Zenon
<1>. QED
  BY <1>3, <1>4, <1>5, <1>6, <1>7, <1>8, <1>9, <1>10, <1>11, <1>12, <1>13
     DEF ClientStep, ClientError, WalletStep

LEMMA OrderedNext ==
    ASSUME Typed, Ordered, [Next]_vars
    PROVE  Ordered'
<1>1. StateTyped /\ FlowsTyped
  BY DEF Typed, StateTyped
<1>2. CASE UNCHANGED <<flow, tx>>
  BY <1>2 DEF Ordered
<1>3. ASSUME NEW f \in Flows, FlowStep(f) PROVE Ordered'
  <2>1. tx' = tx /\ flow[f].phase = "call"
    BY <1>1, <1>3, FlowStepFacts
  <2>2. \A n \in TxNames : tx[f][n] = "unsent"
    <3>1. flow[f].stage \in {"none", "demo"} \cup EarlyStages
      BY <1>1, <2>1, CallStages
    <3>. QED
      BY <3>1, NothingSent
  <2>3. \A g \in Flows \ {f} : flow'[g] = flow[g]
    BY <1>1, <1>3, FlowStepFacts DEF Moved
  <2>4. OrderedFor(flow'[f], tx'[f])
    BY <2>1, <2>2 DEF OrderedFor
  <2>. QED
    BY <2>1, <2>3, <2>4, OrderedIntro
<1>4. ASSUME NEW f \in Flows, Submit(f) PROVE Ordered'
  BY <1>1, <1>4, OrderedSubmit DEF Submit
<1>5. ASSUME NEW f \in Flows, Network(f) PROVE Ordered'
  <2>1. PICK n \in TxNames : Land(f, n) \/ Expire(f, n)
    BY <1>5 DEF Network, NetworkStep
  <2>2. /\ tx[f][n] = "flight" /\ flow' = flow
        /\ \A m \in TxNames \ {n} : tx'[f][m] = tx[f][m]
        /\ \A g \in Flows \ {f} : tx'[g] = tx[g]
    BY <1>1, <2>1, LandFacts, ExpireFacts
  <2>3. OrderedFor(flow'[f], tx'[f])
    BY <2>2 DEF Ordered, OrderedFor
  <2>. QED
    BY <2>2, <2>3, OrderedIntro
<1>6. ASSUME NEW f \in Flows, tx' = tx, flow[f].stage = "none",
             \A g \in Flows \ {f} : flow'[g] = flow[g]
      PROVE  Ordered'
  <2>1. \A n \in TxNames : tx[f][n] = "unsent"
    BY <1>6, NothingSent
  <2>2. OrderedFor(flow'[f], tx'[f])
    BY <1>6, <2>1 DEF OrderedFor
  <2>. QED
    BY <1>6, <2>2, OrderedIntro
<1>7. CASE Upload
  BY <1>1, <1>6, <1>7, UploadFacts DEF Began
<1>8. ASSUME NEW wallet \in Wallets, RunLive(wallet) \/ RunDemo(wallet) PROVE Ordered'
  BY <1>2, <1>6, <1>8, RunFacts DEF Began
<1>9. CASE Reset \/ Remount
  BY <1>2, <1>9 DEF Reset, Remount, uvars
<1>10. CASE UNCHANGED vars
  BY <1>2, <1>10 DEF vars, uvars
<1>. QED
  BY <1>3, <1>4, <1>5, <1>7, <1>8, <1>9, <1>10 DEF Next

-----------------------------------------------------------------------------
(* Settled is inductive.                                                   *)

\* What a step of the submit stage does to the chain: it sends transactions of
\* the flow's stage, finalize only once, and then nobody else stays alone who
\* has no payload completed.
LEMMA SubmitChain ==
    ASSUME StateTyped, Ordered, NEW f \in Flows, ClientStep(f) \/ ClientError(f) \/ WalletStep(f)
    PROVE  /\ UNCHANGED <<issuer, payload, staged>>
           /\ \A g \in Flows \ {f} : tx'[g] = tx[g]
           /\ \A n \in TxNames : tx'[f][n] # tx[f][n] =>
                 /\ tx'[f][n] = "flight" /\ Rank(n[1]) = Rank(flow[f].stage)
                 /\ n = Finalize => tx[f][n] = "unsent"
           /\ alone'[f] = alone[f]
           /\ \A g \in Flows \ {f} :
                 alone'[g] => alone[g] /\ (staged[g] # NoPayload \/ tx'[f] = tx[f])
           /\ \A g \in Flows \ {f} : faulty'[g] = faulty[g]
           /\ ~faulty'[f] => ~faulty[f]
<1>1. FlowsTyped /\ TxTyped /\ payload \in Payload \cup {NoPayload}
  BY DEF StateTyped
<1>2. ASSUME NEW names \in SUBSET TxNames, Sent(f, names),
             \A n \in names : Rank(n[1]) = Rank(flow[f].stage),
             Finalize \in names => flow[f].stage = "finalize" /\ flow[f].phase = "sign"
      PROVE  /\ \A g \in Flows \ {f} : tx'[g] = tx[g]
             /\ \A n \in TxNames : tx'[f][n] # tx[f][n] =>
                   /\ tx'[f][n] = "flight" /\ Rank(n[1]) = Rank(flow[f].stage)
                   /\ n = Finalize => tx[f][n] = "unsent"
             /\ alone'[f] = alone[f]
             /\ \A g \in Flows \ {f} :
                   alone'[g] => alone[g] /\ (staged[g] # NoPayload \/ tx'[f] = tx[f])
  <2>1. /\ \A g \in Flows \ {f} : tx'[g] = tx[g]
        /\ \A n \in TxNames : tx'[f][n] = IF n \in names THEN "flight" ELSE tx[f][n]
        /\ alone'[f] = alone[f]
        /\ \A g \in Flows \ {f} : alone'[g] => alone[g] /\ staged[g] # NoPayload
    BY <1>1, <1>2, SentFacts
  <2>2. ASSUME Finalize \in names PROVE tx[f][Finalize] = "unsent"
    <3>1. flow[f].stage = "finalize" /\ flow[f].phase = "sign"
      BY <1>2, <2>2
    <3>2. Finalize \in TxNames /\ Finalize[1] = "finalize"
      BY TxNamesHas DEF Finalize
    <3>3. OrderedFor(flow[f], tx[f])
      BY DEF Ordered
    <3>. QED
      BY <3>1, <3>2, <3>3, RankFacts DEF OrderedFor
  <2>3. \A n \in TxNames : tx'[f][n] # tx[f][n] =>
                   /\ tx'[f][n] = "flight" /\ Rank(n[1]) = Rank(flow[f].stage)
                   /\ n = Finalize => tx[f][n] = "unsent"
    BY <1>2, <2>1, <2>2
  <2>. QED
    BY <2>1, <2>3
<1>3. /\ UNCHANGED <<faults, faulty>> => \A g \in Flows : faulty'[g] = faulty[g]
      /\ Fault(f) => faulty'[f] /\ \A g \in Flows \ {f} : faulty'[g] = faulty[g]
  BY FaultFacts
<1>4. Finalize = <<"finalize", 1>>
  BY DEF Finalize
<1>5. CASE EnsureIssuerRegistered(f)
  BY <1>1, <1>5, EnsureFacts
<1>6. CASE CleanupStaleHookPayload(f)
  BY <1>1, <1>6, CleanupFacts
<1>7. CASE Proceed(f)
  <2>1. UNCHANGED <<issuer, payload, faults, faulty, staged>>
    BY <1>1, <1>7, ProceedFacts
  <2>2. CASE /\ flow[f].stage = "init" /\ flow[f].next + 1 \in 1 .. Resizes
             /\ Sent(f, {<<"resize", flow[f].next + 1>>})
    <3>. DEFINE names == {<<"resize", flow[f].next + 1>>}
    <3>1. names \in SUBSET TxNames /\ \A n \in names : n[1] = "resize"
      BY <2>2, TxNamesHas
    <3>2. (\A n \in names : Rank(n[1]) = Rank(flow[f].stage)) /\ Finalize \notin names
      BY <1>4, <2>2, <3>1, RankFacts
    <3>3. Sent(f, names)
      BY <2>2
    <3>. HIDE DEF names
    <3>. QED
      BY <1>2, <1>3, <2>1, <3>1, <3>2, <3>3
  <2>3. CASE UNCHANGED <<tx, alone>>
    BY <1>3, <2>1, <2>3
  <2>. QED
    BY <1>1, <1>7, <2>2, <2>3, ProceedFacts
<1>8. CASE PollFinalize(f)
  BY <1>1, <1>8, PollFacts
<1>9. CASE SdkConfirmed(f)
  BY <1>1, <1>9, SdkConfirmedFacts
<1>10. CASE SdkMeasure(f)
  BY <1>1, <1>10, SdkMeasureFacts
<1>11. CASE Reject(f)
  BY <1>1, <1>3, <1>11, RejectFacts
<1>12. CASE SendFails(f)
  <2>1. PICK names \in SUBSET TxNames :
           /\ Sent(f, names) /\ \A n \in names : n[1] = "write" /\ flow[f].stage = "write"
    BY <1>1, <1>12, SendFailsFacts
  <2>2. (\A n \in names : Rank(n[1]) = Rank(flow[f].stage)) /\ Finalize \notin names
    BY <1>4, <2>1
  <2>3. Fault(f) /\ UNCHANGED <<issuer, payload, staged>>
    BY <1>1, <1>12, SendFailsFacts
  <2>. QED
    BY <1>2, <1>3, <2>1, <2>2, <2>3
<1>13. CASE ConfirmFails(f)
  BY <1>1, <1>3, <1>13, ConfirmFailsFacts
<1>14. CASE SignAndSend(f)
  <2>1. /\ SignedNames(flow[f]) \in SUBSET TxNames /\ Sent(f, SignedNames(flow[f]))
        /\ flow[f].phase = "sign" /\ UNCHANGED <<issuer, payload, faults, faulty, staged>>
    BY <1>1, <1>14, SignFacts
  <2>2. \A n \in SignedNames(flow[f]) : n[1] = flow[f].stage
    BY DEF SignedNames
  <2>3. /\ \A n \in SignedNames(flow[f]) : Rank(n[1]) = Rank(flow[f].stage)
        /\ Finalize \in SignedNames(flow[f]) => flow[f].stage = "finalize"
    BY <1>4, <2>2
  <2>. QED
    BY <1>2, <1>3, <2>1, <2>3
<1>15. CASE SdkSend(f)
  <2>. DEFINE names == {<<flow[f].stage, flow[f].next>>}
  <2>1. /\ names \in SUBSET TxNames /\ Sent(f, names) /\ flow[f].phase = "sign"
        /\ UNCHANGED <<issuer, payload, faults, faulty, staged>>
    BY <1>1, <1>15, SdkSendFacts
  <2>2. \A n \in names : n[1] = flow[f].stage
    OBVIOUS
  <2>3. /\ \A n \in names : Rank(n[1]) = Rank(flow[f].stage)
        /\ Finalize \in names => flow[f].stage = "finalize"
    BY <1>4, <2>2
  <2>. HIDE DEF names
  <2>. QED
    BY <1>2, <1>3, <2>1, <2>3
<1>. QED
  BY <1>5, <1>6, <1>7, <1>8, <1>9, <1>10, <1>11, <1>12, <1>13, <1>14, <1>15
     DEF ClientStep, ClientError, WalletStep

\* What landing and expiry of a transaction do to the flow's finalize.
LEMMA CompletedNetwork ==
    ASSUME StateTyped, NEW f \in Flows, NEW n \in TxNames, Land(f, n) \/ Expire(f, n),
           \A g \in Flows : CompletedFor(tx[g], staged[g])
    PROVE  \A g \in Flows : /\ CompletedFor(tx'[g], staged'[g])
                            /\ tx[g][Finalize] = "ok" => tx'[g][Finalize] = "ok"
<1>1. Finalize \in TxNames
  BY TxNamesHas
<1>2. n = Finalize <=> n[1] = "finalize"
  BY TxNameFacts DEF Finalize
<1>3. CASE Expire(f, n)
  BY <1>1, <1>3, ExpireFacts DEF CompletedFor
<1>4. CASE Land(f, n)
  <2>1. /\ tx[f][n] = "flight"
        /\ tx'[f][n] = IF Succeeds(n) THEN "ok" ELSE "err"
        /\ \A m \in TxNames \ {n} : tx'[f][m] = tx[f][m]
        /\ \A g \in Flows \ {f} : tx'[g] = tx[g] /\ staged'[g] = staged[g]
        /\ staged'[f] = IF Succeeds(n) /\ n[1] = "finalize" THEN Effect(f, n) ELSE staged[f]
    BY <1>4, LandFacts
  <2>2. CASE n = Finalize /\ Succeeds(n)
    <3>1. /\ Effect(f, n) \in Payload /\ Effect(f, n).finalized
          /\ Effect(f, n).high_water_mark = LEN
      BY <1>2, <2>2, EffectFacts DEF StateTyped
    <3>2. CompletedFor(tx'[f], staged'[f]) /\ tx[f][Finalize] # "ok"
      BY <1>2, <2>1, <2>2, <3>1, PayloadsAreSome DEF CompletedFor
    <3>. QED
      BY <2>1, <3>2
  <2>3. CASE n = Finalize /\ ~Succeeds(n)
    BY <2>1, <2>3 DEF CompletedFor
  <2>4. CASE n # Finalize
    BY <1>1, <1>2, <2>1, <2>4 DEF CompletedFor
  <2>. QED
    BY <2>2, <2>3, <2>4
<1>. QED
  BY <1>3, <1>4

\* A live flow is done only by way of PollFinalize.
LEMMA OnlyPollIsDone ==
    ASSUME FlowsTyped, NEW f \in Flows, ClientStep(f) \/ ClientError(f) \/ WalletStep(f),
           flow[f].kind = "live", ~PollFinalize(f)
    PROVE  flow'[f].phase # "done"
<1>1. CASE EnsureIssuerRegistered(f)
  BY <1>1, EnsureFacts DEF Moved
<1>2. CASE CleanupStaleHookPayload(f)
  BY <1>2, CleanupFacts DEF Moved
<1>3. CASE Proceed(f)
  BY <1>3, ProceedFacts DEF Moved
<1>4. CASE ClientError(f)
  BY <1>4, RejectFacts, SendFailsFacts, ConfirmFailsFacts DEF ClientError, Moved
<1>5. CASE SignAndSend(f)
  BY <1>5, SignFacts DEF Moved
<1>6. ~SdkConfirmed(f) /\ ~SdkMeasure(f) /\ ~SdkSend(f)
  BY DEF SdkConfirmed, SdkMeasure, SdkSend
<1>. QED
  BY <1>1, <1>2, <1>3, <1>4, <1>5, <1>6 DEF ClientStep, WalletStep

\* A page that shows an error, or a step that runs, is not done.
LEMMA NotDone ==
    ASSUME NEW k \in 0 .. 4, NEW st
    PROVE  Shown(k, st)[5] # "success"
BY DEF Shown, STEPS

LEMMA SettledNext ==
    ASSUME Typed, Page, Ordered, Settled, [Next]_vars
    PROVE  Settled'
<1>1. StateTyped /\ PageTyped /\ FlowsTyped
  BY DEF Typed, StateTyped
<1>2. \A f \in Flows : CompletedFor(tx[f], staged[f])
  BY DEF Settled
<1>3. SaysVerified <=> ui.steps[5] = "success" /\ ui.mode = "live"
  BY DEF SaysVerified, SummaryShown, isDone
<1>4. SaysVerified' <=> ui'.steps[5] = "success" /\ ui'.mode = "live"
  BY DEF SaysVerified, SummaryShown, isDone
\* A flow moves that was alive; the others, the verified one among them, stay.
<1>5. ASSUME NEW f \in Flows, Alive(f), \A g \in Flows \ {f} : flow'[g] = flow[g],
             flow'[f].kind = flow[f].kind,
             flow'[f].kind = "live" /\ flow'[f].phase = "done" => tx'[f][Finalize] = "ok",
             \A g \in Flows : /\ CompletedFor(tx'[g], staged'[g])
                              /\ tx[g][Finalize] = "ok" => tx'[g][Finalize] = "ok",
             \/ ui' = ui \/ ui'.steps[5] # "success" \/ ui'.mode # "live"
             \/ /\ ui'.txSignature = f /\ flow'[f].kind = "live" /\ flow'[f].phase = "done"
      PROVE  Settled'
  <2>1. \A g \in Flows :
           flow'[g].kind = "live" /\ flow'[g].phase = "done" => tx'[g][Finalize] = "ok"
    BY <1>5 DEF Settled
  <2>2. ASSUME SaysVerified'
        PROVE  /\ ui'.txSignature \in Flows
               /\ flow'[ui'.txSignature].kind = "live" /\ flow'[ui'.txSignature].phase = "done"
    <3>1. CASE ui'.txSignature = f /\ flow'[f].kind = "live" /\ flow'[f].phase = "done"
      BY <3>1
    <3>2. CASE ui' = ui
      <4>1. /\ ui.txSignature \in Flows
            /\ flow[ui.txSignature].kind = "live" /\ flow[ui.txSignature].phase = "done"
        BY <1>3, <1>4, <2>2, <3>2 DEF Settled
      <4>2. ui.txSignature # f
        BY <1>5, <4>1 DEF Alive
      <4>. QED
        BY <1>5, <3>2, <4>1, <4>2
    <3>. QED
      BY <1>4, <1>5, <2>2, <3>1, <3>2
  <2>. QED
    BY <1>5, <2>1, <2>2 DEF Settled
<1>6. ASSUME NEW f \in Flows, FlowStep(f) PROVE Settled'
  <2>1. Alive(f) /\ tx' = tx /\ staged' = staged /\ flow[f].phase = "call"
    BY <1>1, <1>6, FlowStepFacts DEF Alive
  <2>2. /\ \A g \in Flows \ {f} : flow'[g] = flow[g]
        /\ flow'[f].kind = flow[f].kind
        /\ flow'[f].kind = "live" => flow'[f].phase # "done"
    BY <1>1, <1>6, FlowStepFacts DEF Moved
  <2>3. owner[f] = mount => /\ ui \in UiState /\ ui.mode = flow[f].kind
                            /\ ui.steps = Shown(StepOf(flow[f].stage), "running")
    BY <1>1, <2>1, MineShows
  <2>4. ui' = ui \/ ui'.steps[5] # "success" \/ ui'.mode # "live"
    <3>1. CASE owner[f] # mount
      BY <1>1, <1>6, <3>1, FlowStepFacts DEF Dispatch, ErrorShown
    <3>2. ASSUME owner[f] = mount, NEW i \in 1 .. 3, StepOf(flow[f].stage) = i,
                 Dispatch(f, Pass(ui, i))
          PROVE  ui'.steps[5] # "success"
      <4>1. ui'.steps = Shown(i + 1, "running")
        BY <2>3, <3>2, PassShows DEF Dispatch
      <4>. QED
        BY <4>1, NotDone
    <3>3. ASSUME owner[f] = mount, flow[f].kind = "demo", flow[f].stage = "demo",
                 Dispatch(f, StepSuccess(Pass(Pass(ui, 3), 4), 5))
          PROVE  ui'.mode # "live"
      <4>1. ui \in UiState /\ ui.steps = Shown(3, "running") /\ ui.mode = "demo"
        BY <2>3, <3>3 DEF StepOf
      <4>2. /\ Pass(ui, 3) \in UiState /\ Pass(ui, 3).steps = Shown(4, "running")
            /\ Pass(ui, 3).mode = "demo"
        BY <4>1, PassShows
      <4>3. /\ Pass(Pass(ui, 3), 4) \in UiState
            /\ Pass(Pass(ui, 3), 4).steps = Shown(5, "running")
            /\ Pass(Pass(ui, 3), 4).mode = "demo"
        BY <4>2, PassShows
      <4>4. StepSuccess(Pass(Pass(ui, 3), 4), 5).mode = "demo" /\ 5 \in STEPS
        BY <4>3, StepSuccessShows DEF STEPS
      <4>. QED
        BY <3>3, <4>4 DEF Dispatch
    <3>4. ASSUME owner[f] = mount, ErrorShown(f) PROVE ui'.steps[5] # "success"
      <4>1. ui'.steps = Shown(StepOf(flow[f].stage), "error")
        BY <1>1, <2>1, <3>4, ErrorOnPage
      <4>. QED
        BY <4>1, NotDone, StepOfIsStep
    <3>. QED
      BY <1>1, <1>6, <3>1, <3>2, <3>3, <3>4, FlowStepFacts DEF StepOf
  <2>. QED
    BY <1>2, <1>5, <2>1, <2>2, <2>4
<1>7. ASSUME NEW f \in Flows, Submit(f) PROVE Settled'
  <2>1. ClientStep(f) \/ ClientError(f) \/ WalletStep(f)
    BY <1>7 DEF Submit
  <2>2. Alive(f) /\ flow[f].kind \in {"live", "sdk"}
    BY <1>1, <2>1, SubmitFacts
  <2>3. PICK st, ph, nx : /\ Moved(f, st, ph, nx)
                          /\ flow[f].kind = "live" => flow[f].stage \in SubmitStages
    BY <1>1, <2>1, SubmitFacts
  <2>4. /\ \A g \in Flows \ {f} : flow'[g] = flow[g]
        /\ flow'[f].kind = flow[f].kind /\ flow'[f].phase = ph
    BY <2>3 DEF Moved
  <2>5. /\ staged' = staged /\ \A g \in Flows \ {f} : tx'[g] = tx[g]
        /\ tx'[f][Finalize] # tx[f][Finalize] =>
              tx'[f][Finalize] = "flight" /\ tx[f][Finalize] = "unsent"
    BY <1>1, <2>1, SubmitChain, TxNamesHas
  <2>6. \A g \in Flows : /\ CompletedFor(tx'[g], staged'[g])
                         /\ tx[g][Finalize] = "ok" => tx'[g][Finalize] = "ok"
    BY <1>2, <2>5 DEF CompletedFor
  <2>7. ASSUME flow'[f].kind = "live", flow'[f].phase = "done" PROVE tx'[f][Finalize] = "ok"
    <3>1. CASE PollFinalize(f)
      BY <1>1, <2>7, <3>1, PollFacts DEF Moved
    <3>2. CASE ~PollFinalize(f)
      <4>1. flow'[f].phase # "done"
        BY <1>1, <2>1, <2>4, <2>7, <3>2, OnlyPollIsDone
      <4>. QED
        BY <2>7, <4>1
    <3>. QED
      BY <3>1, <3>2
  <2>8. \/ ui' = ui \/ ui'.steps[5] # "success" \/ ui'.mode # "live"
        \/ ui'.txSignature = f /\ flow'[f].kind = "live" /\ flow'[f].phase = "done"
    <3>1. CASE ui' = ui
      BY <3>1
    <3>2. CASE ui' # ui
      <4>1. flow[f].kind = "live" /\ owner[f] = mount /\ ph \in {"done", "failed"}
        BY <1>7, <2>2, <2>4, <3>2 DEF Submit, Dispatch
      <4>2. ui \in UiState /\ ui.steps = Shown(4, "running")
        BY <1>1, <2>2, <2>3, <4>1, MineShows DEF SubmitStages, StepOf
      <4>3. CASE ph = "done"
        <5>1. ui' = Confirm(f)
          BY <1>7, <2>4, <4>1, <4>3 DEF Submit, Dispatch
        <5>. QED
          BY <2>4, <4>1, <4>2, <4>3, <5>1, ConfirmShows
      <4>4. CASE ph = "failed"
        <5>1. ui' = StepError(ui, 4)
          BY <1>7, <2>4, <4>1, <4>4 DEF Submit, Dispatch, SubmitError
        <5>2. ui'.steps = Shown(4, "error")
          BY <4>2, <5>1, StepErrorShows DEF STEPS
        <5>. QED
          BY <5>2, NotDone
      <4>. QED
        BY <4>1, <4>3, <4>4
    <3>. QED
      BY <3>1, <3>2
  <2>. QED
    BY <1>5, <2>2, <2>4, <2>6, <2>7, <2>8
<1>8. ASSUME NEW f \in Flows, Network(f) PROVE Settled'
  <2>1. PICK n \in TxNames : Land(f, n) \/ Expire(f, n)
    BY <1>8 DEF Network, NetworkStep
  <2>2. flow' = flow /\ ui' = ui
    BY <1>8, <2>1 DEF Network, Land, Expire
  <2>3. \A g \in Flows : /\ CompletedFor(tx'[g], staged'[g])
                         /\ tx[g][Finalize] = "ok" => tx'[g][Finalize] = "ok"
    BY <1>1, <1>2, <2>1, CompletedNetwork
  <2>. QED
    BY <1>3, <1>4, <2>2, <2>3 DEF Settled
<1>9. ASSUME NEW f \in Flows, flow[f].kind = "none", flow[f].phase = "off",
             \A g \in Flows \ {f} : flow'[g] = flow[g], flow'[f].phase # "done",
             UNCHANGED <<tx, staged>>, ui' = ui \/ ui'.steps[5] # "success"
      PROVE  Settled'
  <2>1. \A g \in Flows :
           flow'[g].kind = "live" /\ flow'[g].phase = "done" => tx'[g][Finalize] = "ok"
    BY <1>9 DEF Settled
  <2>2. ASSUME SaysVerified'
        PROVE  /\ ui'.txSignature \in Flows
               /\ flow'[ui'.txSignature].kind = "live" /\ flow'[ui'.txSignature].phase = "done"
    BY <1>3, <1>4, <1>9, <2>2 DEF Settled
  <2>. QED
    BY <1>9, <2>1, <2>2 DEF Settled
<1>10. CASE Upload
  <2>1. PICK f \in Flows : /\ Began(f, "sdk", "init", "sign")
                           /\ UNCHANGED <<issuer, payload, tx, faults, faulty, staged>>
                           /\ UNCHANGED <<ui, mount, owner, running>>
    BY <1>1, <1>10, UploadFacts
  <2>. QED
    BY <1>9, <2>1 DEF Began
<1>11. ASSUME NEW wallet \in Wallets, RunLive(wallet) \/ RunDemo(wallet) PROVE Settled'
  <2>1. UNCHANGED <<tx, staged>>
    BY <1>11, RunFacts
  <2>2. ui'.steps[5] # "success"
    <3>1. \/ \E k \in 0 .. 1 : ui'.steps = Shown(k, "error")
          \/ \E k \in {1, 3} : ui'.steps = Shown(k, "running")
      BY <1>11, RunFacts
    <3>2. PICK k, st : k \in 0 .. 4 /\ ui'.steps = Shown(k, st)
      BY <3>1
    <3>. QED
      BY <3>2, NotDone
  <2>3. CASE UNCHANGED flow
    BY <1>4, <2>1, <2>2, <2>3 DEF Settled
  <2>4. CASE \E f \in Flows, kind \in {"live", "demo"} : \E st : Began(f, kind, st, "call")
    BY <1>9, <2>1, <2>2, <2>4 DEF Began
  <2>. QED
    BY <1>11, <2>3, <2>4, RunFacts
<1>12. CASE Reset \/ Remount
  <2>1. UNCHANGED <<tx, staged, flow>> /\ ui' = InitialState
    BY <1>12 DEF Reset, Remount, uvars
  <2>2. ui'.steps[5] # "success"
    BY <2>1, InitialShows, NotDone
  <2>. QED
    BY <1>4, <2>1, <2>2 DEF Settled
<1>13. CASE UNCHANGED vars
  BY <1>3, <1>4, <1>13 DEF Settled, vars, uvars
<1>. QED
  BY <1>6, <1>7, <1>8, <1>10, <1>11, <1>12, <1>13 DEF Next

-----------------------------------------------------------------------------
(* Own is inductive.                                                       *)

\* The stages that a step of the submit stage leads to: close from register,
\* and init only without a payload, or after the close was confirmed.
LEMMA SubmitStage ==
    ASSUME StateTyped, NEW f \in Flows, ClientStep(f) \/ ClientError(f) \/ WalletStep(f)
    PROVE  /\ flow'[f].kind = flow[f].kind /\ flow'[f].stage \notin EarlyStages
           /\ flow'[f].stage = "close" => flow[f].stage \in {"register", "close"}
           /\ flow'[f].stage \in LateStages /\ flow[f].stage \notin LateStages =>
                 \/ payload = NoPayload
                 \/ flow[f].stage = "close" /\ tx[f][CloseTx] \in {"ok", "err"}
<1>1. FlowsTyped /\ payload \in Payload \cup {NoPayload}
  BY DEF StateTyped
<1>2. PICK st, ph, nx : /\ Moved(f, st, ph, nx)
                        /\ flow[f].kind = "live" =>
                             flow[f].stage \in SubmitStages /\ st \in SubmitStages
  BY SubmitFacts
<1>3. /\ flow'[f].kind = flow[f].kind /\ flow'[f] \in FlowShape /\ flow[f] \in FlowShape
      /\ flow'[f].stage = st
  BY <1>1, <1>2 DEF Moved, FlowsTyped
<1>4. CASE flow[f].kind = "sdk"
  <2>1. flow[f].stage \in LateStages /\ flow'[f].stage \in LateStages
    BY <1>3, <1>4, ShapeFacts DEF Phases, LateStages
  <2>. QED
    BY <1>3, <2>1 DEF LateStages, EarlyStages
<1>5. CASE flow[f].kind = "live"
  <2>1. flow'[f].stage \in SubmitStages /\ flow[f].stage \in SubmitStages
    BY <1>2, <1>3, <1>5
  <2>2. flow'[f].stage \notin EarlyStages
    BY <2>1 DEF SubmitStages, EarlyStages
  <2>3. CASE EnsureIssuerRegistered(f)
    BY <1>1, <1>3, <2>2, <2>3, EnsureFacts DEF Moved, LateStages
  <2>4. CASE CleanupStaleHookPayload(f)
    BY <1>1, <1>3, <2>2, <2>4, CleanupFacts DEF Moved, LateStages
  <2>5. CASE Proceed(f)
    <3>1. flow[f].stage = "close" => tx[f][CloseTx] \in {"ok", "err"}
      BY <1>1, <1>3, <1>5, <2>5, ProceedFacts, AwaitedFacts DEF CloseTx
    <3>2. /\ flow[f].stage = "register" => flow'[f].stage = "close"
          /\ flow[f].stage \in {"init", "write"} => flow'[f].stage \in {"init", "write", "finalize"}
          /\ flow[f].stage = "close" => flow'[f].stage = "init"
          /\ flow[f].stage \in {"register", "close", "init", "write"}
      BY <1>1, <2>5, ProceedFacts DEF Moved
    <3>. QED
      BY <1>3, <2>2, <3>1, <3>2 DEF LateStages
  <2>6. CASE PollFinalize(f) \/ ClientError(f) \/ SignAndSend(f)
    <3>1. flow'[f].stage = flow[f].stage
      BY <1>1, <2>6, PollFacts, RejectFacts, SendFailsFacts, ConfirmFailsFacts, SignFacts
         DEF ClientError, Moved
    <3>. QED
      BY <1>3, <2>2, <3>1
  <2>7. ~SdkConfirmed(f) /\ ~SdkMeasure(f) /\ ~SdkSend(f)
    BY <1>5 DEF SdkConfirmed, SdkMeasure, SdkSend
  <2>. QED
    BY <2>3, <2>4, <2>5, <2>6, <2>7 DEF ClientStep, WalletStep
<1>. QED
  BY <1>4, <1>5, SubmitFacts

LEMMA OwnSubmit ==
    ASSUME StateTyped, Ordered, Own, NEW h \in Flows,
           ClientStep(h) \/ ClientError(h) \/ WalletStep(h)
    PROVE  Own'
<1>1. /\ UNCHANGED <<issuer, payload, staged>>
      /\ \A g \in Flows \ {h} : tx'[g] = tx[g]
      /\ \A n \in TxNames : tx'[h][n] # tx[h][n] => tx'[h][n] = "flight"
      /\ alone'[h] = alone[h]
      /\ \A g \in Flows \ {h} :
            alone'[g] => alone[g] /\ (staged[g] # NoPayload \/ tx'[h] = tx[h])
  BY SubmitChain
<1>2. \A g \in Flows \ {h} : flow'[g] = flow[g]
  BY SubmitFacts DEF Moved
<1>3. ASSUME NEW f \in Flows, f # h, alone'[f] PROVE OwnFor(f)'
  <2>1. OwnFor(f) /\ (staged[f] # NoPayload \/ tx'[h] = tx[h])
    BY <1>1, <1>3 DEF Own
  <2>2. flow'[f] = flow[f] /\ tx'[f] = tx[f]
    BY <1>1, <1>2, <1>3
  <2>3. CASE staged[f] # NoPayload
    BY <1>1, <2>1, <2>2, <2>3 DEF OwnFor
  <2>4. CASE staged[f] = NoPayload
    <3>1. \A g \in Flows : InFlight(g)' = InFlight(g)
      BY <1>1, <2>1, <2>4 DEF InFlight
    <3>. QED
      BY <1>1, <2>1, <2>2, <2>4, <3>1 DEF OwnFor
  <2>. QED
    BY <2>3, <2>4
<1>4. ASSUME alone'[h] PROVE OwnFor(h)'
  <2>1. OwnFor(h)
    BY <1>1, <1>4 DEF Own
  <2>2. /\ flow'[h].kind = flow[h].kind /\ flow'[h].stage \notin EarlyStages
        /\ flow'[h].stage = "close" => flow[h].stage \in {"register", "close"}
        /\ flow'[h].stage \in LateStages /\ flow[h].stage \notin LateStages =>
              \/ payload = NoPayload
              \/ flow[h].stage = "close" /\ tx[h][CloseTx] \in {"ok", "err"}
    BY SubmitStage
  <2>3. \A g \in Flows \ {h} : InFlight(g)' = InFlight(g)
    BY <1>1 DEF InFlight
  <2>4. ASSUME staged[h] = NoPayload, flow'[h].stage \in LateStages
        PROVE  OwnChunks(h, payload)
    BY <2>1, <2>2, <2>4 DEF OwnFor, OwnChunks
  <2>5. ASSUME staged[h] = NoPayload, flow'[h].stage = "close", tx'[h][CloseTx] \in {"ok", "err"}
        PROVE  payload = NoPayload
    <3>1. CloseTx \in TxNames /\ CloseTx[1] = "close"
      BY TxNamesHas DEF CloseTx
    <3>2. tx[h][CloseTx] \in {"ok", "err"}
      BY <1>1, <2>5, <3>1
    <3>3. flow[h].stage # "register"
      BY <3>1, <3>2, RankFacts DEF Ordered, OrderedFor
    <3>. QED
      BY <2>1, <2>2, <2>5, <3>2, <3>3 DEF OwnFor
  <2>. QED
    BY <1>1, <2>1, <2>2, <2>3, <2>4, <2>5 DEF OwnFor
<1>. QED
  BY <1>3, <1>4 DEF Own

\* A write of f extends the chunks of f; a finalize takes them all.
LEMMA OwnEffect ==
    ASSUME StateTyped, NEW f \in Flows, NEW n \in TxNames, Succeeds(n),
           OwnChunks(f, payload) \/ n[1] \in {"close", "init"}, n[1] # "register"
    PROVE  /\ OwnChunks(f, Effect(f, n))
           /\ n[1] = "finalize" => WholeOwn(f, Effect(f, n))
<1>1. payload \in Payload \cup {NoPayload} /\ FlowsTyped /\ n[1] \in TxKinds
  BY TxNameFacts DEF StateTyped
<1>2. LEN \in Nat \ {0}
  BY Sizes
<1>3. CASE n[1] \in {"close", "init"}
  <2>1. Effect(f, n) = NoPayload \/ Effect(f, n).high_water_mark = 0
    BY <1>1, <1>3, EffectFacts
  <2>. QED
    BY <1>3, <2>1 DEF OwnChunks
<1>4. CASE n[1] = "resize"
  BY <1>1, <1>4, EffectFacts, PayloadsAreSome DEF OwnChunks
<1>5. CASE n[1] = "write"
  <2>1. /\ payload \in Payload /\ payload.high_water_mark = WriteFrom(n[2])
        /\ Effect(f, n).high_water_mark = WriteTo(n[2])
        /\ \A i \in 1 .. LEN :
              Effect(f, n).data[i] =
                 IF i \in WriteFrom(n[2]) + 1 .. WriteTo(n[2]) THEN f ELSE payload.data[i]
    BY <1>1, <1>5, EffectFacts
  <2>2. WriteTo(n[2]) \in 0 .. LEN /\ WriteFrom(n[2]) \in Nat
    BY <1>5, TxNameFacts, WriteBounds
  <2>3. \A i \in 1 .. WriteFrom(n[2]) : payload.data[i] = f
    BY <1>5, <2>1, PayloadsAreSome DEF OwnChunks
  <2>4. \A i \in 1 .. WriteTo(n[2]) : Effect(f, n).data[i] = f
    <3>. TAKE i \in 1 .. WriteTo(n[2])
    <3>1. i \in 1 .. LEN
      BY <1>2, <2>2
    <3>2. CASE i \in WriteFrom(n[2]) + 1 .. WriteTo(n[2])
      BY <2>1, <3>1, <3>2
    <3>3. CASE i \notin WriteFrom(n[2]) + 1 .. WriteTo(n[2])
      <4>1. i \in 1 .. WriteFrom(n[2])
        BY <2>2, <3>3
      <4>. QED
        BY <2>1, <2>3, <3>1, <3>3, <4>1
    <3>. QED
      BY <3>2, <3>3
  <2>. QED
    BY <1>5, <2>1, <2>4 DEF OwnChunks
<1>6. CASE n[1] = "finalize"
  <2>1. /\ payload \in Payload /\ payload.high_water_mark = LEN
        /\ Effect(f, n).high_water_mark = LEN
        /\ Effect(f, n).data = payload.data /\ Effect(f, n).claim = f
    BY <1>1, <1>6, EffectFacts
  <2>2. \A i \in 1 .. LEN : payload.data[i] = f
    BY <1>6, <2>1, PayloadsAreSome DEF OwnChunks
  <2>3. payload.data \in [1 .. LEN -> Flows \cup {0}]
    BY <2>1 DEF Payload
  <2>4. payload.data = [i \in 1 .. LEN |-> f]
    BY <2>2, <2>3
  <2>. QED
    BY <2>1, <2>2, <2>4 DEF OwnChunks, WholeOwn
<1>. QED
  BY <1>1, <1>3, <1>4, <1>5, <1>6 DEF TxKinds

LEMMA OwnNetwork ==
    ASSUME StateTyped, Ordered, Settled, Own, NEW h \in Flows, NEW n \in TxNames,
           Land(h, n) \/ Expire(h, n)
    PROVE  Own'
<1>1. /\ tx[h][n] = "flight" /\ UNCHANGED <<flow, alone>>
      /\ \A m \in TxNames \ {n} : tx'[h][m] = tx[h][m]
      /\ \A g \in Flows \ {h} : tx'[g] = tx[g] /\ staged'[g] = staged[g]
  BY LandFacts, ExpireFacts
<1>2. n \in InFlight(h)
  BY <1>1 DEF InFlight
<1>3. ASSUME NEW f \in Flows, f # h, alone'[f] PROVE OwnFor(f)'
  <2>1. OwnFor(f)
    BY <1>1, <1>3 DEF Own
  <2>2. staged[f] # NoPayload
    BY <1>2, <1>3, <2>1 DEF OwnFor
  <2>. QED
    BY <1>1, <1>3, <2>1, <2>2 DEF OwnFor
<1>4. ASSUME alone'[h] PROVE OwnFor(h)'
  <2>1. OwnFor(h) /\ flow'[h] = flow[h]
    BY <1>1, <1>4 DEF Own
  <2>2. CompletedFor(tx[h], staged[h]) /\ OrderedFor(flow[h], tx[h])
    BY DEF Settled, Ordered
  <2>3. /\ CloseTx \in TxNames /\ Finalize \in TxNames
        /\ n[1] = "close" <=> n = CloseTx
        /\ n[1] = "finalize" <=> n = Finalize
        /\ n[1] \in TxKinds
    BY TxNamesHas, TxNameFacts DEF CloseTx, Finalize
  <2>4. \A g \in Flows \ {h} : InFlight(g)' = InFlight(g)
    BY <1>1 DEF InFlight
  <2>5. CASE Expire(h, n)
    <3>1. UNCHANGED <<payload, staged>> /\ tx'[h][n] = "gone"
      BY <2>5, ExpireFacts
    <3>2. tx'[h][CloseTx] \in {"ok", "err"} => tx[h][CloseTx] = tx'[h][CloseTx]
      BY <1>1, <2>3, <3>1
    <3>. QED
      BY <2>1, <2>4, <3>1, <3>2 DEF OwnFor
  <2>6. CASE Land(h, n)
    <3>1. /\ payload' = IF Succeeds(n) THEN Effect(h, n) ELSE payload
          /\ staged'[h] = IF Succeeds(n) /\ n[1] = "finalize" THEN Effect(h, n) ELSE staged[h]
      BY <2>6, LandFacts
    <3>2. CASE staged[h] # NoPayload
      <4>1. n[1] # "finalize"
        BY <1>1, <2>2, <2>3, <3>2 DEF CompletedFor
      <4>. QED
        BY <2>1, <3>1, <3>2, <4>1 DEF OwnFor
    <3>3. CASE staged[h] = NoPayload /\ n[1] = "register"
      <4>1. payload' = payload /\ staged'[h] = staged[h] /\ tx'[h][CloseTx] = tx[h][CloseTx]
        BY <1>1, <2>3, <3>1, <3>3, EffectFacts DEF StateTyped
      <4>. QED
        BY <2>1, <2>4, <4>1 DEF OwnFor
    <3>4. CASE staged[h] = NoPayload /\ n[1] = "close"
      <4>1. payload' = NoPayload /\ staged'[h] = NoPayload
        <5>1. Succeeds(n) => Effect(h, n) = NoPayload
          BY <3>4, EffectFacts DEF StateTyped
        <5>2. ~Succeeds(n) => payload = NoPayload
          BY <3>4 DEF Succeeds
        <5>. QED
          BY <3>1, <3>4, <5>1, <5>2
      <4>. QED
        BY <2>1, <2>4, <3>4, <4>1 DEF OwnFor, OwnChunks
    <3>5. CASE staged[h] = NoPayload /\ n[1] \notin {"register", "close"}
      <4>1. flow[h].stage \in LateStages
        <5>1. Rank(n[1]) \in 3 .. 5
          BY <2>3, <3>5, RankFacts DEF TxKinds
        <5>2. Rank(flow[h].stage) >= 3 /\ flow[h] \in FlowShape
          BY <1>1, <2>2, <5>1 DEF OrderedFor, StateTyped, FlowsTyped, Rank
        <5>3. flow[h].stage \in StageNames
          BY <5>2, ShapeFacts
        <5>4. flow[h].stage \notin {"none", "demo"} \cup EarlyStages
          <6>. SUFFICES ASSUME flow[h].stage \in {"none", "demo"} \cup EarlyStages PROVE FALSE
            OBVIOUS
          <6>1. Rank(flow[h].stage) = 0
            BY RankFacts
          <6>. QED
            BY <5>2, <6>1
        <5>5. flow[h].stage # "register" /\ flow[h].stage # "close"
          <6>1. flow[h].stage = "register" => Rank(flow[h].stage) = 1
            BY RankFacts
          <6>2. flow[h].stage = "close" => Rank(flow[h].stage) = 2
            BY RankFacts
          <6>. QED
            BY <5>2, <6>1, <6>2
        <5>. QED
          BY <5>3, <5>4, <5>5 DEF StageNames, LateStages
      <4>2. OwnChunks(h, payload)
        BY <2>1, <3>5, <4>1 DEF OwnFor
      <4>3. Succeeds(n) => /\ OwnChunks(h, Effect(h, n))
                           /\ n[1] = "finalize" => WholeOwn(h, Effect(h, n))
        BY <3>5, <4>2, OwnEffect
      <4>4. flow[h].stage # "close"
        BY <4>1 DEF LateStages
      <4>. QED
        BY <2>1, <2>4, <3>1, <3>5, <4>2, <4>3, <4>4 DEF OwnFor
    <3>. QED
      BY <3>2, <3>3, <3>4, <3>5
  <2>. QED
    BY <2>5, <2>6
<1>. QED
  BY <1>3, <1>4 DEF Own


\* A flow that is not alone may start, or move before it submits.
LEMMA OwnElsewhere ==
    ASSUME Own, NEW h \in Flows, UNCHANGED <<payload, tx, staged>>,
           \A g \in Flows \ {h} : flow'[g] = flow[g] /\ alone'[g] = alone[g],
           alone'[h] => OwnFor(h)'
    PROVE  Own'
<1>1. \A g \in Flows : InFlight(g)' = InFlight(g)
  BY DEF InFlight
<1>2. ASSUME NEW f \in Flows, f # h, alone'[f] PROVE OwnFor(f)'
  BY <1>1, <1>2 DEF Own, OwnFor
<1>. QED
  BY <1>2 DEF Own

LEMMA OwnNext ==
    ASSUME Typed, Ordered, Settled, Own, [Next]_vars
    PROVE  Own'
<1>1. StateTyped /\ FlowsTyped /\ TxTyped
  BY DEF Typed, StateTyped
<1>2. ASSUME UNCHANGED <<payload, tx, flow, alone, staged>> PROVE Own'
  <2>1. \A g \in Flows : InFlight(g)' = InFlight(g)
    BY <1>2 DEF InFlight
  <2>. QED
    BY <1>2, <2>1 DEF Own, OwnFor
<1>3. ASSUME NEW f \in Flows, flow[f].stage \in {"none", "demo"} \cup EarlyStages
      PROVE  staged[f] = NoPayload
  <2>1. tx[f][Finalize] = "unsent"
    BY <1>3, NothingSent, TxNamesHas
  <2>. QED
    BY <2>1 DEF Settled, CompletedFor
<1>4. ASSUME NEW f \in Flows, FlowStep(f) PROVE Own'
  <2>1. UNCHANGED <<payload, tx, staged>> /\ flow[f].phase = "call"
    BY <1>1, <1>4, FlowStepFacts
  <2>2. \A g \in Flows \ {f} : flow'[g] = flow[g]
    BY <1>1, <1>4, FlowStepFacts DEF Moved
  <2>3. ~alone[f]
    <3>1. flow[f].kind = "demo" \/ flow[f].stage \in EarlyStages
      BY <1>1, <2>1, CallStages
    <3>. QED
      BY <3>1 DEF Own, OwnFor
  <2>4. CASE UNCHANGED alone
    BY <2>1, <2>2, <2>3, <2>4, OwnElsewhere
  <2>5. CASE /\ flow[f].kind = "live" /\ flow[f].stage = "prove"
             /\ Moved(f, "register", "check", 1) /\ alone' = [alone EXCEPT ![f] = Quiet(f)]
    <3>1. /\ \A g \in Flows \ {f} : alone'[g] = alone[g]
          /\ alone'[f] = Quiet(f)
      BY <1>1, <2>5 DEF TxTyped
    <3>2. staged[f] = NoPayload
      BY <1>3, <2>5 DEF EarlyStages
    <3>3. flow'[f].kind = "live" /\ flow'[f].stage = "register"
      BY <2>5 DEF Moved
    <3>4. ASSUME alone'[f] PROVE OwnFor(f)'
      <4>1. \A g \in Flows \ {f} : InFlight(g)' = {}
        BY <2>1, <3>1, <3>4 DEF Quiet, InFlight
      <4>. QED
        BY <2>1, <3>2, <3>3, <4>1 DEF OwnFor, LateStages, EarlyStages
    <3>. QED
      BY <2>1, <2>2, <3>1, <3>4, OwnElsewhere
  <2>. QED
    BY <1>1, <1>4, <2>4, <2>5, FlowStepFacts
<1>5. ASSUME NEW f \in Flows, Submit(f) PROVE Own'
  BY <1>1, <1>5, OwnSubmit DEF Submit
<1>6. ASSUME NEW f \in Flows, Network(f) PROVE Own'
  BY <1>1, <1>6, OwnNetwork DEF Network, NetworkStep
<1>7. CASE Upload
  <2>1. PICK f \in Flows :
              /\ Began(f, "sdk", "init", "sign")
              /\ alone' = [alone EXCEPT ![f] = Quiet(f) /\ payload = NoPayload]
              /\ UNCHANGED <<issuer, payload, tx, faults, faulty, staged>>
    BY <1>1, <1>7, UploadFacts
  <2>2. /\ \A g \in Flows \ {f} : flow'[g] = flow[g]
        /\ flow[f].stage = "none" /\ flow'[f].kind = "sdk" /\ flow'[f].stage = "init"
    BY <2>1 DEF Began
  <2>3. /\ \A g \in Flows \ {f} : alone'[g] = alone[g]
        /\ alone'[f] = (Quiet(f) /\ payload = NoPayload)
    BY <1>1, <2>1 DEF TxTyped
  <2>4. staged[f] = NoPayload
    BY <1>3, <2>2
  <2>5. ASSUME alone'[f] PROVE OwnFor(f)'
    <3>1. \A g \in Flows \ {f} : InFlight(g)' = {}
      BY <2>1, <2>3, <2>5 DEF Quiet, InFlight
    <3>2. OwnChunks(f, payload')
      BY <2>1, <2>3, <2>5 DEF OwnChunks
    <3>. QED
      BY <2>1, <2>2, <2>4, <3>1, <3>2 DEF OwnFor, EarlyStages
  <2>. QED
    BY <2>1, <2>2, <2>3, <2>5, OwnElsewhere
<1>8. ASSUME NEW wallet \in Wallets, RunLive(wallet) \/ RunDemo(wallet) PROVE Own'
  <2>1. UNCHANGED <<payload, tx, alone, staged>>
    BY <1>8, RunFacts
  <2>2. CASE UNCHANGED flow
    BY <1>2, <2>1, <2>2
  <2>3. ASSUME NEW f \in Flows, NEW kind, NEW st, Began(f, kind, st, "call") PROVE Own'
    <3>1. flow[f].kind = "none" /\ \A g \in Flows \ {f} : flow'[g] = flow[g]
      BY <2>3 DEF Began
    <3>2. ~alone[f]
      BY <3>1 DEF Own, OwnFor
    <3>. QED
      BY <2>1, <3>1, <3>2, OwnElsewhere
  <2>. QED
    BY <1>8, <2>2, <2>3, RunFacts
<1>9. CASE Reset \/ Remount
  BY <1>2, <1>9 DEF Reset, Remount, uvars
<1>10. CASE UNCHANGED vars
  BY <1>2, <1>10 DEF vars, uvars
<1>. QED
  BY <1>4, <1>5, <1>6, <1>7, <1>8, <1>9, <1>10 DEF Next


-----------------------------------------------------------------------------
(* Smooth is inductive.                                                    *)

LEMMA SpaceGrows ==
    ASSUME NEW k \in Nat
    PROVE  Grow(SpaceAfter(k)) = SpaceAfter(k + 1)
<1>1. LEN \in Nat \ {0} /\ RESIZE_STEP \in Nat \ {0}
  BY UploadNumbers
<1>2. k * RESIZE_STEP \in Nat /\ (k + 1) * RESIZE_STEP = k * RESIZE_STEP + RESIZE_STEP
  BY <1>1
<1>. QED
  BY <1>1, <1>2 DEF Grow, SpaceAfter

LEMMA SpaceEnds ==
    /\ SpaceAfter(Resizes) = LEN /\ Grow(0) = SpaceAfter(1)
<1>1. LEN \in Nat \ {0} /\ RESIZE_STEP \in Nat \ {0} /\ LEN <= Resizes * RESIZE_STEP
  BY Sizes, UploadNumbers
<1>2. Resizes * RESIZE_STEP \in Int
  BY <1>1, Sizes
<1>3. SpaceAfter(0) = 0
  BY <1>1 DEF SpaceAfter
<1>. QED
  BY <1>1, <1>2, <1>3, SpaceGrows DEF SpaceAfter

\* The next write begins where the last one ended.
LEMMA WritesMeet ==
    ASSUME NEW m \in 0 .. Writes, m # Writes
    PROVE  Written(m) = WriteFrom(m + 1)
<1>1. WRITES_PER_TX \in Nat \ {0} /\ m \in Nat
  BY UploadNumbers, Sizes
<1>2. WriteFrom(m + 1) = m * WRITES_PER_TX
  BY <1>1 DEF WriteFrom
<1>. QED
  BY <1>1, <1>2 DEF Written, WriteTo

\* The transactions of each stage.
LEMMA TxOfRank ==
    ASSUME NEW n \in TxNames
    PROVE  /\ Rank(n[1]) = 1 => n = Register
           /\ Rank(n[1]) = 2 => n = CloseTx
           /\ Rank(n[1]) = 3 => n = <<"resize", 1>> \/ \E i \in 1 .. Resizes : n = InitTx(i)
           /\ Rank(n[1]) = 4 => \E i \in 1 .. Writes : n = <<"write", i>>
           /\ Rank(n[1]) = 5 => n = Finalize
<1>1. /\ n[1] \in TxKinds /\ n = <<n[1], n[2]>>
      /\ n[1] \in {"register", "close", "init", "finalize"} => n = <<n[1], 1>>
      /\ n[1] = "resize" => n[2] \in 1 .. Resizes
      /\ n[1] = "write" => n[2] \in 1 .. Writes
  BY TxNameFacts
<1>2. CASE n[1] = "register"
  BY <1>1, <1>2, RankFacts DEF Register
<1>3. CASE n[1] = "close"
  BY <1>1, <1>3, RankFacts DEF CloseTx
<1>4. CASE n[1] = "init"
  <2>1. n = InitTx(1) /\ 1 \in 1 .. Resizes
    BY <1>1, <1>4, Sizes DEF InitTx
  <2>. QED
    BY <1>4, <2>1, RankFacts
<1>5. CASE n[1] = "resize"
  <2>1. n = <<"resize", 1>> \/ n = InitTx(n[2])
    BY <1>1, <1>5 DEF InitTx
  <2>. QED
    BY <1>1, <1>5, <2>1, RankFacts
<1>6. CASE n[1] = "write"
  <2>1. n = <<"write", n[2]>>
    BY <1>1, <1>6
  <2>. QED
    BY <1>1, <1>6, <2>1, RankFacts
<1>7. CASE n[1] = "finalize"
  BY <1>1, <1>7, RankFacts DEF Finalize
<1>. QED
  BY <1>1, <1>2, <1>3, <1>4, <1>5, <1>6, <1>7 DEF TxKinds

LEMMA InitTxFacts ==
    ASSUME NEW i \in 1 .. Resizes
    PROVE  /\ InitTx(i) \in TxNames /\ Rank(InitTx(i)[1]) = 3
           /\ InitTx(i) # <<"resize", 1>>
           /\ i # 1 => InitTx(i) = <<"resize", i>>
           /\ InitTx(i)[1] = IF i = 1 THEN "init" ELSE "resize"
           /\ \A j \in 1 .. Resizes : InitTx(i) = InitTx(j) => i = j
<1>1. CASE i = 1
  BY <1>1, TxNamesHas, RankFacts DEF InitTx
<1>2. CASE i # 1
  BY <1>2, TxNamesHas, RankFacts DEF InitTx
<1>. QED
  BY <1>1, <1>2

\* What a live flow has not sent yet.
LEMMA NotYet ==
    ASSUME NEW a, NEW t, OrderedFor(a, t), a.kind = "live", a.stage \in SubmitStages,
           NEW n \in TxNames,
           \/ Rank(a.stage) < Rank(n[1])
           \/ Rank(a.stage) = Rank(n[1]) /\ a.phase \in {"check", "sign"}
    PROVE  t[n] = "unsent"
<1>1. Rank(a.stage) \in 1 .. 5 /\ Rank(n[1]) \in 1 .. 5
  BY RankFacts DEF SubmitStages
<1>. QED
  BY <1>1 DEF OrderedFor

\* Before a calm flow signs, nothing of it is in flight.
LEMMA CalmBeforeSigning ==
    ASSUME NEW a, NEW t, OrderedFor(a, t), Calm(a, t), a.kind = "live",
           a.stage \in SubmitStages, a.phase \in {"check", "sign"}
    PROVE  \A n \in TxNames : t[n] # "flight"
BY NotYet DEF Calm

\* A calm flow moves on and sends nothing.
LEMMA CalmMoves ==
    ASSUME NEW a, NEW b, NEW t, Calm(a, t), b.phase # "failed",
           \/ b.stage = a.stage
           \/ \A n \in TxNames : t[n] # "flight"
    PROVE  Calm(b, t)
BY DEF Calm

\* A transaction of a calm flow succeeds.
LEMMA CalmLands ==
    ASSUME NEW a, NEW t, NEW u, NEW n \in TxNames, Calm(a, t), t[n] = "flight", u[n] = "ok",
           \A m \in TxNames \ {n} : u[m] = t[m]
    PROVE  Calm(a, u)
BY DEF Calm

\* The resize in flight is the one awaited, and finds the account as the ones
\* before left it.
LEMMA InitAwaits ==
    ASSUME NEW a, NEW t, NEW p, InitReady(a, t, p), a.phase # "sign",
           a.next \in 1 .. Resizes, NEW j \in 1 .. Resizes, t[InitTx(j)] = "flight"
    PROVE  /\ j = a.next
           /\ IF j = 1 THEN p = NoPayload ELSE Blank(p, j - 1)
<1>1. j = a.next
  <2>1. ~(j > a.next) /\ ~(j < a.next)
    BY DEF InitReady
  <2>. QED
    BY <2>1, Sizes
<1>. QED
  BY <1>1 DEF InitReady

LEMMA InitAdvances ==
    ASSUME NEW a, NEW t, NEW p, InitReady(a, t, p), a.phase # "sign",
           a.next \in 1 .. Resizes, NEW u, u[InitTx(a.next)] = "ok",
           \A m \in TxNames \ {InitTx(a.next)} : u[m] = t[m], NEW q, Blank(q, a.next)
    PROVE  InitReady(a, u, q)
<1>1. \A i \in 1 .. Resizes : i # a.next => u[InitTx(i)] = t[InitTx(i)]
  BY InitTxFacts
<1>2. \A i \in 1 .. Resizes : /\ i > a.next => u[InitTx(i)] = "unsent"
                              /\ i < a.next => u[InitTx(i)] = "ok"
  BY <1>1, Sizes DEF InitReady
<1>. QED
  BY <1>2 DEF InitReady

\* The write that lands in its turn begins at the high-water mark.
LEMMA WriteAwaits ==
    ASSUME NEW t, NEW p, WriteReady(t, p), NEW i \in 1 .. Writes,
           t[<<"write", i>>] = "flight", i > 1 => t[<<"write", i - 1>>] = "ok"
    PROVE  /\ p.high_water_mark = WriteFrom(i)
           /\ \A j \in 1 .. Writes : t[<<"write", j>>] = "ok" <=> j <= i - 1
<1>1. PICK m \in 0 .. Writes :
          /\ p.high_water_mark = Written(m)
          /\ \A j \in 1 .. Writes : t[<<"write", j>>] = "ok" <=> j <= m
  BY DEF WriteReady
<1>2. Writes \in Nat \ {0}
  BY Sizes
<1>3. ~(i <= m)
  <2>1. t[<<"write", i>>] # "ok"
    OBVIOUS
  <2>. QED
    BY <1>1, <2>1
<1>4. i - 1 <= m
  <2>1. CASE i = 1
    BY <1>1, <1>2, <2>1
  <2>2. CASE i # 1
    <3>1. i - 1 \in 1 .. Writes /\ i > 1
      BY <1>2, <2>2
    <3>. QED
      BY <1>1, <3>1
  <2>. QED
    BY <2>1, <2>2
<1>5. m = i - 1 /\ m # Writes /\ i = m + 1
  BY <1>2, <1>3, <1>4
<1>6. p.high_water_mark = WriteFrom(i)
  BY <1>1, <1>5, WritesMeet
<1>. QED
  BY <1>1, <1>5, <1>6

LEMMA WriteAdvances ==
    ASSUME NEW t, NEW i \in 1 .. Writes,
           \A j \in 1 .. Writes : t[<<"write", j>>] = "ok" <=> j <= i - 1,
           NEW u, u[<<"write", i>>] = "ok",
           \A m \in TxNames \ {<<"write", i>>} : u[m] = t[m],
           NEW q, q # NoPayload, ~q.finalized, q.space = LEN, q.high_water_mark = WriteTo(i)
    PROVE  WriteReady(u, q)
<1>1. Writes \in Nat \ {0} /\ i \in 0 .. Writes /\ i # 0
  BY Sizes
<1>2. \A j \in 1 .. Writes : j # i => u[<<"write", j>>] = t[<<"write", j>>]
  <2>. TAKE j \in 1 .. Writes
  <2>. HAVE j # i
  <2>1. <<"write", j>> # <<"write", i>> /\ <<"write", j>> \in TxNames
    BY TxNamesHas
  <2>. QED
    BY <2>1
<1>3. \A j \in 1 .. Writes : u[<<"write", j>>] = "ok" <=> j <= i
  <2>. TAKE j \in 1 .. Writes
  <2>1. CASE j = i
    BY <1>1, <2>1
  <2>2. CASE j # i
    BY <1>1, <1>2, <2>2
  <2>. QED
    BY <2>1, <2>2
<1>4. q.high_water_mark = Written(i)
  BY <1>1 DEF Written
<1>. QED
  BY <1>1, <1>3, <1>4 DEF WriteReady

LEMMA SmoothLand ==
    ASSUME StateTyped, Ordered, Settled, NEW f \in Flows, NEW n \in TxNames, Land(f, n),
           flow[f].kind = "live", flow[f].stage \in SubmitStages, SmoothFor(f), ~faulty'[f]
    PROVE  SmoothFor(f)'
<1>. DEFINE a == flow[f]
            t == tx[f]
            u == tx'[f]
<1>1. /\ t[n] = "flight" /\ flow' = flow /\ ~Overtakes(f, n)
      /\ u[n] = IF Succeeds(n) THEN "ok" ELSE "err"
      /\ \A m \in TxNames \ {n} : u[m] = t[m]
      /\ payload' = IF Succeeds(n) THEN Effect(f, n) ELSE payload
      /\ issuer' = (issuer \/ n[1] = "register")
      /\ staged'[f] = IF Succeeds(n) /\ n[1] = "finalize" THEN Effect(f, n) ELSE staged[f]
  BY LandFacts
<1>2. /\ Calm(a, t) /\ OrderedFor(a, t) /\ CompletedFor(t, staged[f])
      /\ Rank(n[1]) = Rank(a.stage) /\ n # <<"resize", 1>>
  BY <1>1 DEF SmoothFor, Ordered, Settled, Calm
<1>3. /\ a.phase \notin {"check", "sign"}
  BY <1>1, <1>2, NotYet
<1>4. staged[f] = NoPayload
  <2>. SUFFICES ASSUME staged[f] # NoPayload PROVE FALSE
    OBVIOUS
  <2>1. t[Finalize] = "ok" /\ Finalize \in TxNames /\ Rank(Finalize[1]) = 5
    BY <1>2, TxNamesHas, RankFacts DEF CompletedFor, Finalize
  <2>2. Rank(a.stage) \in 1 .. 5
    BY RankFacts DEF SubmitStages
  <2>3. Rank(a.stage) = 5
    BY <1>2, <2>1, <2>2, NotYet
  <2>4. n = Finalize
    BY <1>2, <2>3, TxOfRank
  <2>. QED
    BY <1>1, <2>1, <2>4
<1>5. Ready(a, t, issuer, payload)
  BY <1>4 DEF SmoothFor
<1>6. FlowsTyped /\ payload \in Payload \cup {NoPayload} /\ a \in FlowShape
  BY DEF StateTyped, FlowsTyped
<1>7. ASSUME Succeeds(n), n[1] # "finalize" => Ready(a, u, issuer', payload')
      PROVE  SmoothFor(f)'
  <2>1. Calm(a, u)
    BY <1>1, <1>2, <1>7, CalmLands
  <2>2. n[1] = "finalize" => staged'[f] # NoPayload
    BY <1>1, <1>6, <1>7, EffectFacts, PayloadsAreSome
  <2>. QED
    BY <1>1, <1>7, <2>1, <2>2 DEF SmoothFor
<1>8. CASE a.stage = "register"
  <2>1. n = Register /\ n[1] = "register"
    BY <1>2, <1>8, RankFacts, TxOfRank DEF Register
  <2>2. Succeeds(n)
    BY <1>1, <1>5, <1>8, <2>1 DEF Ready, Succeeds
  <2>3. Ready(a, u, issuer', payload')
    BY <1>1, <1>3, <1>8, <2>1, <2>2 DEF Ready
  <2>. QED
    BY <1>7, <2>2, <2>3
<1>9. CASE a.stage = "close"
  <2>1. n = CloseTx /\ n[1] = "close"
    BY <1>2, <1>9, RankFacts, TxOfRank DEF CloseTx
  <2>2. Succeeds(n) /\ issuer
    BY <1>1, <1>5, <1>9, <2>1 DEF Ready, Succeeds
  <2>3. Ready(a, u, issuer', payload')
    BY <1>1, <1>3, <1>9, <2>1, <2>2 DEF Ready
  <2>. QED
    BY <1>7, <2>2, <2>3
<1>10. CASE a.stage = "init"
  <2>1. issuer /\ InitReady(a, t, payload)
    BY <1>5, <1>10 DEF Ready
  <2>2. a.next \in 1 .. Resizes
    BY <1>6, <1>10, ShapeFacts DEF LastNext
  <2>3. PICK j \in 1 .. Resizes : n = InitTx(j)
    BY <1>2, <1>10, RankFacts, TxOfRank
  <2>4. /\ j = a.next
        /\ IF j = 1 THEN payload = NoPayload ELSE Blank(payload, j - 1)
    BY <1>1, <1>3, <2>1, <2>2, <2>3, InitAwaits
  <2>5. n[1] = IF j = 1 THEN "init" ELSE "resize"
    BY <2>3, InitTxFacts
  <2>6. Succeeds(n) /\ Blank(Effect(f, n), j)
    <3>1. CASE j = 1
      <4>1. Succeeds(n)
        BY <2>1, <2>4, <2>5, <3>1 DEF Succeeds
      <4>. QED
        BY <1>6, <2>5, <3>1, <4>1, EffectFacts, SpaceEnds, PayloadsAreSome DEF Blank
    <3>2. CASE j # 1
      <4>1. Succeeds(n)
        BY <2>1, <2>4, <2>5, <3>2 DEF Succeeds, Blank
      <4>2. j - 1 \in Nat /\ j = (j - 1) + 1
        BY <3>2, Sizes
      <4>3. Grow(SpaceAfter(j - 1)) = SpaceAfter(j)
        BY <4>2, SpaceGrows
      <4>4. /\ Effect(f, n) \in Payload /\ ~Effect(f, n).finalized
            /\ Effect(f, n).high_water_mark = payload.high_water_mark
            /\ Effect(f, n).space = Grow(payload.space)
        BY <1>6, <2>5, <3>2, <4>1, EffectFacts
      <4>. QED
        BY <2>4, <3>2, <4>1, <4>3, <4>4, PayloadsAreSome DEF Blank
    <3>. QED
      BY <3>1, <3>2
  <2>7. InitReady(a, u, payload')
    BY <1>1, <1>3, <2>1, <2>2, <2>3, <2>4, <2>6, InitAdvances
  <2>. QED
    BY <1>1, <1>7, <1>10, <2>1, <2>6, <2>7 DEF Ready
<1>11. CASE a.stage = "write"
  <2>1. issuer /\ WriteReady(t, payload)
    BY <1>5, <1>11 DEF Ready
  <2>2. PICK i \in 1 .. Writes : n = <<"write", i>>
    BY <1>2, <1>11, RankFacts, TxOfRank
  <2>3. i > 1 => t[<<"write", i - 1>>] = "ok"
    BY <1>1, <2>2 DEF Overtakes
  <2>4. /\ payload.high_water_mark = WriteFrom(i)
        /\ \A j \in 1 .. Writes : t[<<"write", j>>] = "ok" <=> j <= i - 1
    BY <1>1, <2>1, <2>2, <2>3, WriteAwaits
  <2>5. Succeeds(n)
    BY <2>1, <2>2, <2>4 DEF Succeeds, WriteReady
  <2>6. /\ Effect(f, n) \in Payload /\ ~Effect(f, n).finalized
        /\ Effect(f, n).high_water_mark = WriteTo(i) /\ Effect(f, n).space = payload.space
    BY <1>6, <2>2, <2>5, EffectFacts
  <2>7. payload.space = LEN
    BY <2>1 DEF WriteReady
  <2>8. WriteReady(u, payload')
    <3>1. /\ payload' # NoPayload /\ ~payload'.finalized /\ payload'.space = LEN
          /\ payload'.high_water_mark = WriteTo(i)
      BY <1>1, <2>5, <2>6, <2>7, PayloadsAreSome
    <3>2. u[<<"write", i>>] = "ok" /\ \A m \in TxNames \ {<<"write", i>>} : u[m] = t[m]
      BY <1>1, <2>2, <2>5
    <3>. HIDE DEF t, u
    <3>. QED
      BY <2>4, <3>1, <3>2, WriteAdvances
  <2>. QED
    BY <1>1, <1>7, <1>11, <2>1, <2>5, <2>8 DEF Ready
<1>12. CASE a.stage = "finalize"
  <2>1. n = Finalize /\ n[1] = "finalize"
    BY <1>2, <1>12, RankFacts, TxOfRank DEF Finalize
  <2>2. Succeeds(n)
    BY <1>5, <1>12, <2>1 DEF Ready, Succeeds
  <2>. QED
    BY <1>7, <2>1, <2>2
<1>. QED
  BY <1>8, <1>9, <1>10, <1>11, <1>12 DEF SubmitStages

\* What a live flow waits for is a transaction, and if confirmed, it succeeded.
LEMMA AwaitedIsOk ==
    ASSUME StateTyped, NEW f \in Flows, flow[f].kind = "live", flow[f].phase = "wait",
           flow[f].stage \in SubmitStages, Calm(flow[f], tx[f])
    PROVE  /\ Awaited(f) \in TxNames /\ tx[f][Awaited(f)] \notin {"err", "gone"}
<1>1. flow[f] \in FlowShape /\ flow[f].next \in 1 .. LastNext("live", flow[f].stage)
  BY ShapeFacts DEF StateTyped, FlowsTyped
<1>2. CASE flow[f].stage = "init"
  BY <1>1, <1>2, AwaitedFacts, InitTxFacts DEF LastNext, Calm
<1>3. CASE flow[f].stage = "write"
  BY <1>1, <1>3, AwaitedFacts, TxNamesHas, Sizes DEF Calm
<1>4. CASE flow[f].stage \notin {"init", "write"}
  <2>1. Awaited(f) = <<flow[f].stage, 1>>
    BY <1>1, <1>4, AwaitedFacts
  <2>. QED
    BY <1>4, <2>1, TxNamesHas DEF SubmitStages, Register, CloseTx, Finalize, Calm
<1>. QED
  BY <1>2, <1>3, <1>4

LEMMA SmoothSign ==
    ASSUME StateTyped, Ordered, NEW f \in Flows, SignAndSend(f), SmoothFor(f)
    PROVE  SmoothFor(f)'
<1>. DEFINE a == flow[f]
            b == flow'[f]
            t == tx[f]
            u == tx'[f]
            names == SignedNames(flow[f])
<1>1. /\ a.kind = "live" /\ a.phase = "sign" /\ a.stage \in SubmitStages
      /\ names \in SUBSET TxNames /\ Sent(f, names) /\ Moved(f, a.stage, "wait", 1)
      /\ UNCHANGED <<issuer, payload, faults, faulty, staged>>
  BY SignFacts DEF StateTyped
<1>2. b.stage = a.stage /\ b.phase = "wait" /\ b.next = 1
  BY <1>1 DEF Moved
<1>3. \A n \in TxNames : u[n] = IF n \in names THEN "flight" ELSE t[n]
  BY <1>1, SentFacts DEF StateTyped
<1>4. Calm(a, t) /\ OrderedFor(a, t)
  BY DEF SmoothFor, Ordered
<1>5. \A n \in TxNames : Rank(n[1]) = Rank(a.stage) => t[n] = "unsent"
  BY <1>1, <1>4, NotYet
<1>6. \A n \in names : Rank(n[1]) = Rank(a.stage) /\ n # <<"resize", 1>>
  BY <1>1 DEF SignedNames, SubmitStages
<1>7. Calm(b, u)
  <2>. HIDE DEF names, a, b, t, u
  <2>. QED
    BY <1>2, <1>3, <1>4, <1>6 DEF Calm
<1>8. ASSUME Ready(a, t, issuer, payload) PROVE Ready(b, u, issuer, payload)
  <2>1. CASE a.stage = "register"
    <3>1. u[Register] = "flight"
      BY <1>3, <2>1, TxNamesHas DEF SignedNames, Register
    <3>. QED
      BY <1>1, <1>2, <1>8, <2>1, <3>1 DEF Ready
  <2>2. CASE a.stage = "close"
    BY <1>1, <1>2, <1>8, <2>2 DEF Ready
  <2>3. CASE a.stage = "init"
    <3>1. issuer /\ payload = NoPayload
      BY <1>1, <1>8, <2>3 DEF Ready, InitReady
    <3>2. InitTx(1) \in names /\ InitTx(1) \in TxNames /\ 1 \in 1 .. Resizes
      BY <2>3, TxNamesHas, Sizes DEF SignedNames, InitTx
    <3>3. u[InitTx(1)] = "flight"
      BY <1>3, <3>2
    <3>4. ASSUME NEW i \in 1 .. Resizes, i > 1 PROVE u[InitTx(i)] = "unsent"
      <4>1. InitTx(i) \in TxNames /\ Rank(InitTx(i)[1]) = Rank(a.stage) /\ InitTx(i) # InitTx(1)
        BY <2>3, <3>2, <3>4, InitTxFacts, RankFacts
      <4>2. names = {InitTx(1)}
        BY <2>3 DEF SignedNames, InitTx
      <4>. QED
        BY <1>3, <1>5, <4>1, <4>2
    <3>5. InitReady(b, u, payload)
      <4>1. \A i \in 1 .. Resizes : ~(i < 1)
        BY Sizes
      <4>. QED
        BY <1>2, <3>1, <3>3, <3>4, <4>1 DEF InitReady
    <3>. QED
      BY <1>2, <2>3, <3>1, <3>5 DEF Ready
  <2>4. CASE a.stage = "write"
    <3>1. issuer /\ WriteReady(t, payload)
      BY <1>8, <2>4 DEF Ready
    <3>2. \A i \in 1 .. Writes : <<"write", i>> \in TxNames /\ <<"write", i>> \in names
      BY <2>4, TxNamesHas DEF SignedNames
    <3>3. \A i \in 1 .. Writes : t[<<"write", i>>] # "ok" /\ u[<<"write", i>>] # "ok"
      BY <1>3, <1>5, <2>4, <3>2
    <3>. HIDE DEF t, u, names
    <3>4. WriteReady(u, payload)
      BY <3>1, <3>3 DEF WriteReady
    <3>. QED
      BY <1>2, <2>4, <3>1, <3>4 DEF Ready
  <2>5. CASE a.stage = "finalize"
    BY <1>2, <1>8, <2>5 DEF Ready
  <2>. QED
    BY <1>1, <2>1, <2>2, <2>3, <2>4, <2>5 DEF SubmitStages
<1>. QED
  BY <1>1, <1>7, <1>8 DEF SmoothFor

\* A live flow that has not come to finalize has nothing completed.
LEMMA StagedIsLast ==
    ASSUME Ordered, Settled, NEW f \in Flows, flow[f].kind = "live",
           flow[f].stage \in {"register", "close", "init", "write"}
    PROVE  staged[f] = NoPayload
<1>1. CompletedFor(tx[f], staged[f]) /\ OrderedFor(flow[f], tx[f])
  BY DEF Settled, Ordered
<1>2. Finalize \in TxNames /\ Rank(Finalize[1]) = 5 /\ Rank(flow[f].stage) \in 1 .. 4
  BY TxNamesHas, RankFacts DEF Finalize
<1>3. tx[f][Finalize] = "unsent"
  BY <1>1, <1>2, NotYet DEF SubmitStages
<1>. QED
  BY <1>1, <1>3 DEF CompletedFor

LEMMA SmoothProceed ==
    ASSUME StateTyped, Ordered, Settled, Own, NEW f \in Flows, Proceed(f), alone[f],
           SmoothFor(f)
    PROVE  SmoothFor(f)'
<1>. DEFINE a == flow[f]
            b == flow'[f]
            t == tx[f]
            u == tx'[f]
<1>1. /\ a.kind = "live" /\ a.phase = "wait"
      /\ a.stage \in {"register", "close", "init", "write"}
      /\ t[Awaited(f)] \in {"ok", "err"}
      /\ UNCHANGED <<issuer, payload, faults, faulty, staged>>
  BY ProceedFacts DEF StateTyped
<1>2. /\ a \in FlowShape /\ a.stage \in SubmitStages /\ Calm(a, t) /\ OrderedFor(a, t)
  BY <1>1 DEF StateTyped, FlowsTyped, SubmitStages, SmoothFor, Ordered
<1>3. Awaited(f) \in TxNames /\ t[Awaited(f)] = "ok"
  BY <1>1, <1>2, AwaitedIsOk
<1>4. staged[f] = NoPayload /\ Ready(a, t, issuer, payload)
  BY <1>1, StagedIsLast DEF SmoothFor
<1>5. ASSUME u = t, b.phase # "failed", \A n \in TxNames : t[n] # "flight",
             Ready(b, t, issuer, payload)
      PROVE  SmoothFor(f)'
  <2>1. Calm(b, u)
    <3>. HIDE DEF a, b, t, u
    <3>. QED
      BY <1>2, <1>5, CalmMoves
  <2>. QED
    BY <1>1, <1>5, <2>1 DEF SmoothFor
<1>6. CASE a.stage = "register" /\ Moved(f, "close", "check", 1) /\ UNCHANGED <<tx, alone>>
  <2>1. t[Register] = "ok" /\ b.stage = "close" /\ b.phase = "check"
    BY <1>2, <1>1, <1>3, <1>6, AwaitedFacts DEF Register, Moved
  <2>2. \A n \in TxNames : t[n] # "flight"
    BY <1>2, <1>6, <2>1, TxOfRank, RankFacts DEF Calm
  <2>3. Ready(b, t, issuer, payload)
    BY <1>4, <1>6, <2>1, <2>2, TxNamesHas DEF Ready
  <2>. QED
    BY <1>5, <1>6, <2>1, <2>2, <2>3
<1>7. CASE a.stage = "close" /\ Moved(f, "init", "sign", 1) /\ UNCHANGED <<tx, alone>>
  <2>1. t[CloseTx] = "ok" /\ b.stage = "init" /\ b.phase = "sign"
    BY <1>2, <1>1, <1>3, <1>7, AwaitedFacts DEF CloseTx, Moved
  <2>2. \A n \in TxNames : t[n] # "flight"
    BY <1>2, <1>7, <2>1, TxOfRank, RankFacts DEF Calm
  <2>3. payload = NoPayload
    BY <1>4, <1>7, <2>1 DEF Own, OwnFor
  <2>4. Ready(b, t, issuer, payload)
    BY <1>4, <1>7, <2>1, <2>3 DEF Ready, InitReady
  <2>. QED
    BY <1>5, <1>7, <2>1, <2>2, <2>4
<1>8. CASE /\ a.stage = "init" /\ a.next = Resizes
           /\ Moved(f, "write", "sign", 1) /\ UNCHANGED <<tx, alone>>
  <2>1. /\ t[InitTx(Resizes)] = "ok" /\ Resizes \in 1 .. Resizes
        /\ b.stage = "write" /\ b.phase = "sign"
    BY <1>2, <1>1, <1>3, <1>8, AwaitedFacts, Sizes DEF Moved
  <2>2. issuer /\ Blank(payload, Resizes)
    BY <1>1, <1>4, <1>8, <2>1 DEF Ready, InitReady
  <2>3. \A i \in 1 .. Resizes : t[InitTx(i)] = "ok"
    <3>1. \A i \in 1 .. Resizes : i < Resizes => t[InitTx(i)] = "ok"
      BY <1>1, <1>4, <1>8 DEF Ready, InitReady
    <3>. QED
      BY <2>1, <3>1, Sizes
  <2>4. \A n \in TxNames : t[n] # "flight"
    <3>. TAKE n \in TxNames
    <3>. SUFFICES ASSUME t[n] = "flight" PROVE FALSE
      OBVIOUS
    <3>1. Rank(n[1]) = 3 /\ n # <<"resize", 1>>
      BY <1>2, <1>8, RankFacts DEF Calm
    <3>. QED
      BY <2>3, <3>1, TxOfRank
  <2>5. \A i \in 1 .. Writes : t[<<"write", i>>] = "unsent"
    <3>. TAKE i \in 1 .. Writes
    <3>1. <<"write", i>> \in TxNames /\ Rank(<<"write", i>>[1]) = 4 /\ Rank(a.stage) = 3
      BY <1>8, TxNamesHas, RankFacts
    <3>. QED
      BY <1>1, <1>2, <3>1, NotYet
  <2>6. WriteReady(t, payload)
    <3>1. \A i \in 1 .. Writes : ~(i <= 0)
      BY Sizes
    <3>2. 0 \in 0 .. Writes /\ Written(0) = 0
      BY Sizes DEF Written
    <3>3. payload.space = LEN /\ payload.high_water_mark = 0
      BY <2>2, SpaceEnds DEF Blank
    <3>. QED
      BY <2>2, <2>5, <3>1, <3>2, <3>3 DEF WriteReady, Blank
  <2>7. Ready(b, t, issuer, payload)
    BY <2>1, <2>2, <2>6 DEF Ready
  <2>. QED
    BY <1>5, <1>8, <2>1, <2>4, <2>7
<1>9. CASE a.stage = "write" /\ Moved(f, "finalize", "sign", 1) /\ UNCHANGED <<tx, alone>>
  <2>1. /\ t[<<"write", Writes>>] = "ok" /\ Writes \in 1 .. Writes
        /\ b.stage = "finalize" /\ b.phase = "sign"
    BY <1>2, <1>1, <1>3, <1>9, AwaitedFacts, Sizes DEF Moved
  <2>2. issuer /\ WriteReady(t, payload)
    BY <1>4, <1>9 DEF Ready
  <2>3. PICK m \in 0 .. Writes :
            /\ payload.high_water_mark = Written(m)
            /\ \A i \in 1 .. Writes : t[<<"write", i>>] = "ok" <=> i <= m
    BY <2>2 DEF WriteReady
  <2>4. m = Writes
    BY <2>1, <2>3, Sizes
  <2>5. payload.high_water_mark = LEN
    BY <2>3, <2>4, Sizes DEF Written, WriteTo
  <2>6. \A i \in 1 .. Writes : t[<<"write", i>>] = "ok"
    <3>1. \A i \in 1 .. Writes : i <= m
      BY <2>4, Sizes
    <3>. QED
      BY <2>3, <3>1
  <2>7. \A n \in TxNames : t[n] # "flight"
    BY <1>2, <1>9, <2>6, TxOfRank, RankFacts DEF Calm
  <2>8. Ready(b, t, issuer, payload)
    BY <2>1, <2>2, <2>5 DEF Ready, WriteReady
  <2>. QED
    BY <1>5, <1>9, <2>1, <2>7, <2>8
<1>10. CASE /\ a.stage = "init" /\ a.next < Resizes /\ a.next + 1 \in 1 .. Resizes
            /\ Moved(f, "init", "wait", a.next + 1)
            /\ Sent(f, {<<"resize", a.next + 1>>})
  <2>. DEFINE k == a.next
              n == <<"resize", k + 1>>
  <2>1. k \in 1 .. Resizes /\ k + 1 \in 1 .. Resizes /\ k + 1 # 1
    BY <1>1, <1>2, <1>10, ShapeFacts DEF LastNext
  <2>2. n = InitTx(k + 1) /\ n \in TxNames /\ Rank(n[1]) = 3 /\ n # <<"resize", 1>>
    BY <2>1, InitTxFacts
  <2>3. \A m \in TxNames : u[m] = IF m \in {n} THEN "flight" ELSE t[m]
    BY <1>10, <2>2, SentFacts DEF StateTyped
  <2>4. b.stage = "init" /\ b.phase = "wait" /\ b.next = k + 1
    BY <1>10 DEF Moved
  <2>5. t[InitTx(k)] = "ok"
    BY <1>1, <1>2, <1>3, <1>10, AwaitedFacts
  <2>6. issuer /\ InitReady(a, t, payload)
    BY <1>4, <1>10 DEF Ready
  <2>7. Blank(payload, k)
    BY <1>1, <2>5, <2>6 DEF InitReady
  <2>8. Calm(b, u)
    <3>1. Rank(a.stage) = 3 /\ b.stage = a.stage /\ b.phase # "failed" /\ {n} \in SUBSET TxNames
      BY <1>10, <2>2, <2>4, RankFacts
    <3>. HIDE DEF a, b, t, u, n
    <3>. QED
      BY <1>2, <2>2, <2>3, <3>1 DEF Calm
  <2>9. \A i \in 1 .. Resizes : u[InitTx(i)] = IF i = k + 1 THEN "flight" ELSE t[InitTx(i)]
    BY <2>1, <2>2, <2>3, InitTxFacts
  <2>10. \A i \in 1 .. Resizes : i > k + 1 => t[InitTx(i)] = "unsent"
    BY <1>1, <2>1, <2>6 DEF InitReady
  <2>11. \A i \in 1 .. Resizes : i < k + 1 => t[InitTx(i)] = "ok"
    <3>1. \A i \in 1 .. Resizes : i < k => t[InitTx(i)] = "ok"
      BY <1>1, <2>1, <2>6 DEF InitReady
    <3>. QED
      BY <2>1, <2>5, <3>1
  <2>12. InitReady(b, u, payload)
    <3>1. u[InitTx(k + 1)] = "flight" /\ (k + 1) - 1 = k
      BY <2>1, <2>9
    <3>2. \A i \in 1 .. Resizes : /\ i > k + 1 => u[InitTx(i)] = "unsent"
                                  /\ i < k + 1 => u[InitTx(i)] = "ok"
      BY <2>1, <2>9, <2>10, <2>11
    <3>. HIDE DEF u, b
    <3>. QED
      BY <2>1, <2>4, <2>7, <3>1, <3>2 DEF InitReady
  <2>13. Ready(b, u, issuer, payload)
    BY <2>4, <2>6, <2>12 DEF Ready
  <2>. QED
    BY <1>1, <2>8, <2>13 DEF SmoothFor
<1>. QED
  BY <1>6, <1>7, <1>8, <1>9, <1>10, ProceedFacts DEF StateTyped

LEMMA SmoothSubmit ==
    ASSUME StateTyped, Ordered, Settled, Own, NEW f \in Flows,
           ClientStep(f) \/ ClientError(f) \/ WalletStep(f),
           flow[f].kind = "live", flow[f].stage \in SubmitStages,
           alone[f], SmoothFor(f), ~faulty'[f]
    PROVE  SmoothFor(f)'
<1>. DEFINE a == flow[f]
            b == flow'[f]
            t == tx[f]
<1>1. FlowsTyped /\ Calm(a, t) /\ OrderedFor(a, t) /\ CompletedFor(t, staged[f])
  BY DEF StateTyped, SmoothFor, Ordered, Settled
<1>2. ASSUME UNCHANGED <<issuer, payload, tx, staged>>, b.phase # "failed",
             b.stage = a.stage \/ \A n \in TxNames : t[n] # "flight",
             staged[f] = NoPayload => Ready(b, t, issuer, payload)
      PROVE  SmoothFor(f)'
  <2>1. Calm(b, t)
    <3>. HIDE DEF a, b, t
    <3>. QED
      BY <1>1, <1>2, CalmMoves
  <2>. QED
    BY <1>2, <2>1 DEF SmoothFor
<1>3. ASSUME a.phase = "check" PROVE \A n \in TxNames : t[n] # "flight"
  <2>. HIDE DEF a, t
  <2>. QED
    BY <1>1, <1>3, CalmBeforeSigning DEF a
<1>4. CASE EnsureIssuerRegistered(f)
  <2>1. /\ a.stage = "register" /\ a.phase = "check"
        /\ issuer => b.stage = "close" /\ b.phase = "check"
        /\ ~issuer => b.stage = "register" /\ b.phase = "sign"
        /\ UNCHANGED <<issuer, payload, tx, staged>>
    BY <1>1, <1>4, EnsureFacts DEF Moved
  <2>2. \A n \in TxNames : t[n] # "flight"
    BY <1>3, <2>1
  <2>3. t[Register] = "unsent"
    BY <1>1, <2>1, NotYet, TxNamesHas DEF Register
  <2>4. Ready(b, t, issuer, payload)
    BY <2>1, <2>2, <2>3, TxNamesHas DEF Ready
  <2>. QED
    BY <1>2, <2>1, <2>2, <2>4
<1>5. CASE CleanupStaleHookPayload(f)
  <2>1. /\ a.stage = "close" /\ a.phase = "check"
        /\ payload # NoPayload => b.stage = "close" /\ b.phase = "sign"
        /\ payload = NoPayload => b.stage = "init" /\ b.phase = "sign"
        /\ UNCHANGED <<issuer, payload, tx, staged>>
    BY <1>1, <1>5, CleanupFacts DEF Moved
  <2>2. \A n \in TxNames : t[n] # "flight"
    BY <1>3, <2>1
  <2>3. issuer
    BY <2>1, StagedIsLast DEF SmoothFor, Ready
  <2>4. Ready(b, t, issuer, payload)
    BY <2>1, <2>3 DEF Ready, InitReady
  <2>. QED
    BY <1>2, <2>1, <2>2, <2>4
<1>6. CASE Proceed(f)
  BY <1>6, SmoothProceed
<1>7. CASE PollFinalize(f)
  <2>1. /\ a.stage = "finalize" /\ a.phase = "wait" /\ t[Finalize] \in {"ok", "err", "gone"}
        /\ t[Finalize] = "ok" => b.stage = "finalize" /\ b.phase = "done"
        /\ UNCHANGED <<issuer, payload, tx, staged>>
    BY <1>1, <1>7, PollFacts DEF Moved
  <2>2. t[Finalize] = "ok"
    BY <1>1, <2>1, TxNamesHas DEF Calm
  <2>3. staged[f] # NoPayload
    BY <1>1, <2>2 DEF CompletedFor
  <2>. QED
    BY <1>2, <2>1, <2>2, <2>3
<1>8. CASE ClientError(f)
  <2>1. ~Fault(f)
    BY FaultFacts
  <2>2. ConfirmFails(f)
    BY <1>1, <1>8, <2>1, RejectFacts, SendFailsFacts DEF ClientError
  <2>3. a.phase = "wait" /\ t[Awaited(f)] \in {"gone", "err"}
    BY <1>1, <2>1, <2>2, ConfirmFailsFacts
  <2>. QED
    BY <1>1, <2>3, AwaitedIsOk
<1>9. CASE SignAndSend(f)
  BY <1>9, SmoothSign
<1>10. ~SdkConfirmed(f) /\ ~SdkMeasure(f) /\ ~SdkSend(f)
  BY DEF SdkConfirmed, SdkMeasure, SdkSend
<1>. QED
  BY <1>4, <1>5, <1>6, <1>7, <1>8, <1>9, <1>10 DEF ClientStep, WalletStep

\* What is said of a flow depends on the chain only until its finalize.
LEMMA SmoothElsewhere ==
    ASSUME Smooth, NEW f \in Flows, flow'[f].kind = "live", alone'[f], ~faulty'[f],
           flow'[f] = flow[f], tx'[f] = tx[f], staged'[f] = staged[f],
           alone[f], ~faulty[f],
           staged[f] # NoPayload \/ UNCHANGED <<issuer, payload>>
    PROVE  SmoothFor(f)'
BY DEF Smooth, SmoothFor

LEMMA SmoothNext ==
    ASSUME Typed, Ordered, Settled, Own, Smooth, [Next]_vars
    PROVE  Smooth'
<1>1. StateTyped /\ FlowsTyped /\ TxTyped
  BY DEF Typed, StateTyped
<1>2. ASSUME NEW f \in Flows, alone[f], flow[f].kind = "live"
      PROVE  flow[f].stage \in SubmitStages
  <2>1. flow[f] \in FlowShape /\ flow[f].stage \notin EarlyStages
    BY <1>1, <1>2 DEF FlowsTyped, Own, OwnFor
  <2>. QED
    BY <1>2, <2>1, ShapeFacts DEF Phases, SubmitStages, StageNames
<1>3. ASSUME NEW g \in Flows, flow'[g].kind = "live", alone'[g], ~faulty'[g]
      PROVE  SmoothFor(g)'
  <2>1. ASSUME UNCHANGED <<issuer, payload, tx, flow, alone, faulty, staged>>
        PROVE  SmoothFor(g)'
    BY <1>3, <2>1, SmoothElsewhere
  \* A flow h other than g starts or moves, and sends nothing.
  <2>2. ASSUME NEW h \in Flows, h # g, UNCHANGED <<issuer, payload, tx, faulty, staged>>,
               flow'[g] = flow[g], alone'[g] = alone[g]
        PROVE  SmoothFor(g)'
    BY <1>3, <2>2, SmoothElsewhere
  <2>3. ASSUME NEW f \in Flows, FlowStep(f) PROVE SmoothFor(g)'
    <3>1. UNCHANGED <<issuer, payload, tx, faulty, staged>> /\ flow[f].phase = "call"
      BY <1>1, <2>3, FlowStepFacts
    <3>2. \A h \in Flows \ {f} : flow'[h] = flow[h] /\ alone'[h] = alone[h]
      BY <1>1, <2>3, FlowStepFacts DEF Moved, TxTyped
    <3>3. CASE g # f
      BY <2>2, <3>1, <3>2, <3>3
    <3>4. CASE g = f
      <4>1. flow[g].kind = "demo" \/ flow[g].stage \in EarlyStages
        BY <1>1, <3>1, <3>4, CallStages
      <4>2. ~alone[g]
        BY <4>1 DEF Own, OwnFor
      <4>3. flow[g].stage = "prove" /\ Moved(g, "register", "check", 1)
        BY <1>1, <1>3, <2>3, <3>4, <4>2, FlowStepFacts
      <4>4. flow'[g].stage = "register" /\ flow'[g].phase = "check"
        BY <4>3 DEF Moved
      <4>5. \A n \in TxNames : tx[g][n] = "unsent"
        BY <4>3, NothingSent DEF EarlyStages
      <4>6. Calm(flow'[g], tx[g])
        BY <4>4, <4>5 DEF Calm
      <4>7. Ready(flow'[g], tx[g], issuer, payload)
        BY <4>4, <4>5, TxNamesHas DEF Ready
      <4>. QED
        BY <3>1, <4>6, <4>7 DEF SmoothFor
    <3>. QED
      BY <3>3, <3>4
  <2>4. ASSUME NEW f \in Flows, Submit(f) PROVE SmoothFor(g)'
    <3>1. ClientStep(f) \/ ClientError(f) \/ WalletStep(f)
      BY <2>4 DEF Submit
    <3>2. /\ UNCHANGED <<issuer, payload, staged>>
          /\ \A h \in Flows \ {f} : /\ tx'[h] = tx[h] /\ faulty'[h] = faulty[h]
                                    /\ flow'[h] = flow[h] /\ (alone'[h] => alone[h])
          /\ alone'[f] = alone[f] /\ (~faulty'[f] => ~faulty[f])
          /\ flow'[f].kind = flow[f].kind
      BY <1>1, <3>1, SubmitChain, SubmitFacts DEF Moved
    <3>3. CASE g # f
      <4>1. /\ tx'[g] = tx[g] /\ flow'[g] = flow[g] /\ staged'[g] = staged[g]
            /\ alone[g] /\ ~faulty[g] /\ UNCHANGED <<issuer, payload>>
        BY <1>3, <3>2, <3>3
      <4>. QED
        BY <1>3, <4>1, SmoothElsewhere
    <3>4. CASE g = f
      <4>1. flow[g].kind = "live" /\ alone[g] /\ ~faulty[g]
        BY <1>3, <3>2, <3>4
      <4>2. flow[g].stage \in SubmitStages /\ SmoothFor(g)
        BY <1>2, <4>1 DEF Smooth
      <4>. QED
        BY <1>1, <1>3, <3>1, <3>4, <4>1, <4>2, SmoothSubmit
    <3>. QED
      BY <3>3, <3>4
  <2>5. ASSUME NEW f \in Flows, Network(f) PROVE SmoothFor(g)'
    <3>1. PICK n \in TxNames : Land(f, n) \/ Expire(f, n)
      BY <2>5 DEF Network, NetworkStep
    <3>2. /\ tx[f][n] = "flight" /\ UNCHANGED <<flow, alone>>
          /\ \A h \in Flows \ {f} : tx'[h] = tx[h] /\ staged'[h] = staged[h]
          /\ \A h \in Flows : ~faulty'[h] => ~faulty[h]
      BY <1>1, <3>1, LandFacts, ExpireFacts
    <3>3. flow[g].kind = "live" /\ alone[g] /\ ~faulty[g]
      BY <1>3, <3>2
    <3>4. CASE g # f
      <4>1. InFlight(f) # {}
        BY <3>2 DEF InFlight
      <4>2. staged[g] # NoPayload
        BY <3>3, <3>4, <4>1 DEF Own, OwnFor
      <4>. QED
        BY <1>3, <3>2, <3>3, <3>4, <4>2, SmoothElsewhere
    <3>5. CASE g = f
      <4>1. Land(g, n)
        BY <1>1, <1>3, <3>1, <3>5, ExpireFacts
      <4>2. flow[g].stage \in SubmitStages /\ SmoothFor(g)
        BY <1>2, <3>3 DEF Smooth
      <4>. QED
        BY <1>1, <1>3, <3>3, <4>1, <4>2, SmoothLand
    <3>. QED
      BY <3>4, <3>5
  <2>6. CASE Upload
    <3>1. PICK f \in Flows :
                /\ Began(f, "sdk", "init", "sign")
                /\ alone' = [alone EXCEPT ![f] = Quiet(f) /\ payload = NoPayload]
                /\ UNCHANGED <<issuer, payload, tx, faults, faulty, staged>>
      BY <1>1, <2>6, UploadFacts
    <3>2. g # f /\ flow'[g] = flow[g]
      BY <1>3, <3>1 DEF Began
    <3>. QED
      BY <1>1, <2>2, <3>1, <3>2 DEF TxTyped
  <2>7. ASSUME NEW wallet \in Wallets, RunLive(wallet) \/ RunDemo(wallet) PROVE SmoothFor(g)'
    <3>1. UNCHANGED <<issuer, payload, tx, alone, faulty, staged>>
      BY <2>7, RunFacts
    <3>2. CASE UNCHANGED flow
      BY <2>1, <3>1, <3>2
    <3>3. ASSUME NEW f \in Flows, NEW kind, NEW st, Began(f, kind, st, "call")
          PROVE  SmoothFor(g)'
      <4>1. flow[f].kind = "none" /\ \A h \in Flows \ {f} : flow'[h] = flow[h]
        BY <3>3 DEF Began
      <4>2. ~alone[f]
        BY <4>1 DEF Own, OwnFor
      <4>3. g # f
        BY <1>3, <3>1, <4>2
      <4>. QED
        BY <2>2, <3>1, <4>1, <4>3
    <3>. QED
      BY <2>7, <3>2, <3>3, RunFacts
  <2>8. CASE Reset \/ Remount
    BY <2>1, <2>8 DEF Reset, Remount, uvars
  <2>9. CASE UNCHANGED vars
    BY <2>1, <2>9 DEF vars, uvars
  <2>. QED
    BY <2>3, <2>4, <2>5, <2>6, <2>7, <2>8, <2>9 DEF Next
<1>. QED
  BY <1>3 DEF Smooth

-----------------------------------------------------------------------------
(* The theorems.                                                           *)

LEMMA InitHolds == Init => FlowInv
<1>. SUFFICES ASSUME Init PROVE FlowInv
  OBVIOUS
<1>1. Typed /\ Page
  BY InitTyped
<1>2. /\ \A f \in Flows : \A n \in TxNames : tx[f][n] = "unsent"
      /\ \A f \in Flows : flow[f].phase = "off" /\ staged[f] = NoPayload /\ ~alone[f]
      /\ ui = InitialState
  BY DEF Init, UploadInit, NewFlow
<1>3. Ordered
  BY <1>2 DEF Ordered, OrderedFor
<1>4. Settled
  <2>1. \A f \in Flows : CompletedFor(tx[f], staged[f])
    BY <1>2, TxNamesHas DEF CompletedFor
  <2>2. ~SaysVerified
    BY <1>2, InitialShows, NotDone DEF SaysVerified, SummaryShown, isDone
  <2>. QED
    BY <1>2, <2>1, <2>2 DEF Settled
<1>5. Own
  BY <1>2 DEF Own
<1>6. Smooth
  BY <1>2 DEF Smooth
<1>. QED
  BY <1>1, <1>3, <1>4, <1>5, <1>6 DEF FlowInv

LEMMA NextHolds == FlowInv /\ [Next]_vars => FlowInv'
<1>. SUFFICES ASSUME FlowInv, [Next]_vars PROVE FlowInv'
  OBVIOUS
<1>1. Typed /\ Page /\ Ordered /\ Settled /\ Own /\ Smooth
  BY DEF FlowInv
<1>2. Typed' /\ Page'
  BY <1>1, TypedNext
<1>3. Ordered'
  BY <1>1, OrderedNext
<1>4. Settled'
  BY <1>1, SettledNext
<1>5. Own'
  BY <1>1, OwnNext
<1>6. Smooth'
  BY <1>1, SmoothNext
<1>. QED
  BY <1>2, <1>3, <1>4, <1>5, <1>6 DEF FlowInv

\* The inductive invariant holds of every behaviour of the prove page, the SDK
\* client and the network.
THEOREM FlowsInvariant == Spec => []FlowInv
<1>. QED
  BY InitHolds, NextHolds, PTL DEF Spec

\* The page, the account and the fates of the transactions keep their types, and
\* no loop of the two clients counts beyond the last resize and the last write
\* (flowReducer, buildResizeIxs, uploadProofChunked).
THEOREM TypeCorrect == Spec => []TypeOK
<1>1. FlowInv => TypeOK
  <2>. SUFFICES ASSUME FlowInv PROVE TypeOK
    OBVIOUS
  <2>1. StateTyped /\ PageTyped
    BY DEF FlowInv, Typed
  <2>2. ASSUME NEW f \in Flows PROVE flow[f].next \in 1 .. Resizes + Writes
    <3>1. flow[f] \in FlowShape
      BY <2>1 DEF StateTyped, FlowsTyped
    <3>2. flow[f].next \in 1 .. LastNext(flow[f].kind, flow[f].stage)
      BY <3>1, ShapeFacts
    <3>3. LastNext(flow[f].kind, flow[f].stage) \in {Resizes, Writes, 1}
      BY DEF LastNext
    <3>4. Resizes \in Nat \ {0} /\ Writes \in Nat \ {0}
      BY Sizes
    <3>. QED
      BY <3>2, <3>3, <3>4
  <2>3. tx \in [Flows -> [TxNames -> Fates]]
    BY <2>1 DEF StateTyped, TxTyped, TxState
  <2>4. ui \in UiState
    BY <2>1 DEF PageTyped
  <2>. QED
    BY <2>1, <2>2, <2>3, <2>4 DEF TypeOK, StateTyped, UiState
<1>. QED
  BY <1>1, FlowsInvariant, PTL

\* At any time at most one flow of the page on screen is alive, a step is shown
\* as running exactly then, and the steps are shown in order (flowReducer, the
\* dispatches of runFlow, runningRef).
THEOREM OneRunnerHolds == Spec => []OneRunner
<1>1. FlowInv => OneRunner
  <2>. SUFFICES ASSUME FlowInv PROVE OneRunner
    OBVIOUS
  <2>1. Typed /\ Page
    BY DEF FlowInv
  <2>. DEFINE mine == {f \in Flows : owner[f] = mount /\ Alive(f)}
  <2>2. \A f \in Flows : f \in mine <=> Mine(f)
    BY DEF Mine
  <2>3. running <=> mine # {}
    BY <2>1, <2>2 DEF Page
  <2>4. Cardinality(mine) <= 1
    <3>1. CASE mine = {}
      BY <3>1, FS_EmptySet
    <3>2. CASE mine # {}
      <4>1. PICK f \in mine : TRUE
        BY <3>2
      <4>2. mine = {f}
        BY <2>1, <2>2, <4>1 DEF Page
      <4>3. Cardinality({f}) = 1
        BY FS_Singleton
      <4>. HIDE DEF mine
      <4>. QED
        BY <4>2, <4>3
    <3>. QED
      BY <3>1, <3>2
  <2>5. PICK k \in 0 .. 6, st \in {"idle", "error", "running"} :
           /\ ui.steps = Shown(k, st)
           /\ running <=> st = "running"
           /\ running => k \in 0 .. 4
    <3>1. CASE running
      <4>1. PICK f \in Flows : Mine(f)
        BY <2>1, <3>1 DEF Page
      <4>2. ui.steps = Shown(StepOf(flow[f].stage), "running")
        BY <2>1, <4>1 DEF Page
      <4>3. StepOf(flow[f].stage) \in 0 .. 4
        BY StepOfIsStep
      <4>. QED
        BY <3>1, <4>2, <4>3
    <3>2. CASE ~running
      BY <2>1, <3>2 DEF Page
    <3>. QED
      BY <3>1, <3>2
  <2>6. \A i, j \in STEPS : i < j /\ ui.steps[j] # "idle" => ui.steps[i] = "success"
    BY <2>5 DEF Shown, STEPS
  <2>7. isRunning <=> running
    <3>1. \A i \in STEPS : ui.steps[i] = "running" <=> i = k /\ st = "running"
      BY <2>5 DEF Shown, STEPS
    <3>2. running => k \in STEPS
      BY <2>5 DEF STEPS
    <3>. QED
      BY <2>5, <3>1, <3>2 DEF isRunning
  <2>. QED
    BY <2>3, <2>4, <2>6, <2>7 DEF OneRunner
<1>. QED
  BY <1>1, FlowsInvariant, PTL

\* "Settlement verified" is shown only of a flow whose own finalize was executed
\* on a payload with every chunk written, whatever the other flows and the
\* network did meanwhile (rebroadcastUntilLandedOrExpired,
\* finalize_hook_payload).
THEOREM VerifiedIsFinal == Spec => []VerifiedMeansFinalized
<1>1. FlowInv => VerifiedMeansFinalized
  <2>. SUFFICES ASSUME FlowInv, SaysVerified
                PROVE  /\ tx[ui.txSignature][<<"finalize", 1>>] = "ok"
                       /\ staged[ui.txSignature].finalized
                       /\ staged[ui.txSignature].high_water_mark = LEN
    BY DEF VerifiedMeansFinalized
  <2>. DEFINE f == ui.txSignature
  <2>1. Settled
    BY DEF FlowInv
  <2>2. f \in Flows /\ tx[f][Finalize] = "ok"
    BY <2>1 DEF Settled
  <2>3. CompletedFor(tx[f], staged[f])
    BY <2>1, <2>2 DEF Settled
  <2>. QED
    BY <2>2, <2>3 DEF CompletedFor, Finalize
<1>. QED
  BY <1>1, FlowsInvariant, PTL

\* What a finalize completed without others at the payload is the flow's own
\* proof, whole and in order, and its own claim, for every proof length and
\* batch size and although failed transactions are taken for confirmed ones
\* (runStepSubmit, uploadProofChunked).
THEOREM ProofIsOwn == Spec => []OwnProofStaged
<1>1. FlowInv => OwnProofStaged
  BY DEF FlowInv, OwnProofStaged, Own, OwnFor, WholeOwn
<1>. QED
  BY <1>1, FlowsInvariant, PTL

\* An upload from the page that has the payload to itself, is rejected by
\* nobody, loses no transaction and has its writes land in order does not fail,
\* whatever state of the chain it starts from ("Reset and try again":
\* ensureIssuerRegistered, cleanupStaleHookPayload, runStepSubmit).
THEOREM RetryHelps == Spec => []RetrySucceeds
<1>1. FlowInv => RetrySucceeds
  BY DEF FlowInv, RetrySucceeds, Smooth, SmoothFor, Calm
<1>. QED
  BY <1>1, FlowsInvariant, PTL

-----------------------------------------------------------------------------
(* Staging.  The wallet's account, as ProofStaging sees it, takes a step     *)
(* only when a transaction lands.                                            *)

\* What the abstract account of a payload is.
AccountFor(p) ==
    [stage |-> IF p.finalized THEN "final" ELSE "staging", length |-> LEN,
     content |-> [i \in 1 .. p.high_water_mark |-> p.data[i]], claim |-> p.claim]

NoAccount == [stage |-> "none", length |-> 0, content |-> <<>>, claim |-> 0]

AccountStaged == [k \in {"wallet"} |-> StagedAccount]

LEMMA AccountsShown ==
    /\ payload = NoPayload => StagedAccount = NoAccount
    /\ payload \in Payload => StagedAccount = AccountFor(payload)
    /\ payload' = NoPayload => StagedAccount' = NoAccount
    /\ payload' \in Payload => StagedAccount' = AccountFor(payload')
    /\ payload' = payload => StagedAccount' = StagedAccount
BY PayloadsAreSome DEF StagedAccount, NoAccount, AccountFor

\* One account becomes another one.
LEMMA AccountBecomes ==
    ASSUME NEW a, StagedAccount' = a
    PROVE  Staging!Becomes("wallet", a)
BY DEF Staging!Becomes

\* A function on 1 .. n is a sequence of length n.
LEMMA FunctionIsSeq ==
    ASSUME NEW S, NEW n \in Nat, NEW f \in [1 .. n -> S]
    PROVE  f \in Seq(S) /\ Len(f) = n
<1>1. f \in Seq(S)
  BY SeqDef
<1>2. Len(f) \in Nat /\ 1 .. Len(f) = 1 .. n
  BY <1>1, LenProperties
<1>. QED
  BY <1>1, <1>2

\* A payload has as many chunks written as its high-water mark says.
LEMMA WrittenChunks ==
    ASSUME NEW p \in Payload
    PROVE  /\ p.high_water_mark \in Nat /\ p.high_water_mark <= LEN
           /\ LEN \in Nat
           /\ \A i \in 1 .. p.high_water_mark : p.data[i] \in Flows \cup {0}
           /\ Len([i \in 1 .. p.high_water_mark |-> p.data[i]]) = p.high_water_mark
<1>1. /\ p.high_water_mark \in Nat /\ p.high_water_mark <= LEN /\ LEN \in Nat
      /\ p.data \in [1 .. LEN -> Flows \cup {0}]
  BY Sizes DEF Payload
<1>2. \A i \in 1 .. p.high_water_mark : p.data[i] \in Flows \cup {0}
  BY <1>1
<1>3. [i \in 1 .. p.high_water_mark |-> p.data[i]]
         \in [1 .. p.high_water_mark -> Flows \cup {0}]
  BY <1>2
<1>4. [i \in 1 .. p.high_water_mark |-> p.data[i]] \in Seq(Flows \cup {0})
  BY <1>1, <1>3, FunctionIsSeq
<1>. QED
  BY <1>1, <1>2, <1>3, <1>4, LenProperties

\* m chunks and n more of a flow.
LEMMA Appended ==
    ASSUME NEW S, NEW m \in Nat, NEW n \in Nat, NEW p \in S,
           NEW f, \A i \in 1 .. m : f[i] \in S
    PROVE  [i \in 1 .. m |-> f[i]] \o [i \in 1 .. n |-> p]
              = [i \in 1 .. m + n |-> IF i \in m + 1 .. m + n THEN p ELSE f[i]]
<1>. DEFINE old == [i \in 1 .. m |-> f[i]]
            new == [i \in 1 .. n |-> p]
            all == [i \in 1 .. m + n |-> IF i \in m + 1 .. m + n THEN p ELSE f[i]]
<1>1. old \in Seq(S) /\ Len(old) = m
  BY FunctionIsSeq
<1>2. new \in Seq(S) /\ Len(new) = n
  BY FunctionIsSeq
<1>3. all \in Seq(S) /\ Len(all) = m + n
  <2>1. m + n \in Nat /\ all \in [1 .. m + n -> S]
    OBVIOUS
  <2>. QED
    BY <2>1, FunctionIsSeq
<1>4. /\ old \o new \in Seq(S)
      /\ Len(old \o new) = m + n
      /\ \A i \in 1 .. m + n : (old \o new)[i] = IF i <= m THEN old[i] ELSE new[i - m]
  <2>. HIDE DEF old, new
  <2>. QED
    BY <1>1, <1>2, ConcatProperties
<1>5. \A i \in 1 .. m + n : (old \o new)[i] = all[i]
  BY <1>4
<1>. HIDE DEF old, new, all
<1>6. old \o new = all
  BY <1>3, <1>4, <1>5, SeqEqual
<1>. QED
  BY <1>6 DEF old, new, all

\* Each write has at least a chunk.
LEMMA WritesChunks ==
    ASSUME NEW i \in 1 .. Writes
    PROVE  /\ WriteFrom(i) \in Nat /\ WriteTo(i) \in 0 .. LEN
           /\ WriteFrom(i) < WriteTo(i)
<1>1. /\ WRITES_PER_TX \in Nat \ {0} /\ LEN \in Nat \ {0} /\ Writes \in Nat \ {0}
      /\ (Writes - 1) * WRITES_PER_TX < LEN
  BY Sizes, UploadNumbers
<1>2. (i - 1) * WRITES_PER_TX < i * WRITES_PER_TX
  <2>1. i * WRITES_PER_TX = (i - 1) * WRITES_PER_TX + WRITES_PER_TX
    BY <1>1
  <2>2. (i - 1) * WRITES_PER_TX \in Int
    BY <1>1
  <2>. QED
    BY <1>1, <2>1, <2>2
<1>. QED
  BY <1>1, <1>2, WriteBounds DEF WriteFrom, WriteTo

\* A write appends its chunks.
LEMMA WriteStages ==
    ASSUME FlowsTyped, NEW f \in Flows, NEW n \in TxNames,
           payload \in Payload \cup {NoPayload}, Succeeds(n), n[1] = "write",
           payload' = Effect(f, n)
    PROVE  Staging!StagingNext
<1>. DEFINE p == payload
            q == Effect(f, n)
            h == p.high_water_mark
            b == WriteTo(n[2]) - h
<1>1. /\ p \in Payload /\ ~p.finalized /\ q \in Payload /\ ~q.finalized
      /\ h = WriteFrom(n[2]) /\ q.high_water_mark = WriteTo(n[2])
      /\ \A i \in 1 .. LEN :
            q.data[i] = IF i \in h + 1 .. WriteTo(n[2]) THEN f ELSE p.data[i]
  BY EffectFacts
<1>2. q.claim = p.claim
  BY <1>1 DEF Effect, Payload
<1>3. /\ h \in Nat /\ b \in 1 .. LEN /\ h + b = WriteTo(n[2]) /\ h + b <= LEN
      /\ LEN \in Nat
  BY <1>1, TxNameFacts, WritesChunks, Sizes
<1>4. /\ \A i \in 1 .. h : p.data[i] \in Flows \cup {0}
      /\ Len([i \in 1 .. h |-> p.data[i]]) = h
  BY <1>1, WrittenChunks
<1>5. \A i \in 1 .. h + b : q.data[i] = IF i \in h + 1 .. h + b THEN f ELSE p.data[i]
  BY <1>1, <1>3
<1>. HIDE DEF q, h, b
<1>. DEFINE old == [i \in 1 .. h |-> p.data[i]]
            all == [i \in 1 .. h + b |-> q.data[i]]
<1>6. all = old \o [i \in 1 .. b |-> f]
  <2>. DEFINE S == Flows \cup {0}
              pd == p.data
              qd == q.data
  <2>1. /\ f \in S /\ h \in Nat /\ b \in Nat /\ \A i \in 1 .. h : pd[i] \in S
        /\ \A i \in 1 .. h + b : qd[i] = IF i \in h + 1 .. h + b THEN f ELSE pd[i]
    BY <1>3, <1>4, <1>5
  <2>. HIDE DEF S, pd, qd
  <2>2. [i \in 1 .. h + b |-> qd[i]]
           = [i \in 1 .. h + b |-> IF i \in h + 1 .. h + b THEN f ELSE pd[i]]
    BY <2>1
  <2>3. [i \in 1 .. h |-> pd[i]] \o [i \in 1 .. b |-> f]
           = [i \in 1 .. h + b |-> IF i \in h + 1 .. h + b THEN f ELSE pd[i]]
    BY <2>1, Appended
  <2>. QED
    BY <2>2, <2>3 DEF pd, qd
<1>7. StagedAccount = [stage |-> "staging", length |-> LEN, content |-> old,
                       claim |-> p.claim]
  BY <1>1, AccountsShown DEF AccountFor, h
<1>8. StagedAccount' = [stage |-> "staging", length |-> LEN, content |-> all,
                        claim |-> p.claim]
  <2>1. payload' = q
    BY DEF q
  <2>2. StagedAccount' = AccountFor(q)
    BY <1>1, <2>1, AccountsShown
  <2>. QED
    BY <1>1, <1>2, <1>3, <2>2 DEF AccountFor
<1>9. StagedAccount' = [StagedAccount EXCEPT !.content = @ \o [i \in 1 .. b |-> f]]
  <2>. HIDE DEF old, all
  <2>. DEFINE c == [StagedAccount EXCEPT !.content = @ \o [i \in 1 .. b |-> f]]
  <2>1. /\ c \in [stage : {"staging"}, length : {LEN}, content : {all},
                  claim : {p.claim}]
    BY <1>6, <1>7
  <2>. HIDE DEF c
  <2>2. c = StagedAccount'
    BY <1>8, <2>1
  <2>. QED
    BY <2>2 DEF c
<1>10. /\ StagedAccount.stage = "staging" /\ StagedAccount.length = LEN
       /\ Len(StagedAccount.content) = h
  BY <1>4, <1>7
<1>11. Staging!Write("wallet", f, b)
  BY <1>3, <1>9, <1>10, AccountBecomes DEF Staging!Write
<1>12. b \in 1 .. StagedAccount.length
  BY <1>3, <1>10
<1>. QED
  BY <1>11, <1>12 DEF Staging!StagingNext

\* A landing transaction is a step of ProofStaging or does not touch what its
\* owner sees.
LEMMA LandStages ==
    ASSUME StateTyped, NEW f \in Flows, NEW n \in TxNames, Land(f, n)
    PROVE  StagedAccount' = StagedAccount \/ Staging!StagingNext
<1>1. /\ FlowsTyped /\ payload \in Payload \cup {NoPayload}
      /\ payload' = IF Succeeds(n) THEN Effect(f, n) ELSE payload
  BY LandFacts DEF StateTyped
<1>2. CASE ~Succeeds(n) \/ n[1] = "register"
  BY <1>1, <1>2, EffectFacts, AccountsShown
<1>3. CASE Succeeds(n) /\ n[1] = "close"
  <2>1. payload \in Payload /\ payload' = NoPayload
    BY <1>1, <1>3, EffectFacts
  <2>2. StagedAccount.stage # "none" /\ StagedAccount' = NoAccount
    BY <2>1, AccountsShown DEF AccountFor
  <2>3. Staging!Close("wallet")
    BY <2>2, AccountBecomes DEF Staging!Close, Staging!Absent, NoAccount
  <2>. QED
    BY <2>3 DEF Staging!StagingNext
<1>4. CASE Succeeds(n) /\ n[1] = "init"
  <2>1. /\ payload = NoPayload /\ payload' \in Payload
        /\ payload' = Effect(f, n) /\ Effect(f, n).high_water_mark = 0
        /\ ~Effect(f, n).finalized /\ Effect(f, n).claim = 0
    BY <1>1, <1>4, EffectFacts DEF Effect, NewPayload
  <2>2. StagedAccount = NoAccount /\ StagedAccount' = AccountFor(Effect(f, n))
    BY <2>1, AccountsShown
  <2>3. AccountFor(Effect(f, n)) = [stage |-> "staging", length |-> LEN,
                                    content |-> <<>>, claim |-> 0]
    BY <2>1 DEF AccountFor
  <2>. DEFINE opened == [stage |-> "staging", length |-> LEN,
                         content |-> <<>>, claim |-> 0]
  <2>4. /\ AccountStaged["wallet"].stage = "none"
        /\ AccountStaged' = [AccountStaged EXCEPT !["wallet"] = opened]
    BY <2>2, <2>3 DEF AccountStaged, NoAccount
  <2>5. Staging!Open("wallet", LEN)
    BY <2>4 DEF AccountStaged, Staging!Open, Staging!Becomes, Staging!Absent
  <2>. QED
    BY <2>5 DEF Staging!StagingNext
<1>5. CASE Succeeds(n) /\ n[1] = "resize"
  <2>1. /\ payload \in Payload /\ ~payload.finalized /\ payload' \in Payload
        /\ payload' = Effect(f, n)
        /\ Effect(f, n).data = payload.data /\ ~Effect(f, n).finalized
        /\ Effect(f, n).high_water_mark = payload.high_water_mark
    BY <1>1, <1>5, EffectFacts
  <2>2. Effect(f, n).claim = payload.claim
    BY <1>5, <2>1 DEF Effect, Payload
  <2>. QED
    BY <2>1, <2>2, AccountsShown DEF AccountFor
<1>6. CASE Succeeds(n) /\ n[1] = "write"
  BY <1>1, <1>6, WriteStages
<1>7. CASE Succeeds(n) /\ n[1] = "finalize"
  <2>. DEFINE p == payload
              q == Effect(f, n)
              old == [i \in 1 .. LEN |-> p.data[i]]
  <2>1. /\ p \in Payload /\ ~p.finalized /\ payload' = q /\ q \in Payload
        /\ p.high_water_mark = LEN /\ q.high_water_mark = LEN /\ q.finalized
        /\ q.data = p.data /\ q.claim = f
    BY <1>1, <1>7, EffectFacts
  <2>2. Len(old) = LEN
    BY <2>1, WrittenChunks
  <2>. HIDE DEF q
  <2>3. StagedAccount = [stage |-> "staging", length |-> LEN, content |-> old,
                         claim |-> p.claim]
    BY <2>1, AccountsShown DEF AccountFor
  <2>4. StagedAccount' = [stage |-> "final", length |-> LEN, content |-> old,
                          claim |-> f]
    BY <2>1, AccountsShown DEF AccountFor
  <2>. HIDE DEF old
  <2>5. StagedAccount' = [StagedAccount EXCEPT !.stage = "final", !.claim = f]
    <3>. DEFINE c == [StagedAccount EXCEPT !.stage = "final", !.claim = f]
    <3>1. c \in [stage : {"final"}, length : {LEN}, content : {old}, claim : {f}]
      BY <2>3
    <3>. HIDE DEF c
    <3>2. c = StagedAccount'
      BY <2>4, <3>1
    <3>. QED
      BY <3>2 DEF c
  <2>6. Staging!Finalize("wallet", f)
    BY <2>2, <2>3, <2>5, AccountBecomes DEF Staging!Finalize
  <2>. QED
    BY <2>6 DEF Staging!StagingNext
<1>. QED
  BY <1>2, <1>3, <1>4, <1>5, <1>6, <1>7, TxNameFacts DEF TxKinds

\* Every other step leaves the account alone.
LEMMA StepStages ==
    ASSUME FlowInv, [Next]_vars
    PROVE  StagedAccount' = StagedAccount \/ Staging!StagingNext
<1>1. StateTyped /\ FlowsTyped /\ Typed /\ Ordered
  BY DEF FlowInv, Typed, StateTyped
<1>2. ASSUME NEW f \in Flows, Network(f)
      PROVE  StagedAccount' = StagedAccount \/ Staging!StagingNext
  <2>1. CASE \E n \in TxNames : Land(f, n)
    BY <1>1, <2>1, LandStages
  <2>2. CASE \E n \in TxNames : Expire(f, n)
    BY <2>2, AccountsShown DEF Expire
  <2>. QED
    BY <1>2, <2>1, <2>2 DEF Network, NetworkStep
<1>3. ASSUME NEW f \in Flows, FlowStep(f) \/ Submit(f) PROVE payload' = payload
  BY <1>1, <1>3, FlowStepFacts, SubmitChain DEF Submit
<1>4. ASSUME \/ \E wallet \in Wallets : RunLive(wallet) \/ RunDemo(wallet)
             \/ Reset \/ Remount \/ Upload \/ UNCHANGED vars
      PROVE  payload' = payload
  BY <1>4 DEF RunLive, RunDemo, Reset, Remount, Upload, StartUpload, vars, uvars
<1>. QED
  BY <1>2, <1>3, <1>4, AccountsShown DEF Next

\* Whatever transactions of whatever attempts land in whatever order, the
\* wallet's payload account is written front to back, completed once and then
\* only closed (runStepSubmit, uploadProofChunked, transfer_hook/handlers.rs).
THEOREM StagingRefinement == Spec => ImplementsStaging
<1>1. Init => Staging!StagingInit
  BY AccountsShown DEF Init, UploadInit, Staging!StagingInit, Staging!Absent, NoAccount
<1>2. FlowInv /\ [Next]_vars
         => [Staging!StagingNext]_AccountStaged
  BY StepStages DEF AccountStaged
<1>3. QED
  BY <1>1, <1>2, FlowsInvariant, PTL
     DEF Spec, ImplementsStaging, Staging!StagingSpec, AccountStaged
=============================================================================

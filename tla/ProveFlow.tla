------------------------------ MODULE ProveFlow ------------------------------
(***************************************************************************)
(* The prove page of the dashboard: the reducer of lib/prove-flow.ts, the  *)
(* six steps of hooks/use-prove-flow.ts and the panel that starts and      *)
(* shows them, next to an SDK client that uploads a proof for the same     *)
(* wallet.  The submit step is that of ProofUpload.                        *)
(*                                                                         *)
(* The page may be left and opened again: React then keeps neither the     *)
(* reducer's state nor runningRef, while the flow that was running goes on *)
(* and its dispatches are dropped.                                         *)
(***************************************************************************)
EXTENDS ProofUpload

CONSTANTS
    Versions,   \* the versions of the issuer's trees that calls may find
    MaxMounts   \* bound on how often the page is opened

VARIABLES
    ui,         \* FlowState
    mount,      \* which mount of the page is on screen
    owner,      \* the mount that started each flow
    running     \* runningRef.current of the mount on screen

vars == <<uvars, ui, mount, owner, running>>

\* What is connected when a button is rendered: nothing, a wallet that cannot
\* sign batches, or one that can.
Wallets == {"none", "basic", "batch"}

STEPS == 0 .. 5
StepStatus == {"idle", "running", "success", "error"}

InitialState ==
    [steps |-> [i \in STEPS |-> "idle"], currentStep |-> -1, mode |-> "live",
     txSignature |-> 0, missing |-> FALSE]

Init ==
    /\ UploadInit
    /\ ui = InitialState
    /\ mount = 1 /\ owner = [f \in Flows |-> 0] /\ running = FALSE

-----------------------------------------------------------------------------
(* flowReducer.                                                            *)

StartFlow(s, mode) == [InitialState EXCEPT !.currentStep = 0, !.mode = mode]

StepRunning(s, i) == [s EXCEPT !.steps[i] = "running", !.currentStep = i]

StepSuccess(s, i) == [s EXCEPT !.steps[i] = "success", !.currentStep = i + 1]

\* currentStep stays.
StepError(s, i) == [s EXCEPT !.steps[i] = "error"]

SetTx(s, f) == [s EXCEPT !.txSignature = f]

\* Step i ends and step i + 1 begins.
Pass(s, i) == StepRunning(StepSuccess(s, i), i + 1)

\* A dispatch of a flow whose page is gone has no effect.
Dispatch(f, s) == ui' = IF owner[f] = mount THEN s ELSE ui

-----------------------------------------------------------------------------
(* The panel.                                                              *)

hasStarted == ui.currentStep >= 0
isDone == ui.steps[5] = "success"
hasError == \E i \in STEPS : ui.steps[i] = "error"
isRunning == \E i \in STEPS : ui.steps[i] = "running"

\* The intro card has the form and the two buttons.  It fades for 0.2 s after
\* the flow started, with its buttons still there: at most until the first
\* answer of the flow.
IntroClickable ==
    \/ ~hasStarted
    \/ \E f \in Flows : owner[f] = mount /\ flow[f].stage \in {"credential", "demo"}

\* "Run with test data instead", when step 1 found no credential.
DemoInstead == ui.steps[1] = "error" /\ ui.missing

\* The summary card: "Settlement verified" unless it was a demo.
SummaryShown == isDone
SaysVerified == SummaryShown /\ ui.mode = "live"

Free == {f \in Flows : flow[f].kind = "none"}
NextFlow == CHOOSE f \in Free : \A g \in Free : f <= g

\* START_FLOW, and step 0 with the wallet of this render.
Started(mode) == StepRunning(StartFlow(ui, mode), 0)

\* Mutated: no guard against a second click.
EvenIfRunning == TRUE

\* runFlow: returns at once when a flow of this mount is running.
NotRunning == ~running

\* A live flow: the wallet must be there and sign batches.
RunLive(wallet) ==
    /\ IntroClickable /\ NotRunning /\ Free # {}
    /\ IF wallet = "batch"
       THEN /\ flow' = [flow EXCEPT ![NextFlow] =
                  [NewFlow EXCEPT !.kind = "live", !.stage = "credential", !.phase = "call"]]
            /\ owner' = [owner EXCEPT ![NextFlow] = mount]
            /\ running' = TRUE
            /\ ui' = Pass(Started("live"), 0)
       ELSE /\ ui' = IF wallet = "none" THEN StepError(Started("live"), 0)
                     ELSE StepError(StepSuccess(Started("live"), 0), 1)
            /\ UNCHANGED <<flow, owner, running>>
    /\ UNCHANGED <<issuer, payload, tx, faults, alone, faulty, staged>>
    /\ UNCHANGED mount

\* A demo: steps 1 and 2 pass at once, only the proof of the fixture is made.
RunDemo(wallet) ==
    /\ IntroClickable \/ DemoInstead
    /\ NotRunning /\ Free # {}
    /\ IF wallet # "none"
       THEN /\ flow' = [flow EXCEPT ![NextFlow] =
                  [NewFlow EXCEPT !.kind = "demo", !.stage = "demo", !.phase = "call"]]
            /\ owner' = [owner EXCEPT ![NextFlow] = mount]
            /\ running' = TRUE
            /\ ui' = Pass(Pass(Pass(Started("demo"), 0), 1), 2)
       ELSE /\ ui' = StepError(Started("demo"), 0)
            /\ UNCHANGED <<flow, owner, running>>
    /\ UNCHANGED <<issuer, payload, tx, faults, alone, faulty, staged>>
    /\ UNCHANGED mount

\* "Reset and try again" on an error, "Run again" on the summary.
Reset ==
    /\ hasError \/ isDone
    /\ ui' = InitialState
    /\ UNCHANGED <<uvars, mount, owner, running>>

\* The user leaves the page while a flow is running, and comes back.  (Without
\* one the new page differs from the old as after Reset.)
Remount ==
    /\ mount < MaxMounts /\ running
    /\ mount' = mount + 1
    /\ ui' = InitialState /\ running' = FALSE
    /\ UNCHANGED <<uvars, owner>>

-----------------------------------------------------------------------------
(* Steps 1 to 3.                                                           *)

\* The flow returns: the finally of runFlow clears the ref of its mount.
Returned(f) == running' = (running /\ owner[f] # mount)

Ends(f, s) == Dispatch(f, s) /\ Returned(f) /\ Fail(f)

ChainUnchanged ==
    UNCHANGED <<issuer, payload, tx, faults, alone, faulty, staged, owner>>

\* runStepCredential: a credential that exists, is not revoked nor expired.
CredentialFound(f) ==
    /\ At(f, "credential", "call")
    /\ Goto(f, "paths", "call")
    /\ Dispatch(f, Pass(ui, 1))
    /\ UNCHANGED <<mount, running>> /\ ChainUnchanged

CredentialError(f) ==
    /\ At(f, "credential", "call")
    /\ \E missing \in BOOLEAN :
          Ends(f, [StepError(ui, 1) EXCEPT !.missing = missing])
    /\ UNCHANGED mount /\ ChainUnchanged

\* assembleProofInputs puts the paths of some answers and the roots of another
\* into one witness.
Fits(path, roots) == path = roots

\* runStepMerklePaths: the five calls run concurrently, so a path and the roots
\* may be of different versions of the trees.  The wallet also signs the
\* message that the private key is derived from.
PathsFetched(f) ==
    /\ At(f, "paths", "call")
    /\ \E path, roots \in Versions :
          flow' = [flow EXCEPT ![f].stage = "prove", ![f].fits = Fits(path, roots)]
    /\ Dispatch(f, Pass(ui, 2))
    /\ UNCHANGED <<mount, running>> /\ ChainUnchanged

PathsError(f) ==
    /\ At(f, "paths", "call")
    /\ Ends(f, StepError(ui, 2))
    /\ UNCHANGED mount /\ ChainUnchanged

\* generate: noir.execute finds no witness unless the paths lead to the roots.
Solvable(f) == flow[f].fits

ProofGenerated(f) ==
    /\ At(f, "prove", "call") /\ Solvable(f)
    /\ StartSubmit(f)
    /\ Dispatch(f, Pass(ui, 3))
    /\ UNCHANGED <<mount, owner, running>>

\* Also when the prover's answer has the wrong lengths.
ProofError(f) ==
    /\ At(f, "prove", "call")
    /\ Ends(f, StepError(ui, 3))
    /\ UNCHANGED mount /\ ChainUnchanged

DemoGenerated(f) ==
    /\ At(f, "demo", "call")
    /\ flow' = [flow EXCEPT ![f].phase = "done"]
    /\ Dispatch(f, StepSuccess(Pass(Pass(ui, 3), 4), 5))
    /\ Returned(f)
    /\ UNCHANGED mount /\ ChainUnchanged

DemoError(f) ==
    /\ At(f, "demo", "call")
    /\ Ends(f, StepError(ui, 3))
    /\ UNCHANGED mount /\ ChainUnchanged

-----------------------------------------------------------------------------
(* Steps 4 and 5: what a step of ProofUpload means for the page.           *)

\* handleSubmitError
SubmitError(f) == StepError(ui, 4)

\* The success of step 4, and runStepConfirm, which only dispatches.
Confirm(f) == StepSuccess(Pass(SetTx(ui, f), 4), 5)

Submit(f) ==
    /\ ClientStep(f) \/ ClientError(f) \/ WalletStep(f)
    /\ LET phase == flow'[f].phase IN
       IF flow[f].kind = "sdk" THEN UNCHANGED <<ui, running>>
       ELSE CASE phase = "done" -> Dispatch(f, Confirm(f)) /\ Returned(f)
              [] phase = "failed" -> Dispatch(f, SubmitError(f)) /\ Returned(f)
              [] OTHER -> UNCHANGED <<ui, running>>
    /\ UNCHANGED <<mount, owner>>

-----------------------------------------------------------------------------
(* The surroundings.                                                       *)

\* The SDK client, with a proof of its own.
Upload ==
    /\ Free # {}
    /\ \A f \in Flows : flow[f].kind = "sdk" => ~Alive(f)
    /\ StartUpload(NextFlow)
    /\ UNCHANGED <<ui, mount, owner, running>>

Network(f) == NetworkStep(f) /\ UNCHANGED <<ui, mount, owner, running>>

FlowStep(f) ==
    \/ CredentialFound(f) \/ CredentialError(f)
    \/ PathsFetched(f) \/ PathsError(f)
    \/ ProofGenerated(f) \/ ProofError(f)
    \/ DemoGenerated(f) \/ DemoError(f)

Next ==
    \/ \E wallet \in Wallets : RunLive(wallet) \/ RunDemo(wallet)
    \/ Reset \/ Remount
    \/ \E f \in Flows : FlowStep(f) \/ Submit(f) \/ Network(f)
    \/ Upload

\* Every call is answered and every transaction lands or expires; nothing is
\* assumed of the user and the wallet.
AutoStep(f) == FlowStep(f) \/ (Submit(f) /\ flow[f].phase # "sign")

Fairness == \A f \in Flows : WF_vars(AutoStep(f)) /\ WF_vars(Network(f))

Spec == Init /\ [][Next]_vars
FairSpec == Spec /\ Fairness

-----------------------------------------------------------------------------
(* Properties.                                                             *)

TypeOK ==
    /\ issuer \in BOOLEAN /\ payload \in Payload \cup {NoPayload}
    /\ tx \in [Flows -> [TxNames -> Fates]]
    /\ ui \in [steps : [STEPS -> StepStatus], currentStep : -1 .. 6,
               mode : {"live", "demo"}, txSignature : Flows \cup {0},
               missing : BOOLEAN]
    /\ \A f \in Flows : flow[f].next \in 1 .. Resizes + Writes

\* The steps shown are a run of successes, then at most one step that runs or
\* failed, then idle ones; and one runs exactly while one flow that the page
\* started is alive, and never two: neither a double click nor leaving the page
\* nor an error path strands a spinner or starts a second upload (flowReducer,
\* the dispatches of runFlow, runningRef).
OneRunner ==
    LET mine == {f \in Flows : owner[f] = mount /\ Alive(f)} IN
    /\ \A i, j \in STEPS : i < j /\ ui.steps[j] # "idle" => ui.steps[i] = "success"
    /\ Cardinality(mine) <= 1
    /\ isRunning <=> mine # {}
    /\ running <=> mine # {}

\* A live flow that shows "Settlement verified" has had its own finalize
\* executed on a payload of which every chunk was written
\* (rebroadcastUntilLandedOrExpired against finalize_hook_payload).
VerifiedMeansFinalized ==
    SaysVerified => LET p == staged[ui.txSignature] IN
                    /\ tx[ui.txSignature][<<"finalize", 1>>] = "ok"
                    /\ p.finalized /\ p.high_water_mark = LEN

\* If nobody else touched the payload during the upload, what a finalize
\* completed is the flow's own proof, whole and in order, and its own claim,
\* whatever earlier attempts had left on chain and although failed
\* transactions are taken for confirmed ones.
OwnProofStaged ==
    \A f \in Flows :
       alone[f] /\ staged[f] # NoPayload =>
          /\ staged[f].data = [i \in 1 .. LEN |-> f]
          /\ staged[f].claim = f

\* An upload that has the payload to itself and meets no fault never fails,
\* whatever earlier attempts left behind: "Reset and try again" helps
\* (cleanupStaleHookPayload, ensureIssuerRegistered).
RetrySucceeds ==
    \A f \in Flows :
       flow[f].kind = "live" /\ flow[f].phase = "failed" /\ alone[f] => faulty[f]

\* The flows of the page, finitely many, end by themselves unless they wait
\* for the wallet: no loop of the submit step outlives its transaction.
FlowsEnd ==
    <>[](\A f \in Flows : flow[f].kind \in {"live", "demo"} =>
            ~Alive(f) \/ flow[f].phase = "sign")

\* The wallet's payload account, of which the chunks below the high-water mark
\* are written.
StagedAccount ==
    IF payload = NoPayload
    THEN [stage |-> "none", length |-> 0, content |-> <<>>, claim |-> 0]
    ELSE [stage |-> IF payload.finalized THEN "final" ELSE "staging",
          length |-> LEN,
          content |-> [i \in 1 .. payload.high_water_mark |-> payload.data[i]],
          claim |-> payload.claim]

Staging == INSTANCE ProofStaging WITH
    Owners <- {"wallet"}, Lengths <- {LEN}, Proofs <- Flows, Claims <- Flows,
    NoClaim <- 0, account <- [k \in {"wallet"} |-> StagedAccount]

\* In whatever order the transactions of several attempts land, the account is
\* written front to back and completed once: the chain that the clients of this
\* module talk to keeps the same promise as the program of HookSettlement.
ImplementsStaging == Staging!StagingSpec
=============================================================================

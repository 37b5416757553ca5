---------------------------- MODULE DevnetScripts ----------------------------
(***************************************************************************)
(* The operator's scripts: scripts/devnet-hook/setup.ts creates the devnet *)
(* accounts and writes their addresses and keys to devnet-state.json,      *)
(* transfer.ts stages a proof and settles it, the two benchmark-cu.ts      *)
(* stage the proof of the circuit's fixture and measure its settlement,    *)
(* stress-test.ts fires a number of transfers from a pool of workers.      *)
(*                                                                         *)
(* All of them use one wallet, so they share its Issuer and its            *)
(* HookPayload account; scripts in two terminals interleave between any    *)
(* two calls of theirs, and each may be stopped or lose its RPC node       *)
(* anywhere.  A run makes fresh keys for what it creates: they are named   *)
(* by the run.                                                             *)
(***************************************************************************)
EXTENDS Integers, FiniteSets, Bags

CONSTANTS
    Runs,           \* the runs of a script, in the order they are started
    None,
    Terminals,      \* bound: how many scripts are open at a time
    BenchRuns,      \* bound on --runs
    Count,          \* --count of stress-test.ts
    Concurrency,    \* its --concurrency
    ATA_BATCH,
    MaxFaults       \* bound on crashes and RPC errors

ASSUME ScriptsAssumption ==
    /\ Runs = 1 .. Cardinality(Runs) /\ Cardinality(Runs) \in Nat
    /\ None \notin Runs /\ None \notin {"test", "fixture"}
    /\ Count \in Nat \ {0} /\ ATA_BATCH \in Nat \ {0}
    /\ Concurrency \in Nat \ {0}
    /\ Terminals \in Nat /\ BenchRuns \in Nat \ {0} /\ MaxFaults \in Nat

ASSUME NoneIsNoPayload ==
    None \notin [sized : BOOLEAN, written : Runs \cup {None}, claim : Runs \cup {None}]

VARIABLES
    created,    \* the accounts on chain that have fresh keys: <<kind, run>>
    issuer,     \* the wallet's Issuer account: whose roots it has
    registry,   \* the BubblegumTreeRegistry: the run whose tree it names
    payload,    \* the wallet's HookPayload account
    file,       \* devnet-state.json
    job,        \* the runs
    pool,       \* the state of the stress test
    faults,
    struck      \* history: runs that were stopped, or whose close failed

chain == <<created, issuer, registry, payload>>
vars == <<chain, file, job, pool, faults, struck>>

Scripts == {"setup", "transfer", "close-only", "benchmark", "devnet-benchmark",
            "stress"}
Ends == {"done", "thrown"}

\* The account after init; the proof is one chunk and one resize long.
NewPayload == [sized |-> FALSE, written |-> None, claim |-> None]

\* A run: where it is, what it loaded from the file, the tree it will save, the
\* size it found the payload in, how often it will still measure, whether it
\* measures a transaction (--live) or a simulation, and whether it has measured
\* any compute units.
NewJob ==
    [script |-> "none", pc |-> "off", state |-> None, tree |-> None,
     sized |-> FALSE, left |-> 1,
     live |-> TRUE, measured |-> FALSE]

Open == {r \in Runs : job[r].pc \notin Ends \cup {"off"}}

At(r, script, pc) == job[r].script \in script /\ job[r].pc = pc
Benchmarks == {"benchmark", "devnet-benchmark"}
Stagers == Benchmarks \cup {"transfer"}

\* A script that ends forgets what it knew.
Goto(r, pc) ==
    job' = [job EXCEPT ![r] =
              [IF pc \in Ends THEN [NewJob EXCEPT !.script = job[r].script] ELSE @
                 EXCEPT !.pc = pc]]

\* A transaction of r lands and r goes on to pc, or it is refused and r throws.
Sends(r, allowed, pc, effect) ==
    IF allowed THEN effect /\ Goto(r, pc) ELSE UNCHANGED chain /\ Goto(r, "thrown")

\* The wallet has the SOL the script asks for, and the circuit's artifacts are
\* there, or the script exits.
Prepare(r, ready) ==
    /\ At(r, Scripts, "prepare")
    /\ Goto(r, IF ~ ready THEN "thrown"
               ELSE IF job[r].script = "devnet-benchmark" THEN "roots" ELSE "start")
    /\ UNCHANGED <<chain, file, pool, faults, struck>>

-----------------------------------------------------------------------------
(***************************************************************************)
(* setup.ts.                                                               *)
(***************************************************************************)
Create(r, kind) ==
    /\ created' = created \cup {<<kind, r>>}
    /\ UNCHANGED <<issuer, registry, payload>>

CreateMint(r) ==
    /\ At(r, {"setup"}, "start")
    /\ IF file # None
       THEN UNCHANGED chain /\ Goto(r, "done")
       ELSE Create(r, "mint") /\ Goto(r, "issuer")
    /\ UNCHANGED <<file, pool, faults, struck>>

\* Whether the issuer exists is read before it is registered.
CheckIssuer(r) ==
    /\ At(r, {"setup"}, "issuer")
    /\ Goto(r, IF issuer = None THEN "register" ELSE "metas")
    /\ UNCHANGED <<chain, file, pool, faults, struck>>

RegisterIssuer(r) ==
    /\ At(r, {"setup"}, "register")
    /\ Sends(r, issuer = None, "metas",
             issuer' = "test" /\ UNCHANGED <<created, registry, payload>>)
    /\ UNCHANGED <<file, pool, faults, struck>>

InitExtraAccountMetaList(r) ==
    /\ At(r, {"setup"}, "metas")
    /\ Create(r, "metas") /\ Goto(r, "registry")
    /\ UNCHANGED <<file, pool, faults, struck>>

\* Mutated form: a tree that the registry does not know goes into the file.
CheckRegistryAnew(r) ==
    /\ At(r, {"setup"}, "registry")
    /\ IF registry # None
       THEN job' = [job EXCEPT ![r].pc = "atas", ![r].tree = r]
       ELSE job' = [job EXCEPT ![r].pc = "tree", ![r].tree = r]
    /\ UNCHANGED <<chain, file, pool, faults, struck>>

\* A registry that exists is that of the file, which another run has written
\* by now; without a file its tree is lost.
CheckRegistry(r) ==
    /\ At(r, {"setup"}, "registry")
    /\ IF registry = None
       THEN job' = [job EXCEPT ![r].pc = "tree", ![r].tree = r]
       ELSE IF file = None THEN Goto(r, "thrown")
       ELSE job' = [job EXCEPT ![r].pc = "atas", ![r].tree = file.tree]
    /\ UNCHANGED <<chain, file, pool, faults, struck>>

CreateTree(r) ==
    /\ At(r, {"setup"}, "tree")
    /\ Create(r, "tree") /\ Goto(r, "initTree")
    /\ UNCHANGED <<file, pool, faults, struck>>

InitAttestationTree(r) ==
    /\ At(r, {"setup"}, "initTree")
    /\ Sends(r, registry = None, "atas",
             registry' = r /\ UNCHANGED <<created, issuer, payload>>)
    /\ UNCHANGED <<file, pool, faults, struck>>

CreateAtas(r) ==
    /\ At(r, {"setup"}, "atas")
    /\ Create(r, "atas") /\ Goto(r, "tokens")
    /\ UNCHANGED <<file, pool, faults, struck>>

MintTokens(r) ==
    /\ At(r, {"setup"}, "tokens")
    /\ Create(r, "tokens") /\ Goto(r, "save")
    /\ UNCHANGED <<file, pool, faults, struck>>

SaveState(r) ==
    /\ At(r, {"setup"}, "save")
    /\ file' = [mint |-> r, tree |-> job[r].tree]
    /\ Goto(r, "done")
    /\ UNCHANGED <<chain, pool, faults, struck>>

-----------------------------------------------------------------------------
(***************************************************************************)
(* transfer.ts and its --close-only.                                       *)
(***************************************************************************)
LoadState(r) ==
    /\ At(r, {"transfer", "close-only", "devnet-benchmark"}, "start")
    /\ job' = [job EXCEPT
         ![r].state = file,
         ![r].pc = IF file = None THEN "thrown"
                   ELSE CASE job[r].script = "transfer" -> "init"
                          [] job[r].script = "close-only" -> "close"
                          [] OTHER -> "prepare"]
    /\ UNCHANGED <<chain, file, pool, faults, struck>>

SetPayload(p) == payload' = p /\ UNCHANGED <<created, issuer, registry>>

\* "already in use" ends transfer.ts, every other error is thrown on.
InitHookPayload(r) ==
    /\ At(r, Stagers, "init")
    /\ IF payload # None /\ job[r].script = "transfer"
       THEN UNCHANGED chain /\ Goto(r, "thrown")
       ELSE Sends(r, payload = None,
                  IF job[r].script = "transfer" THEN "baseline" ELSE "write",
                  SetPayload(NewPayload))
    /\ UNCHANGED <<file, pool, faults, struck>>

\* headerSize is read from the account, to know when it has grown enough.
ReadBaseline(r) ==
    /\ At(r, {"transfer"}, "baseline")
    /\ IF payload = None THEN Goto(r, "thrown")
       ELSE job' = [job EXCEPT ![r].pc = "resize", ![r].sized = payload.sized]
    /\ UNCHANGED <<chain, file, pool, faults, struck>>

CanModify == payload # None /\ payload.claim = None

\* An account that had its full size from the start never grows enough.
ResizeHookPayload(r) ==
    /\ At(r, {"transfer"}, "resize")
    /\ Sends(r, CanModify, IF job[r].sized THEN "resize" ELSE "write",
             SetPayload([payload EXCEPT !.sized = TRUE]))
    /\ UNCHANGED <<file, pool, faults, struck>>

\* Out of bounds while the vector has no length.
WriteHookProof(r) ==
    /\ At(r, Stagers, "write")
    /\ Sends(r, CanModify /\ payload.sized /\ payload.written = None, "finalize",
             SetPayload([payload EXCEPT !.written = r]))
    /\ UNCHANGED <<file, pool, faults, struck>>

FinalizeHookPayload(r) ==
    /\ At(r, Stagers, "finalize")
    /\ Sends(r, CanModify /\ payload.written # None, "settle",
             SetPayload([payload EXCEPT !.claim = r]))
    /\ UNCHANGED <<file, pool, faults, struck>>

\* What finalize claims: transfer.ts makes up the nullifier and takes the epoch
\* of today, the benchmarks take the nullifier of the proof and epoch 0.
Claim(r) ==
    IF job[r].script = "transfer"
    THEN [nullifier |-> "random", epoch |-> "today"]
    ELSE [nullifier |-> "proof", epoch |-> "1970"]

\* The program compares the nullifier with the proof's and refuses an epoch
\* older than yesterday's.
Settles(p) ==
    p # None /\ p.claim # None
        /\ Claim(p.claim) = [nullifier |-> "proof", epoch |-> "today"]

\* Mutated form: the error of a settlement goes on past the close.
SettleRethrows(r) ==
    /\ At(r, {"transfer"}, "settle")
    /\ SetPayload(IF Settles(payload) THEN None ELSE payload)
    /\ Goto(r, IF Settles(payload) THEN "close" ELSE "thrown")
    /\ UNCHANGED <<file, pool, faults, struck>>

\* A settlement that lands closes the payload; every error is caught, named in
\* the output and forgotten.
SettleHook(r) ==
    /\ At(r, {"transfer"}, "settle")
    /\ SetPayload(IF Settles(payload) THEN None ELSE payload)
    /\ Goto(r, "close")
    /\ UNCHANGED <<file, pool, faults, struck>>

\* Where a run goes once its payload is closed: a benchmark runs again.
AfterClose(r) ==
    IF job[r].script \notin Benchmarks THEN Goto(r, "done")
    ELSE IF job[r].left > 1
    THEN job' = [job EXCEPT ![r].pc = "exists", ![r].left = @ - 1]
    ELSE Goto(r, "report")

CloseHookPayload(r) ==
    /\ At(r, Stagers \cup {"close-only"}, "close")
    /\ SetPayload(None)
    /\ AfterClose(r)
    /\ UNCHANGED <<file, pool, faults, struck>>

-----------------------------------------------------------------------------
(***************************************************************************)
(* The benchmarks.  uploadProof closes a payload it finds, and writes      *)
(* without a resize.                                                       *)
(***************************************************************************)
EnsureIssuer(r) ==
    /\ At(r, {"benchmark"}, "start")
    /\ Goto(r, IF issuer = None THEN "register" ELSE "roots")
    /\ UNCHANGED <<chain, file, pool, faults, struck>>

RegisterFixture(r) ==
    /\ At(r, {"benchmark"}, "register")
    /\ Sends(r, issuer = None, "tree",
             issuer' = "fixture" /\ UNCHANGED <<created, registry, payload>>)
    /\ UNCHANGED <<file, pool, faults, struck>>

UpdateIssuerRoot(r) ==
    /\ At(r, Benchmarks, "roots")
    /\ issuer' = "fixture"
    /\ Goto(r, IF job[r].script = "benchmark" THEN "tree" ELSE "exists")
    /\ UNCHANGED <<created, registry, payload, file, pool, faults, struck>>

ResolveRegistryTree(r) ==
    /\ At(r, {"benchmark"}, "tree")
    /\ Goto(r, IF registry = None THEN "thrown" ELSE "exists")
    /\ UNCHANGED <<chain, file, pool, faults, struck>>

PayloadExists(r) ==
    /\ At(r, Benchmarks, "exists")
    /\ Goto(r, IF payload = None THEN "init" ELSE "clear")
    /\ UNCHANGED <<chain, file, pool, faults, struck>>

ClearPayload(r) ==
    /\ At(r, Benchmarks, "clear")
    /\ SetPayload(None) /\ Goto(r, "init")
    /\ UNCHANGED <<file, pool, faults, struck>>

\* A settlement that fails has used compute units too: the program's benchmark
\* takes them from the logs of the error, the devnet benchmark does not.
Measure(r) ==
    job' = [job EXCEPT
      ![r].pc = "close",
      ![r].measured = @ \/ Settles(payload) \/ job[r].script = "benchmark"]

LiveSettle(r) ==
    /\ At(r, Benchmarks, "settle") /\ job[r].live
    /\ SetPayload(IF Settles(payload) THEN None ELSE payload)
    /\ Measure(r)
    /\ UNCHANGED <<file, pool, faults, struck>>

SimulateSettle(r) ==
    /\ At(r, Benchmarks, "settle") /\ ~ job[r].live
    /\ Measure(r)
    /\ UNCHANGED <<chain, file, pool, faults, struck>>

\* The report, or an exit when there is nothing to report.
WriteBenchmark(r) ==
    /\ At(r, Benchmarks, "report")
    /\ Goto(r, IF job[r].measured THEN "done" ELSE "thrown")
    /\ UNCHANGED <<chain, file, pool, faults, struck>>

-----------------------------------------------------------------------------
(***************************************************************************)
(* stress-test.ts: recipients and tasks are 1 .. Count, a result is pushed *)
(* in the order of the answers and the report sorts them by index.         *)
(***************************************************************************)
EmptyPool ==
    [atas |-> 0, cursor |-> 1, busy |-> EmptyBag,
     landed |-> EmptyBag, results |-> EmptyBag, report |-> None]

\* The wallet's own token account; main has made the recipients' keys.
CreateSenderAta(r) ==
    /\ At(r, {"stress"}, "start")
    /\ Create(r, "atas") /\ Goto(r, "batch")
    /\ UNCHANGED <<file, pool, faults, struck>>

CreateRecipientAtas(r) ==
    /\ At(r, {"stress"}, "batch")
    /\ LET atas == pool.atas + ATA_BATCH
       IN pool' = [pool EXCEPT !.atas = IF atas < Count THEN atas ELSE Count]
    /\ Goto(r, IF pool'.atas < Count THEN "batch" ELSE "transfers")
    /\ UNCHANGED <<chain, file, faults, struck>>

\* Mutated form: the cursor is the number of results.
TakeTransferNext(r) ==
    /\ At(r, {"stress"}, "transfers")
    /\ BagCardinality(pool.busy) < Concurrency /\ pool.cursor <= Count
    /\ LET next == 1 + BagCardinality(pool.results)
       IN pool' = [pool EXCEPT !.busy = @ (+) SetToBag({next}), !.cursor = next + 1]
    /\ UNCHANGED <<chain, file, job, faults, struck>>

\* An idle worker reads the cursor and moves it before it sends anything.
TakeTransfer(r) ==
    /\ At(r, {"stress"}, "transfers")
    /\ BagCardinality(pool.busy) < Concurrency /\ pool.cursor <= Count
    /\ pool' = [pool EXCEPT !.busy = @ (+) SetToBag({pool.cursor}), !.cursor = @ + 1]
    /\ UNCHANGED <<chain, file, job, faults, struck>>

\* The transfer lands or is refused; it is a failure also when it landed and
\* its confirmation, or the reading of its compute units, failed.
ExecuteTransfer(r, i, landed, success) ==
    /\ At(r, {"stress"}, "transfers") /\ BagIn(i, pool.busy)
    /\ success => landed
    /\ faults' = IF landed = success THEN faults ELSE faults + 1
    /\ faults' <= MaxFaults
    /\ pool' = [pool EXCEPT
         !.busy = @ (-) SetToBag({i}),
         !.landed = IF landed THEN @ (+) SetToBag({i}) ELSE @,
         !.results = @ (+) SetToBag({[index |-> i, success |-> success]})]
    /\ UNCHANGED <<chain, file, job, struck>>

Results(success) ==
    BagCardinality([x \in {x \in DOMAIN pool.results : x.success = success} |->
                      pool.results[x]])

\* Every worker has found the cursor at the end.
WriteReport(r) ==
    /\ At(r, {"stress"}, "transfers")
    /\ pool.cursor > Count /\ pool.busy = EmptyBag
    /\ pool' = [pool EXCEPT !.report =
                  [total |-> Count, succeeded |-> Results(TRUE),
                   failed |-> Results(FALSE)]]
    /\ Goto(r, "done")
    /\ UNCHANGED <<chain, file, faults, struck>>

-----------------------------------------------------------------------------
(***************************************************************************)
(* The operator and the network.                                           *)
(***************************************************************************)
\* The stress test shares nothing with the others, so it is run by itself.
Start(r, script, live, left) ==
    /\ script \in Benchmarks \/ (live /\ left = 1)
    /\ \A q \in Open : "stress" \notin {script, job[q].script}
    /\ job[r].pc = "off" /\ \A q \in 1 .. r - 1 : job[q].pc # "off"
    /\ Cardinality(Open) < Terminals
    /\ job' = [job EXCEPT ![r] = [NewJob EXCEPT
                 !.script = script,
                 !.pc = IF script \in {"setup", "benchmark", "stress"}
                        THEN "prepare" ELSE "start",
                 !.live = live,
                 !.left = left]]
    /\ pool' = EmptyPool
    /\ UNCHANGED <<chain, file, faults, struck>>

\* The script is stopped, or an RPC call of it fails: its last transaction
\* has landed, its next one has not.
Crash(r) ==
    /\ r \in Open
    /\ faults < MaxFaults /\ faults' = faults + 1
    /\ Goto(r, "thrown")
    /\ struck' = struck \cup {r}
    /\ UNCHANGED <<chain, file, pool>>

\* An error of settle_hook or of a close is caught, whether or not the
\* transaction lands after all.
CaughtError(r) ==
    /\ job[r].pc \in {"settle", "close", "clear"}
    /\ faults < MaxFaults /\ faults' = faults + 1
    /\ CASE job[r].pc = "settle" -> Goto(r, "close")
         [] job[r].pc = "clear" -> Goto(r, "init")
         [] OTHER -> AfterClose(r)
    /\ struck' = IF job[r].pc = "close" THEN struck \cup {r} ELSE struck
    /\ UNCHANGED <<chain, file, pool>>

Init ==
    /\ created = {} /\ issuer = None /\ registry = None /\ payload = None
    /\ file = None
    /\ job = [r \in Runs |-> NewJob]
    /\ pool = EmptyPool /\ faults = 0 /\ struck = {}

SetupStep(r) ==
    \/ CreateMint(r) \/ CheckIssuer(r) \/ RegisterIssuer(r)
    \/ InitExtraAccountMetaList(r) \/ CheckRegistry(r) \/ CreateTree(r)
    \/ InitAttestationTree(r) \/ CreateAtas(r) \/ MintTokens(r) \/ SaveState(r)

TransferStep(r) ==
    \/ LoadState(r) \/ InitHookPayload(r) \/ ReadBaseline(r)
    \/ ResizeHookPayload(r) \/ WriteHookProof(r) \/ FinalizeHookPayload(r)
    \/ SettleHook(r) \/ CloseHookPayload(r)

BenchmarkStep(r) ==
    \/ EnsureIssuer(r) \/ RegisterFixture(r) \/ UpdateIssuerRoot(r)
    \/ ResolveRegistryTree(r) \/ PayloadExists(r) \/ ClearPayload(r)
    \/ LiveSettle(r) \/ SimulateSettle(r) \/ WriteBenchmark(r)

StressStep(r) ==
    \/ CreateSenderAta(r) \/ CreateRecipientAtas(r) \/ WriteReport(r)
    \/ TakeTransfer(r)
    \/ \E i \in 1 .. Count, landed, success \in BOOLEAN :
          ExecuteTransfer(r, i, landed, success)

Next ==
    \E r \in Runs :
       \/ \E script \in Scripts, live \in BOOLEAN, left \in 1 .. BenchRuns :
             Start(r, script, live, left)
       \/ \E ready \in BOOLEAN : Prepare(r, ready)
       \/ SetupStep(r) \/ TransferStep(r) \/ BenchmarkStep(r) \/ StressStep(r)
       \/ Crash(r) \/ CaughtError(r)

Spec == Init /\ [][Next]_vars

-----------------------------------------------------------------------------
Kinds == {"mint", "metas", "tree", "atas", "tokens"}
Pcs == {"off", "start", "issuer", "register", "metas", "registry", "tree",
        "initTree", "atas", "tokens", "save", "init", "baseline", "resize",
        "write", "finalize", "settle", "close", "roots", "exists", "clear",
        "prepare", "report", "batch", "transfers"}

\* Every variable has its type.
TypeOK ==
    /\ created \subseteq Kinds \X Runs
    /\ issuer \in {None, "test", "fixture"}
    /\ registry \in Runs \cup {None}
    /\ payload \in [sized : BOOLEAN, written : Runs \cup {None},
                    claim : Runs \cup {None}] \cup {None}
    /\ file \in [mint : Runs, tree : Runs] \cup {None}
    /\ job \in [Runs -> [script : Scripts \cup {"none"}, pc : Pcs \cup Ends,
                         state : [mint : Runs, tree : Runs] \cup {None},
                         tree : Runs \cup {None}, sized : BOOLEAN,
                         left : 1 .. BenchRuns, live : BOOLEAN,
                         measured : BOOLEAN]]
    /\ pool.atas \in 0 .. Count /\ pool.cursor \in 1 .. Count + 1
    /\ BagToSet(pool.busy) \subseteq 1 .. Count
    /\ BagToSet(pool.landed) \subseteq 1 .. Count
    /\ BagToSet(pool.results) \subseteq [index : 1 .. Count, success : BOOLEAN]
    /\ pool.report \in [total : {Count}, succeeded : Nat, failed : Nat] \cup {None}
    /\ faults \in 0 .. MaxFaults /\ struck \subseteq Runs

\* The addresses that devnet-state.json hands to the other scripts belong
\* together, however two setups interleave and wherever one was stopped: the
\* mint has its hook, its accounts and its tokens, the issuer is registered,
\* and the tree is the one of the program's registry (setup.ts).
FileIsComplete ==
    file # None =>
       /\ issuer # None
       /\ {<<kind, file.mint>> : kind \in Kinds \ {"tree"}} \subseteq created
       /\ registry = file.tree /\ <<"tree", file.tree>> \in created

\* A finalized payload has someone to close it: the run that finalized it is
\* about to settle or to close it, whichever other scripts write, close and open
\* the account meanwhile and however the settlement ends, refused or its answer
\* lost; unless that run was stopped, or its close failed (transfer.ts, steps 2
\* and 3; both benchmarks).  Before it is finalized an error of its own does
\* leave the account, to --close-only.
FinalizedIsClosed ==
    payload # None /\ payload.claim # None =>
       \/ job[payload.claim].pc \in {"settle", "close"}
       \/ payload.claim \in struck

\* The workers share the tasks: no recipient is paid twice, and the report
\* accounts for every transfer once and calls none a success that did not land
\* (stress-test.ts, runBatch and main).
ReportAccountsForAll ==
    /\ \A i \in BagToSet(pool.landed) : pool.landed[i] = 1
    /\ pool.report # None =>
          /\ pool.report.succeeded + pool.report.failed = Count
          /\ pool.report.succeeded <= BagCardinality(pool.landed)

\* The wallet's payload account.
StagedAccount ==
    IF payload = None
    THEN [stage |-> "none", length |-> 0, content |-> <<>>, claim |-> None]
    ELSE [stage |-> IF payload.claim = None THEN "staging" ELSE "final",
          length |-> 1,
          content |-> IF payload.written = None THEN <<>> ELSE <<payload.written>>,
          claim |-> payload.claim]

Staging == INSTANCE ProofStaging WITH
    Owners <- {"wallet"}, Lengths <- {1}, Proofs <- Runs, Claims <- Runs,
    NoClaim <- None, account <- [k \in {"wallet"} |-> StagedAccount]

\* Scripts that are open at once may close and finalize what another one has
\* written, but the account is never written twice nor finalized unwritten
\* (transfer.ts, benchmark-utils.ts).
ImplementsStaging == Staging!StagingSpec
=============================================================================

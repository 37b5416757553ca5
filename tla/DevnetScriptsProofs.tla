------------------------ MODULE DevnetScriptsProofs ------------------------
(***************************************************************************)
(* Proofs about the operator's scripts, for any number of runs, terminals, *)
(* recipients and faults.                                                  *)
(***************************************************************************)
EXTENDS DevnetScripts, Sequences, FiniteSetTheorems, WellFoundedInduction, TLAPS

-----------------------------------------------------------------------------
(***************************************************************************)
(* Types.  The pool of the stress test is a matter of its own.             *)
(***************************************************************************)
State == [mint : Runs, tree : Runs]
Payload == [sized : BOOLEAN, written : Runs \cup {None}, claim : Runs \cup {None}]
Job == [script : Scripts \cup {"none"}, pc : Pcs \cup Ends, state : State \cup {None},
        tree : Runs \cup {None}, sized : BOOLEAN, left : 1 .. BenchRuns,
        live : BOOLEAN, measured : BOOLEAN]

Typed ==
    /\ registry \in Runs \cup {None}
    /\ payload \in Payload \cup {None}
    /\ file \in State \cup {None}
    /\ job \in [Runs -> Job]
    /\ struck \subseteq Runs

-----------------------------------------------------------------------------
(***************************************************************************)
(* The inductive invariant.                                                *)
(***************************************************************************)
\* The places of setup.ts at which the mint is created, and so on.
FromIssuer == {"issuer", "register", "metas"}
FromRegistry == {"registry", "tree", "initTree"}
FromAtas == {"atas", "tokens", "save"}

\* What run r of setup.ts has achieved on the chain by now.
SetupSoFar(r) ==
    LET pc == job[r].pc IN
    job[r].script = "setup" =>
      /\ pc \in FromIssuer \cup FromRegistry \cup FromAtas => <<"mint", r>> \in created
      /\ pc \in {"metas"} \cup FromRegistry \cup FromAtas => issuer # None
      /\ pc \in FromRegistry \cup FromAtas => <<"metas", r>> \in created
      /\ pc \in {"tree", "initTree"} => job[r].tree = r
      /\ pc = "initTree" => <<"tree", r>> \in created
      /\ pc \in FromAtas => registry = job[r].tree /\ registry # None
      /\ pc \in {"tokens", "save"} => <<"atas", r>> \in created
      /\ pc = "save" => <<"tokens", r>> \in created

RegistryHasTree == registry # None => <<"tree", registry>> \in created

ScriptsInv ==
    /\ Typed
    /\ \A r \in Runs : SetupSoFar(r)
    /\ RegistryHasTree /\ FileIsComplete
    /\ FinalizedIsClosed

-----------------------------------------------------------------------------
(***************************************************************************)
(* What a step of run r may do.                                            *)
(***************************************************************************)
\* The run goes on at pc; the other runs do not move.
Goes(r, pc) ==
    /\ job' \in [Runs -> Job]
    /\ \A q \in Runs \ {r} : job'[q] = job[q]
    /\ job'[r].script = job[r].script /\ job'[r].pc = pc

\* What is on the chain stays there; the payload is not meant.
ChainGrows ==
    /\ created \subseteq created'
    /\ issuer # None => issuer' # None
    /\ registry # None => registry' = registry

\* The payload is left alone, and by a run that was to close it only if that
\* was stopped; or it is closed, or finalized by the run itself.
Leaves(r, pc) ==
    \/ /\ payload' = payload
       /\ job[r].pc \in {"settle", "close"} => pc \in {"settle", "close"} \/ r \in struck'
    \/ /\ payload' \in Payload \cup {None}
       /\ payload' # None /\ payload'.claim # None => payload'.claim = r /\ pc = "settle"

Moves(r) ==
    /\ Typed' /\ ChainGrows
    /\ r \in Open /\ \A q \in Runs \ {r} : job'[q] = job[q]
    /\ job'[r].script = job[r].script /\ job'[r].pc # "off"
    /\ SetupSoFar(r)' /\ RegistryHasTree' /\ FileIsComplete'
    /\ FinalizedIsClosed'

LEMMA NewJobTypes ==
    /\ NewJob \in Job /\ NewJob.tree = None
    /\ Pcs \cap Ends = {} /\ "off" \in Pcs
  BY ScriptsAssumption DEF NewJob, Job, Scripts, Pcs, Ends, State

LEMMA GotoGoes ==
    ASSUME Typed, NEW r \in Runs, NEW pc \in Pcs \cup Ends, Goto(r, pc)
    PROVE  /\ Goes(r, pc)
           /\ pc \notin Ends => job'[r].tree = job[r].tree
  <1> DEFINE base == IF pc \in Ends THEN [NewJob EXCEPT !.script = job[r].script] ELSE job[r]
  <1>1. job[r] \in Job
    BY DEF Typed
  <1>2. /\ base \in Job /\ base.script = job[r].script
        /\ pc \notin Ends => base.tree = job[r].tree
    <2>1. NewJob \in Job
      BY NewJobTypes
    <2>2. QED
      BY <1>1, <2>1 DEF Job
  <1>3. job' = [job EXCEPT ![r] = [base EXCEPT !.pc = pc]]
    BY DEF Goto
  <1> HIDE DEF base
  <1>4. /\ [base EXCEPT !.pc = pc] \in Job
        /\ [base EXCEPT !.pc = pc].script = base.script
        /\ [base EXCEPT !.pc = pc].pc = pc
        /\ [base EXCEPT !.pc = pc].tree = base.tree
    BY <1>2 DEF Job
  <1>5. QED
    BY <1>2, <1>3, <1>4 DEF Goes, Typed

LEMMA ClosedElsewhere ==
    ASSUME Typed, FinalizedIsClosed, NEW r \in Runs, NEW pc \in Pcs \cup Ends, Goes(r, pc),
           Leaves(r, pc), struck \subseteq struck'
    PROVE  FinalizedIsClosed'
  <1> SUFFICES ASSUME payload' # None, payload'.claim # None
               PROVE  \/ job'[payload'.claim].pc \in {"settle", "close"}
                      \/ payload'.claim \in struck'
    BY DEF FinalizedIsClosed
  <1>1. CASE /\ payload' = payload
             /\ job[r].pc \in {"settle", "close"}
                  => pc \in {"settle", "close"} \/ r \in struck'
    <2>1. payload.claim \in Runs
      BY <1>1 DEF Typed, Payload
    <2>2. \/ job[payload.claim].pc \in {"settle", "close"}
          \/ payload.claim \in struck'
      BY <1>1 DEF FinalizedIsClosed
    <2>3. CASE payload.claim = r
      BY <1>1, <2>2, <2>3 DEF Goes
    <2>4. CASE payload.claim # r
      BY <1>1, <2>1, <2>2, <2>4 DEF Goes
    <2>5. QED
      BY <2>3, <2>4
  <1>2. CASE payload'.claim = r /\ pc = "settle"
    BY <1>2 DEF Goes
  <1>3. QED
    BY <1>1, <1>2 DEF Leaves

\* A step that is none of setup.ts, or its last one.
LEMMA MovesElsewhere ==
    ASSUME ScriptsInv, NEW r \in Runs, r \in Open, NEW pc \in Pcs \cup Ends, Goes(r, pc),
           pc # "off", \/ job[r].script # "setup"
                           \/ pc \notin FromIssuer \cup FromRegistry \cup FromAtas,
           created \subseteq created', UNCHANGED <<registry, file>>,
           issuer' \in {issuer, "test", "fixture"},
           Leaves(r, pc), struck \subseteq struck', struck' \subseteq Runs
    PROVE  Moves(r)
  <1>1. issuer # None => issuer' # None
    BY ScriptsAssumption
  <1>2. Typed'
    BY DEF Typed, ScriptsInv, Goes, Leaves
  <1>3. SetupSoFar(r)'
    BY DEF SetupSoFar, Goes, FromIssuer, FromRegistry, FromAtas
  <1>4. RegistryHasTree' /\ FileIsComplete'
    BY <1>1 DEF ScriptsInv, RegistryHasTree, FileIsComplete
  <1>5. FinalizedIsClosed'
    BY ClosedElsewhere DEF ScriptsInv
  <1>6. QED
    BY <1>1, <1>2, <1>3, <1>4, <1>5 DEF Moves, ChainGrows, Goes

\* A step of setup.ts that leaves the registry and the file alone.
LEMMA MovesInSetup ==
    ASSUME ScriptsInv, NEW r \in Runs, r \in Open, NEW pc \in Pcs \cup Ends, Goes(r, pc),
           pc # "off", job[r].script = "setup", created \subseteq created',
           UNCHANGED <<registry, file, payload, struck>>,
           issuer # None => issuer' # None, SetupSoFar(r)',
           job[r].pc \notin {"settle", "close"}
    PROVE  Moves(r)
  <1>1. Typed'
    BY DEF Typed, ScriptsInv, Goes
  <1>2. RegistryHasTree' /\ FileIsComplete'
    BY DEF ScriptsInv, RegistryHasTree, FileIsComplete
  <1>3. FinalizedIsClosed'
    BY ClosedElsewhere DEF ScriptsInv, Leaves
  <1>4. QED
    BY <1>1, <1>2, <1>3 DEF Moves, ChainGrows, Goes

LEMMA AtOpen ==
    ASSUME ScriptsInv, NEW r \in Runs, NEW S, NEW pc \in Pcs \ {"off"}, At(r, S, pc)
    PROVE  r \in Open /\ job[r].script \in S /\ job[r].pc = pc
  BY NewJobTypes DEF At, Open

LEMMA SetupMoves ==
    ASSUME ScriptsInv, NEW r \in Runs, SetupStep(r)
    PROVE  Moves(r)
  <1> USE DEF ScriptsInv
  <1>0. SetupSoFar(r)
    OBVIOUS
  <1>1. CASE CreateMint(r)
    <2>1. /\ r \in Open /\ job[r].script = "setup" /\ job[r].pc = "start"
          /\ UNCHANGED <<file, struck, payload, registry, issuer>>
      BY <1>1, AtOpen DEF CreateMint, Create, chain, Pcs
    <2>2. CASE UNCHANGED chain /\ Goto(r, "done")
      <3>1. Goes(r, "done")
        BY <2>2, GotoGoes DEF Ends
      <3>2. QED
        BY <2>1, <2>2, <3>1, MovesElsewhere
              DEF Leaves, chain, Typed, Ends, FromIssuer, FromRegistry, FromAtas
    <2>3. CASE Create(r, "mint") /\ Goto(r, "issuer")
      <3>1. Goes(r, "issuer") /\ <<"mint", r>> \in created' /\ created \subseteq created'
        BY <2>3, GotoGoes DEF Pcs, Create
      <3>2. SetupSoFar(r)'
        BY <3>1 DEF SetupSoFar, Goes, FromIssuer, FromRegistry, FromAtas
      <3>3. QED
        BY <2>1, <3>1, <3>2, MovesInSetup DEF Pcs
    <2>4. QED
      BY <1>1, <2>2, <2>3 DEF CreateMint
  <1>2. CASE CheckIssuer(r)
    <2> DEFINE pc == IF issuer = None THEN "register" ELSE "metas"
    <2>1. /\ r \in Open /\ job[r].script = "setup" /\ job[r].pc = "issuer"
          /\ UNCHANGED <<file, struck, payload, registry, issuer, created>>
      BY <1>2, AtOpen DEF CheckIssuer, chain, Pcs
    <2>2. Goes(r, pc)
      BY <1>2, GotoGoes DEF CheckIssuer, Pcs
    <2>3. SetupSoFar(r)'
      BY <1>0, <2>1, <2>2 DEF SetupSoFar, Goes, FromIssuer, FromRegistry, FromAtas
    <2>4. QED
      BY <2>1, <2>2, <2>3, MovesInSetup DEF Pcs
  <1>3. CASE RegisterIssuer(r)
    <2>1. /\ r \in Open /\ job[r].script = "setup" /\ job[r].pc = "register"
          /\ UNCHANGED <<file, struck>>
      BY <1>3, AtOpen DEF RegisterIssuer, Pcs
    <2>2. CASE /\ issuer' = "test" /\ UNCHANGED <<created, registry, payload>>
               /\ Goto(r, "metas")
      <3>1. Goes(r, "metas") /\ issuer' # None
        BY <2>2, GotoGoes, ScriptsAssumption DEF Pcs
      <3>2. SetupSoFar(r)'
        BY <1>0, <2>1, <2>2, <3>1 DEF SetupSoFar, Goes, FromIssuer, FromRegistry, FromAtas
      <3>3. QED
        BY <2>1, <2>2, <3>1, <3>2, MovesInSetup DEF Pcs
    <2>3. CASE UNCHANGED chain /\ Goto(r, "thrown")
      <3>1. Goes(r, "thrown")
        BY <2>3, GotoGoes DEF Ends
      <3>2. QED
        BY <2>1, <2>3, <3>1, MovesElsewhere
              DEF Leaves, chain, Typed, Ends, FromIssuer, FromRegistry, FromAtas
    <2>4. QED
      BY <1>3, <2>2, <2>3 DEF RegisterIssuer, Sends
  <1>4. CASE InitExtraAccountMetaList(r)
    <2>1. /\ r \in Open /\ job[r].script = "setup" /\ job[r].pc = "metas"
          /\ UNCHANGED <<file, struck, payload, registry, issuer>>
          /\ created \subseteq created' /\ <<"metas", r>> \in created'
      BY <1>4, AtOpen DEF InitExtraAccountMetaList, Create, Pcs
    <2>2. Goes(r, "registry")
      BY <1>4, GotoGoes DEF InitExtraAccountMetaList, Pcs
    <2>3. SetupSoFar(r)'
      BY <1>0, <2>1, <2>2 DEF SetupSoFar, Goes, FromIssuer, FromRegistry, FromAtas
    <2>4. QED
      BY <2>1, <2>2, <2>3, MovesInSetup DEF Pcs
  <1>5. CASE CheckRegistry(r)
    <2>1. /\ r \in Open /\ job[r].script = "setup" /\ job[r].pc = "registry"
          /\ UNCHANGED <<file, struck, payload, registry, issuer, created>>
      BY <1>5, AtOpen DEF CheckRegistry, chain, Pcs
    <2>2. ASSUME NEW pc \in {"tree", "atas"}, NEW t \in Runs,
                 job' = [job EXCEPT ![r].pc = pc, ![r].tree = t],
                 pc = "tree" => t = r, pc = "atas" => registry = t /\ registry # None
          PROVE  Moves(r)
      <3>1. job[r] \in Job /\ pc \in Pcs
        BY DEF Typed, Pcs
      <3>2. [job[r] EXCEPT !.pc = pc, !.tree = t] \in Job
        BY <3>1 DEF Job
      <3>3. Goes(r, pc) /\ job'[r].tree = t
        BY <2>2, <3>1, <3>2 DEF Goes, Typed, Job
      <3>4. SetupSoFar(r)'
        BY <1>0, <2>1, <2>2, <3>3 DEF SetupSoFar, Goes, FromIssuer, FromRegistry, FromAtas
      <3>5. QED
        BY <2>1, <3>1, <3>3, <3>4, MovesInSetup
    <2>3. CASE Goto(r, "thrown")
      <3>1. Goes(r, "thrown")
        BY <2>3, GotoGoes DEF Ends
      <3>2. QED
        BY <2>1, <3>1, MovesElsewhere
              DEF Leaves, chain, Typed, Ends, FromIssuer, FromRegistry, FromAtas
    <2>4. CASE job' = [job EXCEPT ![r].pc = "tree", ![r].tree = r]
      BY <2>2, <2>4
    <2>5. CASE /\ registry # None /\ file # None
               /\ job' = [job EXCEPT ![r].pc = "atas", ![r].tree = file.tree]
      <3>1. file.tree = registry /\ file.tree \in Runs
        BY <2>5 DEF FileIsComplete, Typed
      <3>2. QED
        BY <2>2, <2>5, <3>1
    <2>6. QED
      BY <1>5, <2>3, <2>4, <2>5 DEF CheckRegistry
  <1>6. CASE CreateTree(r)
    <2>1. /\ r \in Open /\ job[r].script = "setup" /\ job[r].pc = "tree"
          /\ UNCHANGED <<file, struck, payload, registry, issuer>>
          /\ created \subseteq created' /\ <<"tree", r>> \in created'
      BY <1>6, AtOpen DEF CreateTree, Create, Pcs
    <2>2. Goes(r, "initTree") /\ job'[r].tree = job[r].tree
      BY <1>6, GotoGoes, NewJobTypes DEF CreateTree, Pcs
    <2>3. SetupSoFar(r)'
      BY <1>0, <2>1, <2>2 DEF SetupSoFar, Goes, FromIssuer, FromRegistry, FromAtas
    <2>4. QED
      BY <2>1, <2>2, <2>3, MovesInSetup DEF Pcs
  <1>7. CASE InitAttestationTree(r)
    <2>1. /\ r \in Open /\ job[r].script = "setup" /\ job[r].pc = "initTree"
          /\ UNCHANGED <<file, struck>>
      BY <1>7, AtOpen DEF InitAttestationTree, Pcs
    <2>2. CASE /\ registry = None /\ registry' = r /\ UNCHANGED <<created, issuer, payload>>
               /\ Goto(r, "atas")
      <3>1. Goes(r, "atas") /\ job'[r].tree = job[r].tree
        BY <2>2, GotoGoes, NewJobTypes DEF Pcs
      <3>2. /\ registry' # None /\ registry' = job'[r].tree /\ <<"tree", r>> \in created
        BY <1>0, <2>1, <2>2, <3>1, ScriptsAssumption DEF SetupSoFar
      <3>3. SetupSoFar(r)'
        BY <1>0, <2>1, <2>2, <3>1, <3>2
              DEF SetupSoFar, Goes, FromIssuer, FromRegistry, FromAtas
      <3>4. RegistryHasTree'
        BY <2>2, <3>2 DEF RegistryHasTree
      <3>5. file = None
        BY <2>2, ScriptsAssumption DEF FileIsComplete, Typed, State
      <3>6. Typed' /\ FileIsComplete'
        BY <2>1, <2>2, <3>1, <3>5 DEF Typed, FileIsComplete, Goes
      <3>7. FinalizedIsClosed'
        BY <2>1, <2>2, <3>1, ClosedElsewhere DEF Leaves, Pcs
      <3>8. QED
        BY <2>1, <2>2, <3>1, <3>3, <3>4, <3>6, <3>7 DEF Moves, ChainGrows, Goes
    <2>3. CASE UNCHANGED chain /\ Goto(r, "thrown")
      <3>1. Goes(r, "thrown")
        BY <2>3, GotoGoes DEF Ends
      <3>2. QED
        BY <2>1, <2>3, <3>1, MovesElsewhere
              DEF Leaves, chain, Typed, Ends, FromIssuer, FromRegistry, FromAtas
    <2>4. QED
      BY <1>7, <2>2, <2>3 DEF InitAttestationTree, Sends
  <1>8. CASE CreateAtas(r)
    <2>1. /\ r \in Open /\ job[r].script = "setup" /\ job[r].pc = "atas"
          /\ UNCHANGED <<file, struck, payload, registry, issuer>>
          /\ created \subseteq created' /\ <<"atas", r>> \in created'
      BY <1>8, AtOpen DEF CreateAtas, Create, Pcs
    <2>2. Goes(r, "tokens") /\ job'[r].tree = job[r].tree
      BY <1>8, GotoGoes, NewJobTypes DEF CreateAtas, Pcs
    <2>3. SetupSoFar(r)'
      BY <1>0, <2>1, <2>2 DEF SetupSoFar, Goes, FromIssuer, FromRegistry, FromAtas
    <2>4. QED
      BY <2>1, <2>2, <2>3, MovesInSetup DEF Pcs
  <1>9. CASE MintTokens(r)
    <2>1. /\ r \in Open /\ job[r].script = "setup" /\ job[r].pc = "tokens"
          /\ UNCHANGED <<file, struck, payload, registry, issuer>>
          /\ created \subseteq created' /\ <<"tokens", r>> \in created'
      BY <1>9, AtOpen DEF MintTokens, Create, Pcs
    <2>2. Goes(r, "save") /\ job'[r].tree = job[r].tree
      BY <1>9, GotoGoes, NewJobTypes DEF MintTokens, Pcs
    <2>3. SetupSoFar(r)'
      BY <1>0, <2>1, <2>2 DEF SetupSoFar, Goes, FromIssuer, FromRegistry, FromAtas
    <2>4. QED
      BY <2>1, <2>2, <2>3, MovesInSetup DEF Pcs
  <1>10. CASE SaveState(r)
    <2>1. /\ r \in Open /\ job[r].script = "setup" /\ job[r].pc = "save"
          /\ UNCHANGED <<struck, payload, registry, issuer, created>>
          /\ file' = [mint |-> r, tree |-> job[r].tree]
      BY <1>10, AtOpen DEF SaveState, chain, Pcs
    <2>2. Goes(r, "done")
      BY <1>10, GotoGoes DEF SaveState, Ends
    <2>3. /\ issuer # None /\ registry = job[r].tree /\ registry # None
          /\ {<<"mint", r>>, <<"metas", r>>, <<"atas", r>>, <<"tokens", r>>} \subseteq created
      BY <1>0, <2>1 DEF SetupSoFar, FromIssuer, FromRegistry, FromAtas
    <2>4. file' \in State
      BY <2>1, <2>3 DEF State, Typed
    <2>5. FileIsComplete'
      BY <2>1, <2>3 DEF FileIsComplete, RegistryHasTree, Kinds
    <2>6. Typed' /\ RegistryHasTree'
      BY <2>1, <2>2, <2>4 DEF Typed, RegistryHasTree, Goes
    <2>7. SetupSoFar(r)'
      BY <2>2 DEF SetupSoFar, Goes, FromIssuer, FromRegistry, FromAtas
    <2>8. FinalizedIsClosed'
      BY <2>1, <2>2, ClosedElsewhere DEF Leaves, Ends
    <2>9. QED
      BY <2>1, <2>2, <2>5, <2>6, <2>7, <2>8 DEF Moves, ChainGrows, Goes
  <1>11. QED
    BY <1>1, <1>2, <1>3, <1>4, <1>5, <1>6, <1>7, <1>8, <1>9, <1>10 DEF SetupStep

-----------------------------------------------------------------------------
(***************************************************************************)
(* The other scripts.  None of them creates what the file names, and a     *)
(* settlement leaves its payload to the close that follows.                *)
(***************************************************************************)
\* One that sends nothing, or a transaction that changes the payload only.
LEMMA MovesOther ==
    ASSUME ScriptsInv, NEW r \in Runs, r \in Open, NEW pc \in Pcs \cup Ends, Goes(r, pc),
           pc # "off", job[r].script # "setup",
           UNCHANGED <<created, registry, file, struck>>,
           issuer' \in {issuer, "test", "fixture"}, Leaves(r, pc)
    PROVE  Moves(r)
  BY MovesElsewhere DEF ScriptsInv, Typed

\* A transaction of a script that is refused.
LEMMA Refused ==
    ASSUME ScriptsInv, NEW r \in Runs, r \in Open, Goto(r, "thrown"),
           job[r].script # "setup", job[r].pc \notin {"settle", "close"},
           UNCHANGED <<chain, file, struck>>
    PROVE  Moves(r)
  <1>1. Goes(r, "thrown")
    BY GotoGoes DEF ScriptsInv, Ends
  <1>2. QED
    BY <1>1, MovesOther DEF Leaves, chain, Ends

\* After a close the run ends, or it is a benchmark.
LEMMA ClosedGoes ==
    ASSUME Typed, NEW r \in Runs, AfterClose(r)
    PROVE  \E pc \in {"done", "exists", "report"} : Goes(r, pc)
  <1>1. CASE Goto(r, "done")
    BY <1>1, GotoGoes DEF Ends
  <1>2. CASE Goto(r, "report")
    BY <1>2, GotoGoes DEF Pcs
  <1>3. CASE job[r].left > 1 /\ job' = [job EXCEPT ![r].pc = "exists", ![r].left = @ - 1]
    <2>1. job[r] \in Job /\ job[r].left \in 1 .. BenchRuns /\ BenchRuns \in Nat
      BY ScriptsAssumption DEF Typed, Job
    <2>2. job[r].left - 1 \in 1 .. BenchRuns
      BY <1>3, <2>1
    <2>3. [job[r] EXCEPT !.pc = "exists", !.left = @ - 1] \in Job
      BY <2>1, <2>2 DEF Job, Pcs
    <2>4. Goes(r, "exists")
      BY <1>3, <2>1, <2>3 DEF Goes, Typed, Job
    <2>5. QED
      BY <2>4
  <1>4. QED
    BY <1>1, <1>2, <1>3 DEF AfterClose

LEMMA TransferMoves ==
    ASSUME ScriptsInv, NEW r \in Runs, TransferStep(r)
    PROVE  Moves(r)
  <1> USE DEF ScriptsInv
  <1>0. payload \in Payload \cup {None} /\ file \in State \cup {None} /\ job[r] \in Job
    BY DEF Typed
  <1>1. CASE LoadState(r)
    <2> DEFINE pc == IF file = None THEN "thrown"
                     ELSE CASE job[r].script = "transfer" -> "init"
                            [] job[r].script = "close-only" -> "close"
                            [] OTHER -> "prepare"
    <2>1. /\ r \in Open /\ job[r].script \in {"transfer", "close-only", "devnet-benchmark"}
          /\ job[r].pc = "start" /\ UNCHANGED <<chain, file, struck>>
          /\ job' = [job EXCEPT ![r].state = file, ![r].pc = pc]
      BY <1>1, AtOpen DEF LoadState, Pcs
    <2>2. pc \in Pcs \cup Ends /\ pc # "off" /\ pc # "done"
      BY <2>1 DEF Pcs, Ends
    <2> HIDE DEF pc
    <2>3. [job[r] EXCEPT !.state = file, !.pc = pc] \in Job
      BY <1>0, <2>2 DEF Job
    <2>4. Goes(r, pc)
      BY <1>0, <2>1, <2>3 DEF Goes, Typed, Job
    <2>5. QED
      BY <1>0, <2>1, <2>2, <2>4, MovesOther DEF Leaves, chain
  <1>2. CASE InitHookPayload(r)
    <2> DEFINE pc == IF job[r].script = "transfer" THEN "baseline" ELSE "write"
    <2>1. /\ r \in Open /\ job[r].script # "setup" /\ job[r].pc = "init"
          /\ UNCHANGED <<file, struck>>
      BY <1>2, AtOpen DEF InitHookPayload, Pcs, Stagers, Benchmarks
    <2>2. CASE UNCHANGED chain /\ Goto(r, "thrown")
      BY <2>1, <2>2, Refused
    <2>3. CASE SetPayload(NewPayload) /\ Goto(r, pc)
      <3>1. Goes(r, pc)
        BY <2>3, GotoGoes DEF Pcs
      <3>2. NewPayload \in Payload /\ NewPayload.claim = None
        BY DEF NewPayload, Payload
      <3>3. Leaves(r, pc)
        BY <2>3, <3>2 DEF Leaves, SetPayload
      <3>4. QED
        BY <2>1, <2>3, <3>1, <3>3, MovesOther DEF SetPayload, Pcs
    <2>4. QED
      BY <1>2, <2>2, <2>3 DEF InitHookPayload, Sends
  <1>3. CASE ReadBaseline(r)
    <2>1. /\ r \in Open /\ job[r].script # "setup" /\ job[r].pc = "baseline"
          /\ UNCHANGED <<chain, file, struck>>
      BY <1>3, AtOpen DEF ReadBaseline, Pcs
    <2>2. CASE Goto(r, "thrown")
      BY <2>1, <2>2, Refused
    <2>3. CASE payload # None /\ job' = [job EXCEPT ![r].pc = "resize", ![r].sized = payload.sized]
      <3>1. payload.sized \in BOOLEAN
        BY <1>0, <2>3 DEF Payload
      <3>2. [job[r] EXCEPT !.pc = "resize", !.sized = payload.sized] \in Job
        BY <1>0, <3>1 DEF Job, Pcs
      <3>3. Goes(r, "resize")
        BY <1>0, <2>3, <3>2 DEF Goes, Typed, Job
      <3>4. QED
        BY <1>0, <2>1, <3>3, MovesOther DEF Leaves, Pcs, chain
    <2>4. QED
      BY <1>3, <2>2, <2>3 DEF ReadBaseline
  <1>4. CASE ResizeHookPayload(r)
    <2> DEFINE pc == IF job[r].sized THEN "resize" ELSE "write"
    <2>1. /\ r \in Open /\ job[r].script # "setup" /\ job[r].pc = "resize"
          /\ UNCHANGED <<file, struck>>
      BY <1>4, AtOpen DEF ResizeHookPayload, Pcs
    <2>2. CASE UNCHANGED chain /\ Goto(r, "thrown")
      BY <2>1, <2>2, Refused
    <2>3. CASE CanModify /\ SetPayload([payload EXCEPT !.sized = TRUE]) /\ Goto(r, pc)
      <3>1. Goes(r, pc)
        BY <2>3, GotoGoes DEF Pcs
      <3>2. /\ [payload EXCEPT !.sized = TRUE] \in Payload
            /\ [payload EXCEPT !.sized = TRUE].claim = None
        BY <1>0, <2>3 DEF Payload, CanModify
      <3>3. Leaves(r, pc)
        BY <2>3, <3>2 DEF Leaves, SetPayload
      <3>4. QED
        BY <2>1, <2>3, <3>1, <3>3, MovesOther DEF SetPayload, Pcs
    <2>4. QED
      BY <1>4, <2>2, <2>3 DEF ResizeHookPayload, Sends
  <1>5. CASE WriteHookProof(r)
    <2>1. /\ r \in Open /\ job[r].script # "setup" /\ job[r].pc = "write"
          /\ UNCHANGED <<file, struck>>
      BY <1>5, AtOpen DEF WriteHookProof, Pcs, Stagers, Benchmarks
    <2>2. CASE UNCHANGED chain /\ Goto(r, "thrown")
      BY <2>1, <2>2, Refused
    <2>3. CASE CanModify /\ SetPayload([payload EXCEPT !.written = r]) /\ Goto(r, "finalize")
      <3>1. Goes(r, "finalize")
        BY <2>3, GotoGoes DEF Pcs
      <3>2. /\ [payload EXCEPT !.written = r] \in Payload
            /\ [payload EXCEPT !.written = r].claim = None
        BY <1>0, <2>3 DEF Payload, CanModify
      <3>3. Leaves(r, "finalize")
        BY <2>3, <3>2 DEF Leaves, SetPayload
      <3>4. QED
        BY <2>1, <2>3, <3>1, <3>3, MovesOther DEF SetPayload, Pcs
    <2>4. QED
      BY <1>5, <2>2, <2>3 DEF WriteHookProof, Sends
  <1>6. CASE FinalizeHookPayload(r)
    <2>1. /\ r \in Open /\ job[r].script # "setup" /\ job[r].pc = "finalize"
          /\ UNCHANGED <<file, struck>>
      BY <1>6, AtOpen DEF FinalizeHookPayload, Pcs, Stagers, Benchmarks
    <2>2. CASE UNCHANGED chain /\ Goto(r, "thrown")
      BY <2>1, <2>2, Refused
    <2>3. CASE CanModify /\ SetPayload([payload EXCEPT !.claim = r]) /\ Goto(r, "settle")
      <3>1. Goes(r, "settle")
        BY <2>3, GotoGoes DEF Pcs
      <3>2. [payload EXCEPT !.claim = r] \in Payload
        BY <1>0, <2>3 DEF Payload, CanModify
      <3>3. QED
        BY <2>1, <2>3, <3>1, <3>2, MovesOther DEF Leaves, SetPayload, Pcs
    <2>4. QED
      BY <1>6, <2>2, <2>3 DEF FinalizeHookPayload, Sends
  <1>7. CASE SettleHook(r)
    <2>1. r \in Open /\ job[r].script # "setup" /\ UNCHANGED <<file, struck>>
      BY <1>7, AtOpen DEF SettleHook, Pcs
    <2>2. Goes(r, "close")
      BY <1>7, GotoGoes DEF SettleHook, Pcs
    <2>3. UNCHANGED <<created, issuer, registry>> /\ payload' \in {payload, None}
      BY <1>7 DEF SettleHook, SetPayload
    <2>4. Leaves(r, "close")
      BY <2>3 DEF Leaves
    <2>5. QED
      BY <2>1, <2>2, <2>3, <2>4, MovesOther DEF Pcs
  <1>8. CASE CloseHookPayload(r)
    <2>1. r \in Open /\ job[r].script # "setup" /\ UNCHANGED <<file, struck>>
      BY <1>8, AtOpen DEF CloseHookPayload, Pcs, Stagers, Benchmarks
    <2>2. PICK pc \in {"done", "exists", "report"} : Goes(r, pc)
      BY <1>8, ClosedGoes DEF CloseHookPayload
    <2>3. UNCHANGED <<created, issuer, registry>> /\ payload' = None
      BY <1>8 DEF CloseHookPayload, SetPayload
    <2>4. QED
      BY <2>1, <2>2, <2>3, MovesOther DEF Leaves, Pcs, Ends
  <1>9. QED
    BY <1>1, <1>2, <1>3, <1>4, <1>5, <1>6, <1>7, <1>8 DEF TransferStep

LEMMA BenchmarkMoves ==
    ASSUME ScriptsInv, NEW r \in Runs, BenchmarkStep(r)
    PROVE  Moves(r)
  <1> USE DEF ScriptsInv
  <1>0. payload \in Payload \cup {None} /\ job[r] \in Job
    BY DEF Typed
  <1>1. ASSUME At(r, Benchmarks, job[r].pc), job[r].pc \in Pcs \ {"off"}
        PROVE  r \in Open /\ job[r].script \notin {"setup", "transfer"}
    BY <1>1, AtOpen DEF Benchmarks
  <1>2. CASE EnsureIssuer(r)
    <2>1. /\ r \in Open /\ job[r].script \notin {"setup", "transfer"}
          /\ job[r].pc = "start"
      BY <1>1, <1>2 DEF EnsureIssuer, At, Benchmarks, Pcs
    <2>2. Goes(r, IF issuer = None THEN "register" ELSE "roots")
      BY <1>2, GotoGoes DEF EnsureIssuer, Pcs
    <2>3. QED
      BY <1>0, <1>2, <2>1, <2>2, MovesOther DEF Leaves, EnsureIssuer, Pcs, chain
  <1>3. CASE RegisterFixture(r)
    <2>1. /\ r \in Open /\ job[r].script \notin {"setup", "transfer"}
          /\ job[r].pc = "register" /\ UNCHANGED <<file, struck>>
      BY <1>1, <1>3 DEF RegisterFixture, At, Benchmarks, Pcs
    <2>2. CASE UNCHANGED chain /\ Goto(r, "thrown")
      BY <2>1, <2>2, Refused
    <2>3. CASE /\ issuer' = "fixture" /\ UNCHANGED <<created, registry, payload>>
               /\ Goto(r, "tree")
      <3>1. Goes(r, "tree")
        BY <2>3, GotoGoes DEF Pcs
      <3>2. QED
        BY <1>0, <2>1, <2>3, <3>1, MovesOther DEF Leaves, Pcs
    <2>4. QED
      BY <1>3, <2>2, <2>3 DEF RegisterFixture, Sends
  <1>4. CASE UpdateIssuerRoot(r)
    <2>1. /\ r \in Open /\ job[r].script \notin {"setup", "transfer"}
          /\ job[r].pc = "roots"
      BY <1>1, <1>4 DEF UpdateIssuerRoot, At, Pcs
    <2>2. Goes(r, IF job[r].script = "benchmark" THEN "tree" ELSE "exists")
      BY <1>4, GotoGoes DEF UpdateIssuerRoot, Pcs
    <2>3. QED
      BY <1>0, <1>4, <2>1, <2>2, MovesOther DEF Leaves, UpdateIssuerRoot, Pcs
  <1>5. CASE ResolveRegistryTree(r)
    <2>1. /\ r \in Open /\ job[r].script \notin {"setup", "transfer"}
          /\ job[r].pc = "tree"
      BY <1>1, <1>5 DEF ResolveRegistryTree, At, Benchmarks, Pcs
    <2>2. Goes(r, IF registry = None THEN "thrown" ELSE "exists")
      BY <1>5, GotoGoes DEF ResolveRegistryTree, Pcs, Ends
    <2>3. QED
      BY <1>0, <1>5, <2>1, <2>2, MovesOther DEF Leaves, ResolveRegistryTree, Pcs, Ends, chain
  <1>6. CASE PayloadExists(r)
    <2>1. /\ r \in Open /\ job[r].script \notin {"setup", "transfer"}
          /\ job[r].pc = "exists"
      BY <1>1, <1>6 DEF PayloadExists, At, Pcs
    <2>2. Goes(r, IF payload = None THEN "init" ELSE "clear")
      BY <1>6, GotoGoes DEF PayloadExists, Pcs
    <2>3. QED
      BY <1>0, <1>6, <2>1, <2>2, MovesOther DEF Leaves, PayloadExists, Pcs, chain
  <1>7. CASE ClearPayload(r)
    <2>1. r \in Open /\ job[r].script \notin {"setup", "transfer"}
      BY <1>1, <1>7 DEF ClearPayload, At, Pcs
    <2>2. Goes(r, "init")
      BY <1>7, GotoGoes DEF ClearPayload, Pcs
    <2>3. QED
      BY <1>7, <2>1, <2>2, MovesOther DEF Leaves, ClearPayload, SetPayload, Pcs
  <1>8. ASSUME Measure(r)
        PROVE  Goes(r, "close")
    <2>1. (job[r].measured \/ Settles(payload) \/ job[r].script = "benchmark") \in BOOLEAN
      OBVIOUS
    <2>2. [job[r] EXCEPT !.pc = "close",
             !.measured = @ \/ Settles(payload) \/ job[r].script = "benchmark"] \in Job
      BY <1>0, <2>1 DEF Job, Pcs
    <2>3. QED
      BY <1>0, <1>8, <2>2 DEF Measure, Goes, Typed, Job
  <1>9. CASE LiveSettle(r)
    <2>1. r \in Open /\ job[r].script \notin {"setup", "transfer"}
      BY <1>1, <1>9 DEF LiveSettle, At, Pcs
    <2>2. payload' \in {payload, None} /\ UNCHANGED <<created, issuer, registry>>
      BY <1>9 DEF LiveSettle, SetPayload
    <2>3. Leaves(r, "close")
      BY <2>2 DEF Leaves
    <2>4. QED
      BY <1>8, <1>9, <2>1, <2>2, <2>3, MovesOther DEF LiveSettle, Pcs
  <1>10. CASE SimulateSettle(r)
    <2>1. r \in Open /\ job[r].script \notin {"setup", "transfer"}
      BY <1>1, <1>10 DEF SimulateSettle, At, Pcs
    <2>2. QED
      BY <1>0, <1>8, <1>10, <2>1, MovesOther DEF Leaves, SimulateSettle, Pcs, chain
  <1>11. CASE WriteBenchmark(r)
    <2>1. /\ r \in Open /\ job[r].script \notin {"setup", "transfer"}
          /\ job[r].pc = "report"
      BY <1>1, <1>11 DEF WriteBenchmark, At, Pcs
    <2>2. Goes(r, IF job[r].measured THEN "done" ELSE "thrown")
      BY <1>11, GotoGoes DEF WriteBenchmark, Ends
    <2>3. QED
      BY <1>0, <1>11, <2>1, <2>2, MovesOther DEF Leaves, WriteBenchmark, Ends, chain
  <1>12. QED
    BY <1>2, <1>3, <1>4, <1>5, <1>6, <1>7, <1>9, <1>10, <1>11 DEF BenchmarkStep

LEMMA StressMoves ==
    ASSUME ScriptsInv, NEW r \in Runs, StressStep(r)
    PROVE  Moves(r)
  <1> USE DEF ScriptsInv
  <1>0. payload \in Payload \cup {None} /\ job \in [Runs -> Job]
    BY DEF Typed
  <1>1. CASE CreateSenderAta(r)
    <2>1. /\ r \in Open /\ job[r].script \notin {"setup", "transfer"}
          /\ job[r].pc = "start"
      BY <1>1, AtOpen DEF CreateSenderAta, Pcs
    <2>2. Goes(r, "batch")
      BY <1>1, GotoGoes DEF CreateSenderAta, Pcs
    <2>3. QED
      BY <1>0, <1>1, <2>1, <2>2, MovesElsewhere
            DEF Leaves, CreateSenderAta, Create, Pcs, Typed
  <1>2. CASE CreateRecipientAtas(r)
    <2>1. /\ r \in Open /\ job[r].script \notin {"setup", "transfer"}
          /\ job[r].pc = "batch"
      BY <1>2, AtOpen DEF CreateRecipientAtas, Pcs
    <2>2. Goes(r, IF pool'.atas < Count THEN "batch" ELSE "transfers")
      BY <1>2, GotoGoes DEF CreateRecipientAtas, Pcs
    <2>3. QED
      BY <1>0, <1>2, <2>1, <2>2, MovesOther DEF Leaves, CreateRecipientAtas, Pcs, chain
  <1>3. CASE WriteReport(r)
    <2>1. /\ r \in Open /\ job[r].script \notin {"setup", "transfer"}
          /\ job[r].pc = "transfers"
      BY <1>3, AtOpen DEF WriteReport, Pcs
    <2>2. Goes(r, "done")
      BY <1>3, GotoGoes DEF WriteReport, Ends
    <2>3. QED
      BY <1>0, <1>3, <2>1, <2>2, MovesOther DEF Leaves, WriteReport, Ends, chain
  <1>4. CASE /\ At(r, {"stress"}, "transfers")
             /\ UNCHANGED <<chain, file, job, struck>>
    <2>1. /\ r \in Open /\ job[r].script \notin {"setup", "transfer"}
          /\ job[r].pc = "transfers"
      BY <1>4, AtOpen DEF Pcs
    <2>2. Goes(r, "transfers")
      BY <1>0, <1>4, <2>1 DEF Goes
    <2>3. QED
      BY <1>0, <1>4, <2>1, <2>2, MovesOther DEF Leaves, Pcs, chain
  <1>5. QED
    BY <1>1, <1>2, <1>3, <1>4 DEF StressStep, TakeTransfer, ExecuteTransfer

\* Preparing, being stopped, and an error that is caught.
LEMMA PrepareMoves ==
    ASSUME ScriptsInv, NEW r \in Runs, NEW ready \in BOOLEAN, Prepare(r, ready)
    PROVE  Moves(r)
  <1> DEFINE pc == IF ~ ready THEN "thrown"
                   ELSE IF job[r].script = "devnet-benchmark" THEN "roots" ELSE "start"
  <1>1. r \in Open /\ job[r].pc = "prepare" /\ UNCHANGED <<chain, file, struck>>
    BY AtOpen DEF Prepare, Pcs
  <1>2. Goes(r, pc)
    BY GotoGoes DEF Prepare, Pcs, Ends, ScriptsInv
  <1>3. payload \in Payload \cup {None} /\ pc \in Pcs \cup Ends /\ pc # "off" /\ pc # "done"
    BY DEF ScriptsInv, Typed, Pcs, Ends
  <1>4. pc \notin FromIssuer \cup FromRegistry \cup FromAtas
    BY DEF FromIssuer, FromRegistry, FromAtas
  <1> HIDE DEF pc
  <1>5. QED
    BY <1>1, <1>2, <1>3, <1>4, MovesElsewhere DEF Leaves, chain, ScriptsInv, Typed

LEMMA FaultMoves ==
    ASSUME ScriptsInv, NEW r \in Runs, Crash(r) \/ CaughtError(r)
    PROVE  Moves(r)
  <1>1. PICK pc \in {"thrown", "close", "init", "done", "exists", "report"} :
           /\ Goes(r, pc)
           /\ job[r].pc \in {"settle", "close"} => pc = "close" \/ r \in struck'
    <2>1. CASE Crash(r)
      BY <2>1, GotoGoes DEF Crash, Ends, ScriptsInv
    <2>2. CASE CaughtError(r)
      <3>1. CASE job[r].pc = "settle" /\ Goto(r, "close")
        BY <3>1, GotoGoes DEF Pcs, ScriptsInv
      <3>2. CASE job[r].pc = "clear" /\ Goto(r, "init")
        BY <3>2, GotoGoes DEF Pcs, ScriptsInv
      <3>3. CASE job[r].pc = "close" /\ AfterClose(r)
        BY <2>2, <3>3, ClosedGoes DEF CaughtError, ScriptsInv
      <3>4. QED
        BY <2>2, <3>1, <3>2, <3>3 DEF CaughtError
    <2>3. QED
      BY <2>1, <2>2
  <1>2. /\ r \in Open /\ UNCHANGED <<chain, file>>
        /\ struck \subseteq struck' /\ struck' \subseteq Runs
    BY DEF Crash, CaughtError, Open, Ends, ScriptsInv, Typed
  <1>3. /\ pc \in Pcs \cup Ends /\ pc # "off"
        /\ pc \notin FromIssuer \cup FromRegistry \cup FromAtas
    BY DEF Pcs, Ends, FromIssuer, FromRegistry, FromAtas
  <1>4. QED
    BY <1>1, <1>2, <1>3, MovesElsewhere DEF Leaves, chain

-----------------------------------------------------------------------------
(***************************************************************************)
(* The invariant.                                                          *)
(***************************************************************************)
LEMMA StepKeeps ==
    ASSUME ScriptsInv, NEW r \in Runs, Moves(r)
    PROVE  ScriptsInv'
  <1> USE DEF ScriptsInv
  <1>1. /\ Typed' /\ ChainGrows
        /\ r \in Open /\ \A q \in Runs \ {r} : job'[q] = job[q]
        /\ job'[r].script = job[r].script /\ job'[r].pc # "off" /\ job[r].pc # "off"
    BY DEF Moves, Open, Typed
  <1>2. \A q \in Runs : SetupSoFar(q)'
    <2>1. ASSUME NEW q \in Runs \ {r}
          PROVE  SetupSoFar(q)'
      <3>1. SetupSoFar(q) /\ job'[q] = job[q]
        BY <1>1
      <3>2. QED
        BY <1>1, <3>1 DEF SetupSoFar, ChainGrows
    <2>2. QED
      BY <2>1 DEF Moves
  <1>3. QED
    BY <1>1, <1>2 DEF Moves

LEMMA StartKeeps ==
    ASSUME ScriptsInv, NEW r \in Runs, NEW script \in Scripts, NEW live \in BOOLEAN,
           NEW left \in 1 .. BenchRuns, Start(r, script, live, left)
    PROVE  ScriptsInv'
  <1> USE DEF ScriptsInv
  <1> DEFINE pc == IF script \in {"setup", "benchmark", "stress"} THEN "prepare" ELSE "start"
             new == [NewJob EXCEPT !.script = script, !.pc = pc, !.live = live, !.left = left]
  <1>1. /\ job' = [job EXCEPT ![r] = new]
        /\ job[r].pc = "off"
        /\ UNCHANGED <<created, issuer, registry, payload, file, struck>>
    BY DEF Start, chain
  <1>2. pc \in Pcs /\ pc \in {"prepare", "start"}
    BY DEF Pcs
  <1> HIDE DEF pc
  <1>3. new \in Job /\ new.pc = pc
    BY <1>2, NewJobTypes DEF Job
  <1> HIDE DEF new
  <1>4. /\ job' \in [Runs -> Job] /\ job'[r].pc \in {"prepare", "start"}
        /\ \A q \in Runs \ {r} : job'[q] = job[q]
    BY <1>1, <1>2, <1>3 DEF Typed
  <1>5. Typed'
    BY <1>1, <1>4 DEF Typed
  <1>6. \A q \in Runs : SetupSoFar(q)'
    <2>1. SetupSoFar(r)'
      BY <1>4 DEF SetupSoFar, FromIssuer, FromRegistry, FromAtas
    <2>2. ASSUME NEW q \in Runs \ {r}
          PROVE  SetupSoFar(q)'
      <3>1. SetupSoFar(q) /\ job'[q] = job[q]
        BY <1>4
      <3>2. QED
        BY <1>1, <3>1 DEF SetupSoFar
    <2>3. QED
      BY <2>1, <2>2
  <1>7. RegistryHasTree' /\ FileIsComplete'
    BY <1>1 DEF RegistryHasTree, FileIsComplete
  <1>8. FinalizedIsClosed'
    <2> SUFFICES ASSUME payload # None, payload.claim # None, payload.claim \notin struck
                 PROVE  job'[payload.claim].pc \in {"settle", "close"}
      BY <1>1 DEF FinalizedIsClosed
    <2>1. payload.claim \in Runs /\ job[payload.claim].pc \in {"settle", "close"}
      BY DEF FinalizedIsClosed, Typed, Payload
    <2>2. payload.claim # r
      BY <1>1, <2>1
    <2>3. QED
      BY <1>4, <2>1, <2>2
  <1>9. QED
    BY <1>5, <1>6, <1>7, <1>8

\* For any number of runs and terminals (setup.ts, transfer.ts).
THEOREM ScriptsInvariant == Spec => []ScriptsInv
  <1>1. Init => ScriptsInv
    <2> SUFFICES ASSUME Init
                 PROVE  ScriptsInv
      OBVIOUS
    <2>1. \A r \in Runs : job[r] = NewJob /\ NewJob.script = "none" /\ NewJob.pc = "off"
      BY DEF Init, NewJob
    <2>2. Typed
      BY NewJobTypes DEF Init, Typed
    <2>3. \A r \in Runs : SetupSoFar(r)
      BY <2>1 DEF SetupSoFar
    <2>4. RegistryHasTree /\ FileIsComplete /\ FinalizedIsClosed
      BY DEF Init, RegistryHasTree, FileIsComplete, FinalizedIsClosed
    <2>5. QED
      BY <2>2, <2>3, <2>4 DEF ScriptsInv
  <1>2. ScriptsInv /\ [Next]_vars => ScriptsInv'
    <2> SUFFICES ASSUME ScriptsInv, [Next]_vars
                 PROVE  ScriptsInv'
      OBVIOUS
    <2>1. CASE UNCHANGED vars
      BY <2>1 DEF vars, chain, ScriptsInv, Typed, SetupSoFar, RegistryHasTree, FileIsComplete,
                  FinalizedIsClosed
    <2>2. CASE Next
      <3>1. PICK r \in Runs :
              \/ \E script \in Scripts, live \in BOOLEAN, left \in 1 .. BenchRuns :
                    Start(r, script, live, left)
              \/ \E ready \in BOOLEAN : Prepare(r, ready)
              \/ SetupStep(r) \/ TransferStep(r) \/ BenchmarkStep(r) \/ StressStep(r)
              \/ Crash(r) \/ CaughtError(r)
        BY <2>2 DEF Next
      <3>2. CASE \E script \in Scripts, live \in BOOLEAN, left \in 1 .. BenchRuns :
                    Start(r, script, live, left)
        BY <3>2, StartKeeps
      <3>3. CASE \E ready \in BOOLEAN : Prepare(r, ready)
        BY <3>3, PrepareMoves, StepKeeps
      <3>4. CASE SetupStep(r) \/ TransferStep(r) \/ BenchmarkStep(r) \/ StressStep(r)
        BY <3>4, SetupMoves, TransferMoves, BenchmarkMoves, StressMoves, StepKeeps
      <3>5. CASE Crash(r) \/ CaughtError(r)
        BY <3>5, FaultMoves, StepKeeps
      <3>6. QED
        BY <3>1, <3>2, <3>3, <3>4, <3>5
    <2>3. QED
      BY <2>1, <2>2
  <1>3. QED
    BY <1>1, <1>2, PTL DEF Spec

\* The addresses in the file belong together, however many setups were
\* started, interleaved and stopped.
THEOREM FileComplete == Spec => []FileIsComplete
  <1>1. ScriptsInv => FileIsComplete
    BY DEF ScriptsInv
  <1>2. QED
    BY <1>1, ScriptsInvariant, PTL

\* Whatever other scripts do to the account meanwhile, a finalized payload is
\* about to be closed by the run that finalized it, unless that was stopped or
\* its close failed (transfer.ts, benchmark-cu.ts).
THEOREM FinalizedHasACloser == Spec => []FinalizedIsClosed
  <1>1. ScriptsInv => FinalizedIsClosed
    BY DEF ScriptsInv
  <1>2. QED
    BY <1>1, ScriptsInvariant, PTL

-----------------------------------------------------------------------------
(***************************************************************************)
(* The stress test: bags that hold one of each.                            *)
(***************************************************************************)
OneEach(b) == b = [x \in BagToSet(b) |-> 1]

LEMMA AddToBag ==
    ASSUME NEW b, OneEach(b), NEW x, x \notin BagToSet(b)
    PROVE  /\ OneEach(b (+) SetToBag({x}))
           /\ BagToSet(b (+) SetToBag({x})) = BagToSet(b) \cup {x}
  <1> DEFINE D == BagToSet(b)
  <1>1. DOMAIN b = D /\ \A y \in D : b[y] = 1
    BY DEF OneEach, BagToSet
  <1>2. DOMAIN SetToBag({x}) = {x} /\ SetToBag({x})[x] = 1
    BY DEF SetToBag
  <1>3. b (+) SetToBag({x}) = [y \in D \cup {x} |-> 1]
    BY <1>1, <1>2 DEF (+)
  <1>4. QED
    BY <1>3 DEF OneEach, BagToSet

LEMMA RemoveFromBag ==
    ASSUME NEW b, OneEach(b), NEW x \in BagToSet(b)
    PROVE  /\ OneEach(b (-) SetToBag({x}))
           /\ BagToSet(b (-) SetToBag({x})) = BagToSet(b) \ {x}
  <1> DEFINE D == BagToSet(b)
  <1>1. DOMAIN b = D /\ \A y \in D : b[y] = 1
    BY DEF OneEach, BagToSet
  <1>2. DOMAIN SetToBag({x}) = {x} /\ SetToBag({x})[x] = 1
    BY DEF SetToBag
  <1>3. b (-) SetToBag({x}) = [y \in D \ {x} |-> 1]
    BY <1>1, <1>2 DEF (-)
  <1>4. QED
    BY <1>3 DEF OneEach, BagToSet

Busy == BagToSet(pool.busy)
Paid == BagToSet(pool.landed)
Given == BagToSet(pool.results)

\* Each task that was taken is under way or has one result, and what landed
\* was not under way and has not landed before.
PoolInv ==
    /\ pool = [atas |-> pool.atas, cursor |-> pool.cursor, busy |-> pool.busy,
               landed |-> pool.landed, results |-> pool.results, report |-> pool.report]
    /\ pool.cursor \in Nat \ {0}
    /\ OneEach(pool.busy) /\ OneEach(pool.landed) /\ OneEach(pool.results)
    /\ Busy \cup Paid \subseteq 1 .. pool.cursor - 1 /\ Busy \cap Paid = {}
    /\ \A x \in Given : /\ x.index \in (1 .. pool.cursor - 1) \ Busy
                        /\ x.success => x.index \in Paid
    /\ \A x, y \in Given : x.index = y.index => x = y
    /\ \A i \in 1 .. pool.cursor - 1 : i \in Busy \/ \E x \in Given : x.index = i
    /\ pool.report # None => pool.cursor > Count /\ Busy = {}

LEMMA EmptyPoolInv == ASSUME pool' = EmptyPool PROVE PoolInv'
  <1>1. BagToSet(EmptyBag) = {} /\ OneEach(EmptyBag)
    BY DEF EmptyBag, BagToSet, SetToBag, OneEach
  <1>2. /\ pool'.cursor = 1 /\ pool'.report = None
        /\ pool'.busy = EmptyBag /\ pool'.landed = EmptyBag /\ pool'.results = EmptyBag
        /\ pool' = [atas |-> pool'.atas, cursor |-> pool'.cursor, busy |-> pool'.busy,
                    landed |-> pool'.landed, results |-> pool'.results,
                    report |-> pool'.report]
    BY DEF EmptyPool
  <1>3. Busy' = {} /\ Paid' = {} /\ Given' = {}
    BY <1>1, <1>2 DEF Busy, Paid, Given
  <1>4. QED
    BY <1>1, <1>2, <1>3 DEF PoolInv

LEMMA TakeKeepsPool ==
    ASSUME PoolInv, NEW r \in Runs, TakeTransfer(r)
    PROVE  PoolInv'
  <1> DEFINE i == pool.cursor
             busy == pool.busy (+) SetToBag({i})
  <1>1. i \in Nat \ {0} /\ i <= Count /\ pool.report = None /\ i \notin Busy
    BY ScriptsAssumption DEF PoolInv, TakeTransfer
  <1>2. OneEach(busy) /\ BagToSet(busy) = Busy \cup {i}
    BY <1>1, AddToBag DEF PoolInv, Busy
  <1>3. pool' = [pool EXCEPT !.busy = busy, !.cursor = i + 1]
    BY DEF TakeTransfer
  <1> HIDE DEF i, busy
  <1>4. /\ pool'.busy = busy /\ pool'.cursor = i + 1
        /\ pool'.landed = pool.landed /\ pool'.results = pool.results
        /\ pool'.report = pool.report
        /\ pool' = [atas |-> pool'.atas, cursor |-> pool'.cursor, busy |-> pool'.busy,
                    landed |-> pool'.landed, results |-> pool'.results,
                    report |-> pool'.report]
    BY <1>3 DEF PoolInv
  <1>5. Busy' = Busy \cup {i} /\ Paid' = Paid /\ Given' = Given
    BY <1>2, <1>4 DEF Busy, Paid, Given
  <1>6. i = pool.cursor
    BY DEF i
  <1>7. QED
    BY <1>1, <1>2, <1>4, <1>5, <1>6 DEF PoolInv

LEMMA ExecuteKeepsPool ==
    ASSUME PoolInv, NEW r \in Runs, NEW i \in 1 .. Count, NEW landed \in BOOLEAN,
           NEW success \in BOOLEAN, ExecuteTransfer(r, i, landed, success)
    PROVE  PoolInv'
  <1> DEFINE x == [index |-> i, success |-> success]
             busy == pool.busy (-) SetToBag({i})
             paid == IF landed THEN pool.landed (+) SetToBag({i}) ELSE pool.landed
             given == pool.results (+) SetToBag({x})
  <1>1. /\ i \in Busy /\ i \notin Paid /\ i \in 1 .. pool.cursor - 1 /\ (success => landed)
        /\ pool.report = None
    BY DEF ExecuteTransfer, PoolInv, BagIn, Busy
  <1>2. x.index = i /\ x.success = success /\ x \notin Given
    BY <1>1 DEF PoolInv
  <1>3. OneEach(busy) /\ BagToSet(busy) = Busy \ {i}
    BY <1>1, RemoveFromBag DEF PoolInv, Busy
  <1>4. OneEach(paid) /\ BagToSet(paid) = IF landed THEN Paid \cup {i} ELSE Paid
    BY <1>1, AddToBag DEF PoolInv, Paid
  <1>5. OneEach(given) /\ BagToSet(given) = Given \cup {x}
    <2> HIDE DEF x
    <2>1. QED
      BY <1>2, AddToBag DEF PoolInv, Given
  <1>6. pool' = [pool EXCEPT !.busy = busy, !.landed = paid, !.results = given]
    BY DEF ExecuteTransfer
  <1> HIDE DEF x, busy, paid, given
  <1>7. /\ pool'.busy = busy /\ pool'.cursor = pool.cursor
        /\ pool'.landed = paid /\ pool'.results = given /\ pool'.report = pool.report
        /\ pool' = [atas |-> pool'.atas, cursor |-> pool'.cursor, busy |-> pool'.busy,
                    landed |-> pool'.landed, results |-> pool'.results,
                    report |-> pool'.report]
    BY <1>6 DEF PoolInv
  <1>8. /\ Busy' = Busy \ {i} /\ Given' = Given \cup {x}
        /\ Paid \subseteq Paid' /\ Paid' \subseteq Paid \cup {i} /\ (landed => i \in Paid')
    BY <1>3, <1>4, <1>5, <1>7 DEF Busy, Paid, Given
  <1>9. /\ \A y \in Given' : /\ y.index \in (1 .. pool.cursor - 1) \ Busy'
                             /\ y.success => y.index \in Paid'
        /\ \A y, z \in Given' : y.index = z.index => y = z
    BY <1>1, <1>2, <1>8 DEF PoolInv
  <1>10. \A j \in 1 .. pool.cursor - 1 : j \in Busy' \/ \E y \in Given' : y.index = j
    BY <1>1, <1>2, <1>8 DEF PoolInv
  <1>11. Busy' \cup Paid' \subseteq 1 .. pool.cursor - 1 /\ Busy' \cap Paid' = {}
    BY <1>1, <1>8 DEF PoolInv
  <1>12. OneEach(pool'.busy) /\ OneEach(pool'.landed) /\ OneEach(pool'.results)
    BY <1>3, <1>4, <1>5, <1>7
  <1>13. QED
    BY <1>1, <1>7, <1>9, <1>10, <1>11, <1>12 DEF PoolInv

\* The other steps of the stress test.
LEMMA PoolKept ==
    ASSUME PoolInv, pool'.busy = pool.busy, pool'.cursor = pool.cursor,
           pool'.landed = pool.landed, pool'.results = pool.results,
           pool' = [atas |-> pool'.atas, cursor |-> pool'.cursor, busy |-> pool'.busy,
                    landed |-> pool'.landed, results |-> pool'.results,
                    report |-> pool'.report],
           pool'.report # None => pool.report # None \/ (pool.cursor > Count /\ Busy = {})
    PROVE  PoolInv'
  <1>1. Busy' = Busy /\ Paid' = Paid /\ Given' = Given
    BY DEF Busy, Paid, Given
  <1>2. QED
    BY <1>1 DEF PoolInv

LEMMA OtherStepsKeepPool ==
    ASSUME NEW r \in Runs,
           SetupStep(r) \/ TransferStep(r) \/ BenchmarkStep(r)
           \/ (\E ready \in BOOLEAN : Prepare(r, ready)) \/ Crash(r) \/ CaughtError(r)
    PROVE  UNCHANGED pool
  <1>1. CASE SetupStep(r)
    BY <1>1 DEF SetupStep, CreateMint, CheckIssuer, RegisterIssuer,
          InitExtraAccountMetaList, CheckRegistry, CreateTree, InitAttestationTree,
          CreateAtas, MintTokens, SaveState
  <1>2. CASE TransferStep(r)
    BY <1>2 DEF TransferStep, LoadState, InitHookPayload, ReadBaseline,
          ResizeHookPayload, WriteHookProof, FinalizeHookPayload, SettleHook,
          CloseHookPayload
  <1>3. CASE BenchmarkStep(r)
    BY <1>3 DEF BenchmarkStep, EnsureIssuer, RegisterFixture, UpdateIssuerRoot,
          ResolveRegistryTree, PayloadExists, ClearPayload, LiveSettle,
          SimulateSettle, WriteBenchmark
  <1>4. CASE (\E ready \in BOOLEAN : Prepare(r, ready)) \/ Crash(r) \/ CaughtError(r)
    BY <1>4 DEF Prepare, Crash, CaughtError
  <1>5. QED
    BY <1>1, <1>2, <1>3, <1>4

LEMMA PoolStep ==
    ASSUME PoolInv, [Next]_vars
    PROVE  PoolInv'
  <1>1. CASE UNCHANGED pool
    BY <1>1 DEF PoolInv, Busy, Paid, Given
  <1>2. ASSUME NEW r \in Runs, CreateRecipientAtas(r)
        PROVE  PoolInv'
    <2>1. PICK atas : pool' = [pool EXCEPT !.atas = atas]
      BY <1>2 DEF CreateRecipientAtas
    <2>2. QED
      BY <2>1, PoolKept DEF PoolInv
  <1>3. ASSUME NEW r \in Runs, WriteReport(r)
        PROVE  PoolInv'
    <2>1. PICK report : pool' = [pool EXCEPT !.report = report]
      BY <1>3 DEF WriteReport
    <2>2. pool.cursor > Count /\ Busy = {}
      BY <1>3 DEF WriteReport, Busy, EmptyBag, BagToSet, SetToBag
    <2>3. QED
      BY <2>1, <2>2, PoolKept DEF PoolInv
  <1>4. ASSUME NEW r \in Runs, StressStep(r)
        PROVE  PoolInv'
    BY <1>1, <1>2, <1>3, <1>4, TakeKeepsPool, ExecuteKeepsPool DEF StressStep, CreateSenderAta
  <1>5. ASSUME NEW r \in Runs, NEW script, NEW live, NEW left, Start(r, script, live, left)
        PROVE  PoolInv'
    BY <1>5, EmptyPoolInv DEF Start
  <1>6. QED
    BY <1>1, <1>4, <1>5, OtherStepsKeepPool DEF Next, vars

LEMMA InitPool == ASSUME Init PROVE PoolInv
  <1>1. BagToSet(EmptyBag) = {} /\ OneEach(EmptyBag)
    BY DEF EmptyBag, BagToSet, SetToBag, OneEach
  <1>2. /\ pool.cursor = 1 /\ pool.report = None
        /\ pool.busy = EmptyBag /\ pool.landed = EmptyBag /\ pool.results = EmptyBag
        /\ pool = [atas |-> pool.atas, cursor |-> pool.cursor, busy |-> pool.busy,
                   landed |-> pool.landed, results |-> pool.results,
                   report |-> pool.report]
    BY DEF Init, EmptyPool
  <1>3. Busy = {} /\ Paid = {} /\ Given = {}
    BY <1>1, <1>2 DEF Busy, Paid, Given
  <1>4. QED
    BY <1>1, <1>2, <1>3 DEF PoolInv

\* What the report of the stress test rests on.
EachTaskOnce ==
    /\ \A i \in Paid : pool.landed[i] = 1
    /\ pool.report # None =>
         \A i \in 1 .. Count :
           \E x \in Given :
             /\ x.index = i /\ pool.results[x] = 1 /\ (x.success => i \in Paid)
             /\ \A y \in Given : y.index = i => y = x

\* The workers share the tasks: no recipient is paid twice, and when the
\* report is written every transfer has one result, which is a success only
\* if it landed (stress-test.ts, runBatch).
THEOREM TasksShared == Spec => []EachTaskOnce
  <1>1. Init => PoolInv
    BY InitPool
  <1>2. PoolInv => EachTaskOnce
    <2> SUFFICES ASSUME PoolInv
                 PROVE  EachTaskOnce
      OBVIOUS
    <2>1. /\ \A i \in Paid : pool.landed[i] = 1
          /\ \A x \in Given : pool.results[x] = 1
      BY DEF PoolInv, OneEach, Paid, Given
    <2>2. ASSUME pool.report # None, NEW i \in 1 .. Count
          PROVE  \E x \in Given : x.index = i
      BY <2>2, ScriptsAssumption DEF PoolInv
    <2>3. QED
      BY <2>1, <2>2 DEF PoolInv, EachTaskOnce
  <1>3. PoolInv /\ [Next]_vars => PoolInv'
    BY PoolStep
  <1>4. QED
    BY <1>1, <1>2, <1>3, PTL DEF Spec

-----------------------------------------------------------------------------
(***************************************************************************)
(* The report.  Its numbers are cardinalities of bags, which the standard  *)
(* module adds up over a set by recursion.                                 *)
(***************************************************************************)
\* A set of numbers has a least one.
LEMMA LeastNumber ==
    ASSUME NEW S \in SUBSET Nat, S # {}
    PROVE  \E m \in S : \A k \in S : m <= k
  <1> DEFINE Less == OpToRel(<, Nat)
  <1>1. IsWellFoundedOn(Less, Nat)
    BY NatLessThanWellFounded
  <1>2. \A x, y \in Nat : x < y => <<x, y>> \in Less
    BY DEF OpToRel
  <1> HIDE DEF Less
  <1>3. PICK m \in S : \A k \in S : ~(<<k, m>> \in Less)
    BY <1>1, WFMin
  <1>4. ASSUME NEW k \in S PROVE m <= k
    <2>1. m \in Nat /\ k \in Nat
      OBVIOUS
    <2>2. ~(k < m)
      BY <1>2, <1>3, <2>1
    <2>3. QED
      BY <2>1, <2>2
  <1>5. QED
    BY <1>4

AnyOf(S) == CHOOSE e \in S : TRUE

\* What BagCardinality is of a bag over D.
Sums(f, b, D) ==
    f = [S \in SUBSET D |-> IF S = {} THEN 0 ELSE b[AnyOf(S)] + f[S \ {AnyOf(S)}]]

LEMMA SumIsCardinality ==
    ASSUME NEW b, NEW D, IsFiniteSet(D), \A x \in D : b[x] = 1,
           NEW f, Sums(f, b, D), NEW T \in SUBSET D
    PROVE  f[T] = Cardinality(T)
  <1> DEFINE Wrong == {S \in SUBSET D : f[S] # Cardinality(S)}
             sizes == {Cardinality(S) : S \in Wrong}
  <1>1. \A S \in SUBSET D : IsFiniteSet(S) /\ Cardinality(S) \in Nat
    BY FS_Subset, FS_CardinalityType
  <1> SUFFICES ASSUME Wrong # {}
               PROVE  FALSE
    OBVIOUS
  <1>2. PICK m \in sizes : \A k \in sizes : m <= k
    <2>1. sizes \in SUBSET Nat /\ sizes # {}
      BY <1>1
    <2> HIDE DEF sizes
    <2>2. QED
      BY <2>1, LeastNumber
  <1>3. PICK S \in Wrong : Cardinality(S) = m
    OBVIOUS
  <1>4. S # {}
    BY FS_EmptySet DEF Sums
  <1> DEFINE e == AnyOf(S)
             R == S \ {e}
  <1>5. e \in S
    BY <1>4 DEF AnyOf
  <1>6. f[S] = b[e] + f[R]
    BY <1>4 DEF Sums
  <1>7. Cardinality(R) = Cardinality(S) - 1 /\ R \in SUBSET D
    BY <1>1, <1>5, FS_RemoveElement
  <1> HIDE DEF e, R
  <1>8. R \notin Wrong
    <2> SUFFICES ASSUME R \in Wrong
                 PROVE  FALSE
      OBVIOUS
    <2>1. Cardinality(R) \in sizes
      OBVIOUS
    <2>2. m <= Cardinality(R)
      BY <1>2, <2>1
    <2>3. QED
      BY <1>1, <1>3, <1>7, <2>2
  <1>9. f[R] = Cardinality(R) /\ b[e] = 1
    BY <1>5, <1>7, <1>8
  <1>10. QED
    BY <1>1, <1>3, <1>6, <1>7, <1>9

\* A bag that holds one of each has as many as there are.
LEMMA OnesCounted ==
    ASSUME NEW b, OneEach(b), IsFiniteSet(BagToSet(b))
    PROVE  BagCardinality(b) = Cardinality(BagToSet(b))
  <1> DEFINE D == BagToSet(b)
             sum == CHOOSE f : Sums(f, b, D)
             card == [S \in SUBSET D |-> Cardinality(S)]
  <1>1. \A x \in D : b[x] = 1
    BY DEF OneEach
  <1>2. Sums(card, b, D)
    <2>1. ASSUME NEW S \in SUBSET D
          PROVE  card[S] = IF S = {} THEN 0 ELSE b[AnyOf(S)] + card[S \ {AnyOf(S)}]
      <3>1. CASE S = {}
        BY <3>1, FS_EmptySet
      <3>2. CASE S # {}
        <4>1. AnyOf(S) \in S
          BY <3>2 DEF AnyOf
        <4>2. IsFiniteSet(S) /\ Cardinality(S) \in Nat
          BY FS_Subset, FS_CardinalityType
        <4>3. Cardinality(S \ {AnyOf(S)}) = Cardinality(S) - 1
          BY <4>1, <4>2, FS_RemoveElement
        <4>4. b[AnyOf(S)] = 1
          BY <1>1, <4>1
        <4>5. card[S \ {AnyOf(S)}] = Cardinality(S) - 1 /\ card[S] = Cardinality(S)
          BY <4>3
        <4>6. QED
          BY <3>2, <4>2, <4>4, <4>5
      <3>3. QED
        BY <3>1, <3>2
    <2>2. card = [S \in SUBSET D |-> card[S]]
      OBVIOUS
    <2> HIDE DEF card
    <2>3. QED
      BY <2>1, <2>2 DEF Sums
  <1>3. Sums(sum, b, D)
    BY <1>2
  <1>4. BagCardinality(b) = sum[D]
    BY DEF BagCardinality, Sums, AnyOf, BagToSet
  <1>5. QED
    <2> HIDE DEF sum, D
    <2>1. IsFiniteSet(D)
      BY DEF D
    <2>2. sum[D] = Cardinality(D)
      BY <1>1, <1>3, <2>1, SumIsCardinality
    <2>3. QED
      BY <1>4, <2>2 DEF D

Succeeded == {x \in Given : x.success = TRUE}
Failed == {x \in Given : x.success = FALSE}

\* A report is what was counted when the last worker was done.
ReportInv ==
    /\ pool.cursor <= Count + 1
    /\ \A x \in Given : x.success \in BOOLEAN
    /\ pool.report # None =>
         pool.report = [total |-> Count, succeeded |-> Results(TRUE),
                        failed |-> Results(FALSE)]

LEMMA ReportKept ==
    ASSUME ReportInv, pool'.cursor = pool.cursor, pool'.results = pool.results,
           \/ pool'.report = pool.report
           \/ pool'.report = [total |-> Count, succeeded |-> Results(TRUE),
                              failed |-> Results(FALSE)]
    PROVE  ReportInv'
  <1>1. Given' = Given /\ Results(TRUE)' = Results(TRUE) /\ Results(FALSE)' = Results(FALSE)
    BY DEF Given, Results
  <1>2. QED
    BY <1>1 DEF ReportInv

LEMMA ReportStep ==
    ASSUME PoolInv, ReportInv, [Next]_vars
    PROVE  ReportInv'
  <1>1. CASE UNCHANGED pool
    BY <1>1, ReportKept
  <1>2. ASSUME NEW r \in Runs, CreateRecipientAtas(r)
        PROVE  ReportInv'
    <2>1. PICK atas : pool' = [pool EXCEPT !.atas = atas]
      BY <1>2 DEF CreateRecipientAtas
    <2>2. QED
      BY <2>1, ReportKept DEF PoolInv
  <1>3. ASSUME NEW r \in Runs, WriteReport(r)
        PROVE  ReportInv'
    <2> DEFINE report == [total |-> Count, succeeded |-> Results(TRUE),
                          failed |-> Results(FALSE)]
    <2>1. pool' = [pool EXCEPT !.report = report]
      BY <1>3 DEF WriteReport
    <2> HIDE DEF report
    <2>2. /\ pool'.cursor = pool.cursor /\ pool'.results = pool.results
          /\ pool'.report = report
      BY <2>1 DEF PoolInv
    <2>3. QED
      BY <2>2, ReportKept DEF report
  <1>4. ASSUME NEW r \in Runs, TakeTransfer(r)
        PROVE  ReportInv'
    <2>1. pool.report = None /\ pool.cursor <= Count /\ pool.cursor \in Nat
      BY <1>4, ScriptsAssumption DEF PoolInv, TakeTransfer
    <2>2. PICK busy : pool' = [pool EXCEPT !.busy = busy, !.cursor = @ + 1]
      BY <1>4 DEF TakeTransfer
    <2>3. /\ pool'.cursor = pool.cursor + 1 /\ pool'.report = None
          /\ pool'.results = pool.results
      BY <2>1, <2>2 DEF PoolInv
    <2>4. Given' = Given
      BY <2>3 DEF Given
    <2>5. QED
      BY <2>1, <2>3, <2>4, ScriptsAssumption DEF ReportInv
  <1>5. ASSUME NEW r \in Runs, NEW i \in 1 .. Count, NEW landed \in BOOLEAN,
               NEW success \in BOOLEAN, ExecuteTransfer(r, i, landed, success)
        PROVE  ReportInv'
    <2> DEFINE x == [index |-> i, success |-> success]
               given == pool.results (+) SetToBag({x})
    <2>1. pool.report = None
      BY <1>5 DEF PoolInv, ExecuteTransfer, BagIn, Busy
    <2>2. PICK busy, landings :
            pool' = [pool EXCEPT !.busy = busy, !.landed = landings, !.results = given]
      BY <1>5 DEF ExecuteTransfer
    <2>3. BagToSet(given) = Given \cup {x}
      BY DEF BagToSet, Given, (+), SetToBag
    <2> HIDE DEF given
    <2>4. /\ pool'.cursor = pool.cursor /\ pool'.report = None
          /\ pool'.results = given
      BY <2>1, <2>2 DEF PoolInv
    <2>5. Given' = Given \cup {x} /\ x.success \in BOOLEAN
      BY <2>3, <2>4 DEF Given
    <2> HIDE DEF x
    <2>6. QED
      BY <2>4, <2>5 DEF ReportInv
  <1>6. ASSUME NEW r \in Runs, NEW script, NEW live, NEW left, Start(r, script, live, left)
        PROVE  ReportInv'
    <2>1. CASE UNCHANGED pool
      BY <2>1, ReportKept
    <2>2. CASE pool' = EmptyPool
      <3>1. pool'.cursor = 1 /\ pool'.report = None /\ pool'.results = EmptyBag
        BY <2>2 DEF EmptyPool
      <3>2. Given' = {}
        BY <3>1 DEF Given, EmptyBag, BagToSet, SetToBag
      <3>3. QED
        BY <3>1, <3>2, ScriptsAssumption DEF ReportInv
    <2>3. QED
      BY <1>6, <2>1, <2>2 DEF Start
  <1>7. ASSUME NEW r \in Runs, StressStep(r)
        PROVE  ReportInv'
    BY <1>1, <1>2, <1>3, <1>4, <1>5, <1>7 DEF StressStep, CreateSenderAta
  <1>8. QED
    BY <1>1, <1>6, <1>7, OtherStepsKeepPool DEF Next, vars

LEMMA InitReport == ASSUME Init PROVE ReportInv
  <1>1. pool.cursor = 1 /\ pool.report = None /\ pool.results = EmptyBag
    BY DEF Init, EmptyPool
  <1>2. Given = {}
    BY <1>1 DEF Given, EmptyBag, BagToSet, SetToBag
  <1>3. QED
    BY <1>1, <1>2, ScriptsAssumption DEF ReportInv

\* Every transfer has one result when the last worker is done.
LEMMA GivenCounted ==
    ASSUME PoolInv, ReportInv, pool.report # None
    PROVE  IsFiniteSet(Given) /\ Cardinality(Given) = Count
  <1> DEFINE index == [x \in Given |-> x.index]
  <1>1. pool.cursor = Count + 1 /\ Busy = {} /\ Count \in Nat
    BY ScriptsAssumption DEF PoolInv, ReportInv
  <1>2. IsFiniteSet(1 .. Count) /\ Cardinality(1 .. Count) = Count
    BY <1>1, FS_Interval
  <1>3. index \in Injection(Given, 1 .. Count)
    <2>1. \A x \in Given : x.index \in 1 .. Count
      BY <1>1 DEF PoolInv
    <2>2. \A x, y \in Given : index[x] = index[y] => x = y
      BY DEF PoolInv
    <2>3. index \in [Given -> 1 .. Count]
      BY <2>1
    <2> HIDE DEF index
    <2>4. QED
      BY <2>2, <2>3 DEF Injection, IsInjective
  <1>4. \A i \in 1 .. Count : \E x \in Given : index[x] = i
    BY <1>1 DEF PoolInv
  <1>5. index \in Surjection(Given, 1 .. Count)
    BY <1>3, <1>4 DEF Surjection, Injection
  <1> HIDE DEF index
  <1>6. QED
    BY <1>2, <1>3, <1>5, FS_Injection

LEMMA ResultsCounted ==
    ASSUME PoolInv, IsFiniteSet(Given)
    PROVE  /\ Results(TRUE) = Cardinality(Succeeded) /\ IsFiniteSet(Succeeded)
           /\ Results(FALSE) = Cardinality(Failed) /\ IsFiniteSet(Failed)
  <1> DEFINE a == [x \in {x \in DOMAIN pool.results : x.success = TRUE} |->
                      pool.results[x]]
             b == [x \in {x \in DOMAIN pool.results : x.success = FALSE} |->
                      pool.results[x]]
  <1>1. OneEach(a) /\ BagToSet(a) = Succeeded
    BY DEF PoolInv, OneEach, BagToSet, Succeeded, Given
  <1>2. OneEach(b) /\ BagToSet(b) = Failed
    BY DEF PoolInv, OneEach, BagToSet, Failed, Given
  <1>3. IsFiniteSet(Succeeded) /\ IsFiniteSet(Failed)
    BY FS_Subset DEF Succeeded, Failed
  <1>4. Results(TRUE) = BagCardinality(a)
    BY DEF Results
  <1>5. Results(FALSE) = BagCardinality(b)
    BY DEF Results
  <1> HIDE DEF a, b
  <1>6. BagCardinality(a) = Cardinality(Succeeded) /\ BagCardinality(b) = Cardinality(Failed)
    BY <1>1, <1>2, <1>3, OnesCounted
  <1>7. QED
    BY <1>3, <1>4, <1>5, <1>6, Zenon

\* What was reported as paid was paid.
LEMMA SuccessesLanded ==
    ASSUME PoolInv, ReportInv
    PROVE  /\ IsFiniteSet(Paid) /\ BagCardinality(pool.landed) = Cardinality(Paid)
           /\ Cardinality(Succeeded) <= Cardinality(Paid)
  <1> DEFINE index == [x \in Succeeded |-> x.index]
  <1>1. IsFiniteSet(1 .. pool.cursor - 1) /\ Paid \subseteq 1 .. pool.cursor - 1
    BY FS_Interval DEF PoolInv
  <1>2. IsFiniteSet(Paid)
    BY <1>1, FS_Subset
  <1>3. BagCardinality(pool.landed) = Cardinality(Paid)
    BY <1>2, OnesCounted DEF PoolInv, Paid
  <1>4. index \in Injection(Succeeded, Paid)
    <2>1. \A x \in Succeeded : x.index \in Paid
      BY DEF PoolInv, Succeeded
    <2>2. \A x, y \in Succeeded : index[x] = index[y] => x = y
      BY DEF PoolInv, Succeeded
    <2>3. index \in [Succeeded -> Paid]
      BY <2>1
    <2> HIDE DEF index
    <2>4. QED
      BY <2>2, <2>3 DEF Injection, IsInjective
  <1> HIDE DEF index
  <1>5. QED
    BY <1>2, <1>3, <1>4, FS_Injection

\* The report of the stress test accounts for every transfer once, no
\* recipient was paid twice, and no more transfers are called successes than
\* landed, for any number of recipients and workers (stress-test.ts, runBatch
\* and main).
THEOREM ReportIsTrue == Spec => []ReportAccountsForAll
  <1>1. Init => PoolInv /\ ReportInv
    BY InitPool, InitReport
  <1>2. PoolInv /\ ReportInv /\ [Next]_vars => PoolInv' /\ ReportInv'
    BY PoolStep, ReportStep
  <1>3. PoolInv /\ ReportInv => ReportAccountsForAll
    <2> SUFFICES ASSUME PoolInv, ReportInv
                 PROVE  ReportAccountsForAll
      OBVIOUS
    <2>1. \A i \in BagToSet(pool.landed) : pool.landed[i] = 1
      BY DEF PoolInv, OneEach
    <2>2. ASSUME pool.report # None
          PROVE  /\ pool.report.succeeded + pool.report.failed = Count
                 /\ pool.report.succeeded <= BagCardinality(pool.landed)
      <3>1. IsFiniteSet(Given) /\ Cardinality(Given) = Count
        BY <2>2, GivenCounted
      <3>2. /\ pool.report.succeeded = Cardinality(Succeeded) /\ IsFiniteSet(Succeeded)
            /\ pool.report.failed = Cardinality(Failed) /\ IsFiniteSet(Failed)
        <4>1. PICK succeeded, failed :
                /\ succeeded = Results(TRUE) /\ failed = Results(FALSE)
                /\ pool.report = [total |-> Count, succeeded |-> succeeded,
                                  failed |-> failed]
          BY <2>2 DEF ReportInv
        <4>2. /\ Results(TRUE) = Cardinality(Succeeded) /\ IsFiniteSet(Succeeded)
              /\ Results(FALSE) = Cardinality(Failed) /\ IsFiniteSet(Failed)
          BY <3>1, ResultsCounted
        <4>3. succeeded = Cardinality(Succeeded) /\ failed = Cardinality(Failed)
          BY <4>1, <4>2, Zenon
        <4>4. pool.report.succeeded = succeeded /\ pool.report.failed = failed
          BY <4>1
        <4>5. QED
          BY <4>2, <4>3, <4>4, Zenon
      <3>3. Succeeded \cup Failed = Given /\ Succeeded \cap Failed = {}
        BY DEF Succeeded, Failed, ReportInv
      <3>4. /\ Cardinality(Succeeded) \in Nat /\ Cardinality(Failed) \in Nat
            /\ Cardinality(Given) = Cardinality(Succeeded) + Cardinality(Failed) - 0
        <4>1. Cardinality(Succeeded) \in Nat /\ Cardinality(Failed) \in Nat
          BY <3>2, FS_CardinalityType
        <4>2. Cardinality(Succeeded \cup Failed)
                = Cardinality(Succeeded) + Cardinality(Failed)
                    - Cardinality(Succeeded \cap Failed)
          BY <3>2, FS_Union
        <4>3. QED
          BY <3>3, <4>1, <4>2, FS_EmptySet
      <3>5. pool.report.succeeded <= BagCardinality(pool.landed)
        BY <3>2, SuccessesLanded
      <3>6. QED
        BY <3>1, <3>2, <3>4, <3>5
    <2>3. QED
      BY <2>1, <2>2 DEF ReportAccountsForAll
  <1>4. QED
    BY <1>1, <1>2, <1>3, PTL DEF Spec

\* What the types need beside the invariants above.
ValuesInv ==
    /\ created \subseteq Kinds \X Runs
    /\ issuer \in {None, "test", "fixture"}
    /\ faults \in 0 .. MaxFaults
    /\ pool.atas \in 0 .. Count
    /\ Given \subseteq [index : 1 .. Count, success : BOOLEAN]

LEMMA AtasInRange ==
    ASSUME NEW atas \in 0 .. Count
    PROVE  (IF atas + ATA_BATCH < Count THEN atas + ATA_BATCH ELSE Count) \in 0 .. Count
  BY ScriptsAssumption

\* The steps that leave the pool alone.
LEMMA ChainValues ==
    ASSUME ValuesInv, NEW r \in Runs,
           SetupStep(r) \/ TransferStep(r) \/ BenchmarkStep(r)
           \/ (\E ready \in BOOLEAN : Prepare(r, ready)) \/ Crash(r) \/ CaughtError(r)
    PROVE  ValuesInv'
  <1>1. UNCHANGED pool
    BY OtherStepsKeepPool
  <1>2. Given' = Given
    BY <1>1 DEF Given
  <1>3. \A kind \in Kinds : Create(r, kind) => created' \subseteq Kinds \X Runs
                                              /\ issuer' = issuer
    BY DEF Create, ValuesInv
  <1>4. /\ created' \subseteq Kinds \X Runs
        /\ issuer' \in {None, "test", "fixture"} /\ faults' \in 0 .. MaxFaults
    <2>1. CASE SetupStep(r)
      <3>1. {"mint", "metas", "tree", "atas", "tokens"} = Kinds
        BY DEF Kinds
      <3> HIDE DEF Kinds
      <3>2. QED
        BY <1>3, <2>1, <3>1 DEF SetupStep, CreateMint, CheckIssuer, RegisterIssuer,
              InitExtraAccountMetaList, CheckRegistry, CreateTree, InitAttestationTree,
              CreateAtas, MintTokens, SaveState, Sends, chain, ValuesInv
    <2>2. CASE TransferStep(r)
      BY <2>2 DEF TransferStep, LoadState, InitHookPayload, ReadBaseline,
            ResizeHookPayload, WriteHookProof, FinalizeHookPayload, SettleHook,
            CloseHookPayload, Sends, SetPayload, chain, ValuesInv
    <2>3. CASE BenchmarkStep(r)
      BY <2>3 DEF BenchmarkStep, EnsureIssuer, RegisterFixture, UpdateIssuerRoot,
            ResolveRegistryTree, PayloadExists, ClearPayload, LiveSettle,
            SimulateSettle, WriteBenchmark, Sends, SetPayload, chain, ValuesInv
    <2>4. CASE (\E ready \in BOOLEAN : Prepare(r, ready)) \/ Crash(r) \/ CaughtError(r)
      <3>1. UNCHANGED <<created, issuer>> /\ faults' \in {faults, faults + 1}
            /\ faults' <= MaxFaults
        BY <2>4, ScriptsAssumption DEF Prepare, Crash, CaughtError, chain, ValuesInv
      <3>2. QED
        BY <3>1, ScriptsAssumption DEF ValuesInv
    <2>5. QED
      BY <2>1, <2>2, <2>3, <2>4
  <1>5. QED
    BY <1>1, <1>2, <1>4 DEF ValuesInv

LEMMA StressValues ==
    ASSUME PoolInv, ValuesInv, NEW r \in Runs, StressStep(r)
    PROVE  ValuesInv'
  <1>1. CASE CreateSenderAta(r)
    <2>1. created' = created \cup {<<"atas", r>>} /\ UNCHANGED <<issuer, faults, pool>>
      BY <1>1 DEF CreateSenderAta, Create
    <2>2. Given' = Given
      BY <2>1 DEF Given
    <2>3. QED
      BY <2>1, <2>2 DEF ValuesInv, Kinds
  <1>2. CASE CreateRecipientAtas(r)
    <2> DEFINE atas == IF pool.atas + ATA_BATCH < Count THEN pool.atas + ATA_BATCH ELSE Count
    <2>1. pool' = [pool EXCEPT !.atas = atas] /\ UNCHANGED <<created, issuer, faults>>
      BY <1>2 DEF CreateRecipientAtas, chain
    <2>2. atas \in 0 .. Count
      BY AtasInRange DEF ValuesInv
    <2> HIDE DEF atas
    <2>3. pool'.atas = atas /\ pool'.results = pool.results
      BY <2>1 DEF PoolInv
    <2>4. Given' = Given
      BY <2>3 DEF Given
    <2>5. QED
      BY <2>1, <2>2, <2>3, <2>4 DEF ValuesInv
  <1>3. CASE WriteReport(r)
    <2>1. PICK report : pool' = [pool EXCEPT !.report = report]
      BY <1>3 DEF WriteReport
    <2>2. pool'.atas = pool.atas /\ pool'.results = pool.results
      BY <2>1 DEF PoolInv
    <2>3. Given' = Given /\ UNCHANGED <<created, issuer, faults>>
      BY <1>3, <2>2 DEF Given, WriteReport, chain
    <2>4. QED
      BY <2>2, <2>3 DEF ValuesInv
  <1>4. CASE TakeTransfer(r)
    <2>1. PICK busy : pool' = [pool EXCEPT !.busy = busy, !.cursor = @ + 1]
      BY <1>4 DEF TakeTransfer
    <2>2. pool'.atas = pool.atas /\ pool'.results = pool.results
      BY <2>1 DEF PoolInv
    <2>3. Given' = Given /\ UNCHANGED <<created, issuer, faults>>
      BY <1>4, <2>2 DEF Given, TakeTransfer, chain
    <2>4. QED
      BY <2>2, <2>3 DEF ValuesInv
  <1>5. ASSUME NEW i \in 1 .. Count, NEW landed \in BOOLEAN, NEW success \in BOOLEAN,
               ExecuteTransfer(r, i, landed, success)
        PROVE  ValuesInv'
    <2> DEFINE x == [index |-> i, success |-> success]
               given == pool.results (+) SetToBag({x})
    <2>1. PICK busy, landings :
            pool' = [pool EXCEPT !.busy = busy, !.landed = landings, !.results = given]
      BY <1>5 DEF ExecuteTransfer
    <2>2. BagToSet(given) = Given \cup {x}
      BY DEF BagToSet, Given, (+), SetToBag
    <2> HIDE DEF given
    <2>3. pool'.atas = pool.atas /\ pool'.results = given
      BY <2>1 DEF PoolInv
    <2>4. Given' = Given \cup {x} /\ x \in [index : 1 .. Count, success : BOOLEAN]
      BY <2>2, <2>3 DEF Given
    <2>5. /\ UNCHANGED <<created, issuer>>
          /\ faults' \in {faults, faults + 1} /\ faults' <= MaxFaults
      BY <1>5 DEF ExecuteTransfer, chain
    <2> HIDE DEF x
    <2>6. QED
      BY <2>3, <2>4, <2>5, ScriptsAssumption DEF ValuesInv
  <1>6. QED
    BY <1>1, <1>2, <1>3, <1>4, <1>5 DEF StressStep

LEMMA ValuesStep ==
    ASSUME PoolInv, ValuesInv, [Next]_vars
    PROVE  ValuesInv'
  <1>1. CASE UNCHANGED vars
    <2>1. Given' = Given
      BY <1>1 DEF vars, Given
    <2>2. QED
      BY <1>1, <2>1 DEF vars, chain, ValuesInv
  <1>2. ASSUME NEW r \in Runs, NEW script, NEW live, NEW left, Start(r, script, live, left)
        PROVE  ValuesInv'
    <2>1. UNCHANGED <<created, issuer, faults>> /\ pool' = EmptyPool
      BY <1>2 DEF Start, chain
    <2>2. pool'.atas = 0 /\ pool'.results = EmptyBag
      BY <2>1 DEF EmptyPool
    <2>3. Given' = {}
      BY <2>2 DEF Given, EmptyBag, BagToSet, SetToBag
    <2>4. QED
      BY <2>1, <2>2, <2>3, ScriptsAssumption DEF ValuesInv
  <1>3. QED
    BY <1>1, <1>2, ChainValues, StressValues DEF Next

\* Every variable of the scripts keeps its type, for any number of runs,
\* recipients and faults (the five scripts).
THEOREM TypeCorrect == Spec => []TypeOK
  <1>1. Init => PoolInv /\ ReportInv /\ ValuesInv
    <2> SUFFICES ASSUME Init
                 PROVE  PoolInv /\ ReportInv /\ ValuesInv
      OBVIOUS
    <2>1. PoolInv /\ ReportInv
      BY InitPool, InitReport
    <2>2. pool.atas = 0 /\ pool.results = EmptyBag
      BY DEF Init, EmptyPool
    <2>3. Given = {}
      BY <2>2 DEF Given, EmptyBag, BagToSet, SetToBag
    <2>4. QED
      BY <2>1, <2>2, <2>3, ScriptsAssumption DEF Init, ValuesInv
  <1>2. PoolInv /\ ReportInv /\ ValuesInv /\ [Next]_vars
          => PoolInv' /\ ReportInv' /\ ValuesInv'
    BY PoolStep, ReportStep, ValuesStep
  <1>3. ScriptsInv /\ PoolInv /\ ReportInv /\ ValuesInv => TypeOK
    <2> SUFFICES ASSUME ScriptsInv, PoolInv, ReportInv, ValuesInv
                 PROVE  TypeOK
      OBVIOUS
    <2>1. /\ pool.cursor \in 1 .. Count + 1
          /\ Busy \subseteq 1 .. Count /\ Paid \subseteq 1 .. Count
      BY ScriptsAssumption DEF PoolInv, ReportInv
    <2>2. pool.report \in [total : {Count}, succeeded : Nat, failed : Nat] \cup {None}
      <3>1. CASE pool.report = None
        BY <3>1
      <3>2. CASE pool.report # None
        <4>1. PICK succeeded, failed :
                /\ succeeded = Results(TRUE) /\ failed = Results(FALSE)
                /\ pool.report = [total |-> Count, succeeded |-> succeeded,
                                  failed |-> failed]
          BY <3>2 DEF ReportInv
        <4>2. IsFiniteSet(Given)
          BY <3>2, GivenCounted
        <4>3. /\ Results(TRUE) = Cardinality(Succeeded) /\ IsFiniteSet(Succeeded)
              /\ Results(FALSE) = Cardinality(Failed) /\ IsFiniteSet(Failed)
          BY <4>2, ResultsCounted
        <4>4. Cardinality(Succeeded) \in Nat /\ Cardinality(Failed) \in Nat
          BY <4>3, FS_CardinalityType
        <4>5. succeeded = Cardinality(Succeeded) /\ failed = Cardinality(Failed)
          BY <4>1, <4>3, Zenon
        <4>6. succeeded \in Nat /\ failed \in Nat
          BY <4>4, <4>5
        <4>7. pool.report = [total |-> Count, succeeded |-> succeeded, failed |-> failed]
          BY <4>1, Zenon
        <4>8. QED
          BY <4>6, <4>7
      <3>3. QED
        BY <3>1, <3>2
    <2>3. job \in [Runs -> Job]
      BY DEF ScriptsInv, Typed
    <2>4. QED
      BY <2>1, <2>2, <2>3 DEF TypeOK, ScriptsInv, Typed, ValuesInv, Job, State, Payload,
            Busy, Paid, Given
  <1>4. QED
    BY <1>1, <1>2, <1>3, ScriptsInvariant, PTL DEF Spec

-----------------------------------------------------------------------------
(***************************************************************************)
(* Staging.  The payload account, as ProofStaging sees it.                 *)
(***************************************************************************)
\* What the abstract account of a payload is.
AccountFor(p) ==
    [stage |-> IF p.claim = None THEN "staging" ELSE "final", length |-> 1,
     content |-> IF p.written = None THEN <<>> ELSE <<p.written>>, claim |-> p.claim]

NoAccount == [stage |-> "none", length |-> 0, content |-> <<>>, claim |-> None]

AccountStaged == [k \in {"wallet"} |-> StagedAccount]

Stages == StagedAccount' = StagedAccount \/ Staging!StagingNext

LEMMA AccountsShown ==
    /\ payload = None => StagedAccount = NoAccount
    /\ payload \in Payload => StagedAccount = AccountFor(payload) /\ payload # None
    /\ payload' = None => StagedAccount' = NoAccount
    /\ payload' \in Payload => StagedAccount' = AccountFor(payload')
    /\ payload' = payload => StagedAccount' = StagedAccount
  <1>1. \A p \in Payload : p # None
    BY NoneIsNoPayload DEF Payload
  <1>2. QED
    BY <1>1 DEF StagedAccount, NoAccount, AccountFor

\* The account is closed, if there is one.
LEMMA ClosingStages ==
    ASSUME Typed, payload' = None \/ payload' = payload
    PROVE  Stages
  <1>1. CASE payload = None \/ payload' = payload
    BY <1>1, AccountsShown DEF Stages
  <1>2. CASE payload \in Payload /\ payload' = None
    <2>1. /\ AccountStaged["wallet"].stage # "none"
          /\ AccountStaged' = [AccountStaged EXCEPT !["wallet"] = NoAccount]
      BY <1>2, AccountsShown DEF AccountStaged, AccountFor
    <2>2. Staging!Close("wallet")
      BY <2>1 DEF AccountStaged, NoAccount, Staging!Close, Staging!Becomes,
         Staging!Absent
    <2>3. QED
      BY <2>2 DEF Stages, Staging!StagingNext
  <1>3. QED
    BY <1>1, <1>2 DEF Typed

\* The account is opened.
LEMMA InitStages ==
    ASSUME Typed, NEW r \in Runs, InitHookPayload(r)
    PROVE  Stages
  <1>1. CASE payload' = payload
    BY <1>1, ClosingStages
  <1>2. CASE payload = None /\ payload' = NewPayload
    <2> DEFINE opened == [stage |-> "staging", length |-> 1,
                          content |-> <<>>, claim |-> None]
    <2>1. payload' \in Payload /\ AccountFor(payload') = opened
      BY <1>2 DEF NewPayload, Payload, AccountFor
    <2>2. /\ AccountStaged["wallet"].stage = "none"
          /\ AccountStaged' = [AccountStaged EXCEPT !["wallet"] = opened]
      BY <1>2, <2>1, AccountsShown DEF AccountStaged, NoAccount
    <2>3. Staging!Open("wallet", 1)
      BY <2>2 DEF AccountStaged, Staging!Open, Staging!Becomes, Staging!Absent
    <2>4. QED
      BY <2>3 DEF Stages, Staging!StagingNext
  <1>3. QED
    BY <1>1, <1>2 DEF InitHookPayload, Sends, SetPayload, chain

\* A resize is not seen.
LEMMA ResizeStages ==
    ASSUME Typed, NEW r \in Runs, ResizeHookPayload(r)
    PROVE  Stages
  <1>1. CASE payload' = payload
    BY <1>1, ClosingStages
  <1>2. CASE CanModify /\ payload' = [payload EXCEPT !.sized = TRUE]
    <2>1. payload \in Payload
      BY <1>2 DEF CanModify, Typed
    <2>2. /\ payload' \in Payload
          /\ payload'.written = payload.written /\ payload'.claim = payload.claim
      BY <1>2, <2>1 DEF Payload
    <2>3. AccountFor(payload') = AccountFor(payload)
      BY <2>2 DEF AccountFor
    <2>4. QED
      BY <2>1, <2>2, <2>3, AccountsShown DEF Stages
  <1>3. QED
    BY <1>1, <1>2 DEF ResizeHookPayload, Sends, SetPayload, chain

\* The one write is of the whole proof.
LEMMA WriteStages ==
    ASSUME Typed, NEW r \in Runs, WriteHookProof(r)
    PROVE  Stages
  <1>1. CASE payload' = payload
    BY <1>1, ClosingStages
  <1>2. CASE /\ CanModify /\ payload.written = None
             /\ payload' = [payload EXCEPT !.written = r]
    <2>1. payload \in Payload /\ payload.claim = None
      BY <1>2 DEF CanModify, Typed
    <2>2. /\ payload' \in Payload
          /\ payload'.written = r /\ payload'.claim = None
      BY <1>2, <2>1 DEF Payload
    <2> DEFINE before == [stage |-> "staging", length |-> 1,
                          content |-> <<>>, claim |-> None]
               after == [stage |-> "staging", length |-> 1,
                         content |-> <<r>>, claim |-> None]
    <2>3. StagedAccount = before
      BY <1>2, <2>1, AccountsShown DEF AccountFor
    <2>4. r # None
      BY ScriptsAssumption
    <2>5. StagedAccount' = after
      BY <2>2, <2>4, AccountsShown DEF AccountFor
    <2>6. <<>> \o [i \in 1 .. 1 |-> r] = <<r>>
      OBVIOUS
    <2>7. [before EXCEPT !.content = @ \o [i \in 1 .. 1 |-> r]] = after
      BY <2>6
    <2>8. /\ AccountStaged["wallet"] = before
          /\ AccountStaged' = [AccountStaged EXCEPT !["wallet"] = after]
      BY <2>3, <2>5 DEF AccountStaged
    <2>9. Len(<<>>) + 1 <= 1
      OBVIOUS
    <2>10. Staging!Write("wallet", r, 1)
      <3>1. AccountStaged' = [AccountStaged EXCEPT !["wallet"] =
              [AccountStaged["wallet"] EXCEPT !.content = @ \o [i \in 1 .. 1 |-> r]]]
        BY <2>7, <2>8
      <3>2. /\ AccountStaged["wallet"].stage = "staging"
            /\ Len(AccountStaged["wallet"].content) + 1
                  <= AccountStaged["wallet"].length
        BY <2>8, <2>9
      <3>3. QED
        BY <3>1, <3>2 DEF AccountStaged, Staging!Write, Staging!Becomes
    <2>11. 1 \in 1 .. AccountStaged["wallet"].length
      BY <2>8
    <2>12. QED
      BY <2>10, <2>11 DEF AccountStaged, Stages, Staging!StagingNext
  <1>3. QED
    BY <1>1, <1>2 DEF WriteHookProof, Sends, SetPayload, chain

\* The claim is added to a proof that is there.
LEMMA FinalizeStages ==
    ASSUME Typed, NEW r \in Runs, FinalizeHookPayload(r)
    PROVE  Stages
  <1>1. CASE payload' = payload
    BY <1>1, ClosingStages
  <1>2. CASE /\ CanModify /\ payload.written # None
             /\ payload' = [payload EXCEPT !.claim = r]
    <2>1. payload \in Payload /\ payload.claim = None
      BY <1>2 DEF CanModify, Typed
    <2>2. /\ payload' \in Payload
          /\ payload'.written = payload.written /\ payload'.claim = r
      BY <1>2, <2>1 DEF Payload
    <2> DEFINE proof == <<payload.written>>
               before == [stage |-> "staging", length |-> 1,
                          content |-> proof, claim |-> None]
               after == [stage |-> "final", length |-> 1,
                         content |-> proof, claim |-> r]
    <2>3. StagedAccount = before
      BY <1>2, <2>1, AccountsShown DEF AccountFor
    <2>4. r # None
      BY ScriptsAssumption
    <2>5. StagedAccount' = after
      BY <1>2, <2>2, <2>4, AccountsShown DEF AccountFor
    <2>6. Len(proof) = 1
      OBVIOUS
    <2> HIDE DEF proof
    <2>7. [before EXCEPT !.stage = "final", !.claim = r] = after
      <3> DEFINE a == [before EXCEPT !.stage = "final", !.claim = r]
      <3>1. a \in [stage : {"final"}, length : {1}, content : {proof}, claim : {r}]
        OBVIOUS
      <3> HIDE DEF a
      <3>2. a = after
        BY <3>1
      <3>3. QED
        BY <3>2 DEF a
    <2>8. /\ AccountStaged["wallet"] = before
          /\ AccountStaged' = [AccountStaged EXCEPT !["wallet"] = after]
      BY <2>3, <2>5 DEF AccountStaged
    <2>9. Staging!Finalize("wallet", r)
      <3>1. AccountStaged' = [AccountStaged EXCEPT !["wallet"] =
              [AccountStaged["wallet"] EXCEPT !.stage = "final", !.claim = r]]
        BY <2>7, <2>8
      <3>2. /\ AccountStaged["wallet"].stage = "staging"
            /\ Len(AccountStaged["wallet"].content) = AccountStaged["wallet"].length
        BY <2>6, <2>8
      <3>3. QED
        BY <3>1, <3>2 DEF AccountStaged, Staging!Finalize, Staging!Becomes
    <2>10. QED
      BY <2>9 DEF Stages, Staging!StagingNext
  <1>3. QED
    BY <1>1, <1>2 DEF FinalizeHookPayload, Sends, SetPayload, chain

\* What a step of any script does to the account.
LEMMA StepStages ==
    ASSUME Typed, [Next]_vars
    PROVE  Stages
  <1>1. ASSUME NEW r \in Runs, SetupStep(r) PROVE payload' = payload
    BY <1>1 DEF SetupStep, CreateMint, CheckIssuer, RegisterIssuer,
       InitExtraAccountMetaList, CheckRegistry, CreateTree, InitAttestationTree,
       CreateAtas, MintTokens, SaveState, Create, Sends, chain
  <1>2. ASSUME NEW r \in Runs, TransferStep(r) PROVE Stages
    <2>1. CASE InitHookPayload(r)
      BY <2>1, InitStages
    <2>2. CASE ResizeHookPayload(r)
      BY <2>2, ResizeStages
    <2>3. CASE WriteHookProof(r)
      BY <2>3, WriteStages
    <2>4. CASE FinalizeHookPayload(r)
      BY <2>4, FinalizeStages
    <2>5. CASE LoadState(r) \/ ReadBaseline(r) \/ SettleHook(r) \/ CloseHookPayload(r)
      <3>1. payload' = None \/ payload' = payload
        BY <2>5 DEF LoadState, ReadBaseline, SettleHook, CloseHookPayload,
           SetPayload, chain
      <3>2. QED
        BY <3>1, ClosingStages
    <2>6. QED
      BY <1>2, <2>1, <2>2, <2>3, <2>4, <2>5 DEF TransferStep
  <1>3. ASSUME NEW r \in Runs, BenchmarkStep(r)
        PROVE  payload' = None \/ payload' = payload
    BY <1>3 DEF BenchmarkStep, EnsureIssuer, RegisterFixture, UpdateIssuerRoot,
       ResolveRegistryTree, PayloadExists, ClearPayload, LiveSettle, SimulateSettle,
       WriteBenchmark, Sends, SetPayload, chain
  <1>4. ASSUME NEW r \in Runs, StressStep(r) PROVE payload' = payload
    BY <1>4 DEF StressStep, CreateSenderAta, CreateRecipientAtas, WriteReport,
       TakeTransfer, ExecuteTransfer, Create, chain
  <1>5. ASSUME NEW r \in Runs,
               \/ \E script \in Scripts, live \in BOOLEAN, left \in 1 .. BenchRuns :
                     Start(r, script, live, left)
               \/ \E ready \in BOOLEAN : Prepare(r, ready)
               \/ Crash(r) \/ CaughtError(r)
        PROVE  payload' = payload
    BY <1>5 DEF Start, Prepare, Crash, CaughtError, chain
  <1>6. UNCHANGED vars => payload' = payload
    BY DEF vars, chain
  <1>7. QED
    BY <1>1, <1>2, <1>3, <1>4, <1>5, <1>6, ClosingStages DEF Next

\* Scripts that are open at once close and finalize what another one has
\* written, but the account is never written twice, nor finalized without a
\* proof, nor written after the claim (transfer.ts, benchmark-cu.ts).
THEOREM StagingRefinement == Spec => ImplementsStaging
  <1>1. Init => Staging!StagingInit
    BY AccountsShown DEF Init, Staging!StagingInit, Staging!Absent, NoAccount
  <1>2. ScriptsInv /\ [Next]_vars => [Staging!StagingNext]_AccountStaged
    BY StepStages DEF ScriptsInv, Stages, AccountStaged
  <1>3. QED
    BY <1>1, <1>2, ScriptsInvariant, PTL
       DEF Spec, ImplementsStaging, Staging!StagingSpec, AccountStaged
=============================================================================

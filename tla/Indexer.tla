------------------------------ MODULE Indexer ------------------------------
(***************************************************************************)
(* The indexer: Helius posts the transactions of the zksettle program to   *)
(* it, any number of times and in any order; for every ProofSettled event  *)
(* it uploads a record to Irys, inserts a row into its events table and    *)
(* marks the nullifier in its dedup store, three steps each of which may   *)
(* fail alone.  A delivery is always answered 200.                         *)
(*                                                                         *)
(* A transaction of Chain is [slot, time, lines]; a line of its log is     *)
(*   [kind |-> "settled", nullifier, issuer]   a ProofSettled event,       *)
(*   [kind |-> "foreign"]      data of another event or another program,   *)
(*   [kind |-> "unreadable"]   data that is not one base64 field (a log    *)
(*                             of several fields, separated by spaces).    *)
(* The remaining fields of an event play no part in the control.           *)
(***************************************************************************)
EXTENDS Integers, Sequences, SequencesExt, FiniteSets

CONSTANTS
    Chain,          \* the transactions of the program, in slot order
    Deliveries,     \* the webhook requests that can be open at once
    Requests,       \* the sequences of transactions Helius may send
    MaxDeliveries   \* bound: how many requests it sends in all

ASSUME IndexerAssumption ==
    /\ \A t \in DOMAIN Chain : /\ Chain[t].slot \in Nat /\ Chain[t].time \in Nat
                               /\ DOMAIN Chain[t].lines = 1 .. Len(Chain[t].lines)
                               /\ Len(Chain[t].lines) \in Nat
    /\ \A t, u \in DOMAIN Chain : t < u => Chain[t].slot <= Chain[u].slot
    /\ \A txs \in Requests : \A k \in DOMAIN txs : txs[k] \in DOMAIN Chain
    /\ MaxDeliveries \in Nat

VARIABLES
    handlers,   \* per open request: the event it is at, and the step
    sent,       \* requests sent so far
    answered,   \* transactions of the requests answered 200
    archive,    \* events uploaded to Irys
    rows,       \* the events table; the id of a row is its index
    marked,     \* RocksDB: the nullifiers marked as uploaded
    faulty      \* nullifiers some upload or some insert of which failed

indexerVars ==
    <<handlers, sent, answered, archive, rows, marked, faulty>>

-----------------------------------------------------------------------------
\* extract_proof_settled: an empty log is an error; so is an unreadable data
\* line, and the error drops the events of the whole transaction.
IsSettled(line) == line.kind = "settled"

\* The event of line j of transaction t.
Event(t, j) ==
    [tx |-> t, nullifier |-> Chain[t].lines[j].nullifier,
     issuer |-> Chain[t].lines[j].issuer]

Readable(t) == Chain[t].lines # <<>>
               /\ \A k \in DOMAIN Chain[t].lines :
                      Chain[t].lines[k].kind # "unreadable"

\* The lines that hold an event, and the ones the indexer gets to see.
EventLines(t) == {j \in DOMAIN Chain[t].lines : IsSettled(Chain[t].lines[j])}

ExtractProofSettled(t) == IF Readable(t) THEN EventLines(t) ELSE {}

\* The events a request with these transactions goes through, each as the
\* place of its transaction in the request and its line, and their order.
Batch(txs) == UNION {{k} \X ExtractProofSettled(txs[k]) : k \in DOMAIN txs}

Precedes(p, q) == p[1] < q[1] \/ (p[1] = q[1] /\ p[2] < q[2])

\* sdk audit(): the first ProofSettled of one transaction.  Its parser
\* passes over the lines it cannot read.
Audit(t) == {Event(t, j) : j \in {i \in EventLines(t) : \A k \in EventLines(t) : i <= k}}

EventsOf(t) == {Event(t, j) : j \in EventLines(t)}
AllEvents == UNION {EventsOf(t) : t \in DOMAIN Chain}
Nullifiers == {e.nullifier : e \in AllEvents}

Idle == [step |-> "idle", txs |-> <<>>, at |-> <<0, 0>>, left |-> {}]

\* The request goes to the first of the events it has left, or is answered.
Proceed(d, txs, left) ==
    \/ /\ left = {}
       /\ handlers' = [handlers EXCEPT ![d] = Idle]
       /\ answered' = answered \cup ToSet(txs)
    \/ \E p \in left :
          /\ \A q \in left \ {p} : Precedes(p, q)
          /\ handlers' = [handlers EXCEPT ![d] =
                [step |-> "check", txs |-> txs, at |-> p, left |-> left \ {p}]]
          /\ UNCHANGED answered

Finish(d) == Proceed(d, handlers[d].txs, handlers[d].left)

At(d, step) == handlers[d].step = step
Current(d) == Event(handlers[d].txs[handlers[d].at[1]], handlers[d].at[2])
Goto(d, step) == /\ handlers' = [handlers EXCEPT ![d].step = step]
                 /\ UNCHANGED answered

-----------------------------------------------------------------------------
Init ==
    /\ handlers = [d \in Deliveries |-> Idle]
    /\ sent = 0
    /\ answered = {}
    /\ archive = {}
    /\ rows = <<>>
    /\ marked = {}
    /\ faulty = {}

\* A request with a valid token arrives; the transactions are the sender's
\* choice, ones it has sent before included.
Deliver(d, txs) ==
    /\ At(d, "idle")
    /\ sent < MaxDeliveries
    /\ sent' = sent + 1
    /\ Proceed(d, txs, Batch(txs))
    /\ UNCHANGED <<archive, rows, marked, faulty>>

\* NullifierStore::contains: the cache or RocksDB knows the nullifier.
Skip(d) ==
    /\ At(d, "check")
    /\ Current(d).nullifier \in marked
    /\ Finish(d)
    /\ UNCHANGED <<sent, archive, rows, marked, faulty>>

\* ... or neither does.  The cache holds some of what RocksDB holds and may
\* drop any entry at any time; a read of RocksDB that fails counts as
\* not-found, so a marked nullifier may be missed too.
Absent(d) ==
    /\ At(d, "check")
    /\ Goto(d, "upload")
    /\ UNCHANGED <<sent, archive, rows, marked, faulty>>

\* Mutated form: the nullifier is marked before the row is inserted.
UploadMarksFirst(d) ==
    /\ At(d, "upload")
    /\ archive' = archive \cup {Current(d)}
    /\ marked' = marked \cup {Current(d).nullifier}
    /\ Goto(d, "insert")
    /\ UNCHANGED <<sent, rows, faulty>>

\* irys.upload: up to three attempts, one outcome.
Upload(d) ==
    /\ At(d, "upload")
    /\ archive' = archive \cup {Current(d)}
    /\ Goto(d, "insert")
    /\ UNCHANGED <<sent, rows, marked, faulty>>

\* The upload fails: logged, and on to the next event.
UploadFails(d) ==
    /\ At(d, "upload")
    /\ faulty' = faulty \cup {Current(d).nullifier}
    /\ Finish(d)
    /\ UNCHANGED <<sent, archive, rows, marked>>

\* Mutated form: an insert without the conflict clause.
InsertAlways(d) ==
    /\ At(d, "insert")
    /\ rows' = Append(rows, Current(d))
    /\ Goto(d, "mark")
    /\ UNCHANGED <<sent, archive, marked, faulty>>

\* INSERT ... ON CONFLICT (nullifier_hash) DO NOTHING.
Insert(d) ==
    /\ At(d, "insert")
    /\ rows' = IF \E i \in DOMAIN rows :
                      rows[i].nullifier = Current(d).nullifier
               THEN rows ELSE Append(rows, Current(d))
    /\ Goto(d, "mark")
    /\ UNCHANGED <<sent, archive, marked, faulty>>

\* The insert fails: logged, and the nullifier is marked all the same.
InsertFails(d) ==
    /\ At(d, "insert")
    /\ faulty' = faulty \cup {Current(d).nullifier}
    /\ Goto(d, "mark")
    /\ UNCHANGED <<sent, archive, rows, marked>>

\* NullifierStore::mark_uploaded.
MarkUploaded(d) ==
    /\ At(d, "mark")
    /\ marked' = marked \cup {Current(d).nullifier}
    /\ Finish(d)
    /\ UNCHANGED <<sent, archive, rows, faulty>>

MarkFails(d) ==
    /\ At(d, "mark")
    /\ Finish(d)
    /\ UNCHANGED <<sent, archive, rows, marked, faulty>>

\* The process stops with requests open and starts again: what RocksDB,
\* Postgres and Irys hold stays, the requests were never answered.
Restart ==
    /\ \E d \in Deliveries : ~At(d, "idle")
    /\ handlers' = [d \in Deliveries |-> Idle]
    /\ UNCHANGED <<sent, answered, archive, rows, marked, faulty>>

HandleWebhook(d) ==
    \/ Skip(d)   \/ Absent(d)
    \/ Upload(d) \/ UploadFails(d)
    \/ Insert(d) \/ InsertFails(d)
    \/ MarkUploaded(d) \/ MarkFails(d)

-----------------------------------------------------------------------------
\* The places a request can be at.
Places == UNION {Batch(txs) : txs \in Requests}

Handler == [step : {"idle", "check", "upload", "insert", "mark"},
            txs : Requests \cup {<<>>}, at : Places \cup {<<0, 0>>}, left : SUBSET Places]

IndexerTypeOK ==
    /\ handlers \in [Deliveries -> Handler]
    /\ \A d \in Deliveries :
          \/ handlers[d] = Idle
          \/ /\ handlers[d].step # "idle" /\ handlers[d].txs \in Requests
             /\ handlers[d].left \cup {handlers[d].at} \subseteq Batch(handlers[d].txs)
    /\ sent \in 0..MaxDeliveries
    /\ answered \subseteq DOMAIN Chain
    /\ archive \subseteq AllEvents
    /\ rows \in Seq(AllEvents)
    /\ marked \subseteq Nullifiers
    /\ faulty \subseteq Nullifiers

\* Whether some event with this nullifier has reached Irys; the table.
Archived(n) == \E e \in archive : e.nullifier = n
Stored(n) == \E i \in DOMAIN rows : rows[i].nullifier = n

\* However many deliveries of one event overlap, the table holds its
\* nullifier once, and the audit() of its transaction by the SDK reports
\* the same event (the first of the transaction, where it has several).
OneRowPerNullifier ==
    /\ \A i, j \in DOMAIN rows : rows[i].nullifier = rows[j].nullifier => i = j
    /\ \A i \in DOMAIN rows :
          LET t == rows[i].tx
          IN  Cardinality(EventsOf(t)) = 1 => Audit(t) = {rows[i]}

\* A delivery answered 200 leaves every event of its readable transactions
\* archived and in the table, unless an upload or an insert failed: overlap,
\* redelivery, a failed dedup read or write and a restart lose nothing by themselves.
LostOnlyByFault ==
    \A t \in answered : \A j \in ExtractProofSettled(t) :
        LET n == Event(t, j).nullifier
        IN  n \in faulty \/ (Archived(n) /\ Stored(n))
=============================================================================

------------------------- MODULE AuditTrailProofs -------------------------
(***************************************************************************)
(* Proofs about the indexer and the audit log that is read from its table, *)
(* for every chain, every set of requests, any number of deliveries open   *)
(* at once and any length of a page.                                       *)
(***************************************************************************)
EXTENDS AuditTrail, FiniteSetTheorems, WellFoundedInduction, TLAPS

-----------------------------------------------------------------------------
(* Types of the indexer.                                                   *)

\* The events of a request are events of the chain.
LEMMA EventTypes ==
    ASSUME NEW txs \in Requests, NEW p \in Batch(txs)
    PROVE  /\ p[1] \in DOMAIN txs
           /\ txs[p[1]] \in DOMAIN Chain
           /\ p[2] \in ExtractProofSettled(txs[p[1]])
           /\ Event(txs[p[1]], p[2]) \in EventsOf(txs[p[1]])
           /\ Event(txs[p[1]], p[2]) \in AllEvents
           /\ Event(txs[p[1]], p[2]).nullifier \in Nullifiers
  <1>1. p[1] \in DOMAIN txs /\ p[2] \in ExtractProofSettled(txs[p[1]])
    BY DEF Batch
  <1>2. txs[p[1]] \in DOMAIN Chain
    BY <1>1, IndexerAssumption
  <1>3. Event(txs[p[1]], p[2]) \in EventsOf(txs[p[1]])
    BY <1>1 DEF ExtractProofSettled, EventsOf
  <1>4. Event(txs[p[1]], p[2]) \in AllEvents
    BY <1>2, <1>3 DEF AllEvents
  <1>5. QED
    BY <1>1, <1>2, <1>3, <1>4 DEF Nullifiers

LEMMA BatchPlaces ==
    ASSUME NEW txs \in Requests
    PROVE  Batch(txs) \subseteq Places
  BY DEF Places

\* A request that is open is at an event of one of its transactions.
LEMMA CurrentType ==
    ASSUME IndexerTypeOK, NEW d \in Deliveries, ~At(d, "idle")
    PROVE  /\ handlers[d].txs \in Requests
           /\ handlers[d].at \in Batch(handlers[d].txs)
           /\ handlers[d].left \subseteq Batch(handlers[d].txs)
           /\ Current(d) \in AllEvents
           /\ Current(d).nullifier \in Nullifiers
  <1>1. /\ handlers[d].txs \in Requests
        /\ handlers[d].at \in Batch(handlers[d].txs)
        /\ handlers[d].left \subseteq Batch(handlers[d].txs)
    <2>1. handlers[d] # Idle
      BY DEF At, Idle
    <2>2. QED
      BY <2>1 DEF IndexerTypeOK
  <1>2. QED
    BY <1>1, EventTypes DEF Current

\* Going to the next event, or answering, keeps the handlers' types.
LEMMA ProceedTypes ==
    ASSUME IndexerTypeOK, NEW d \in Deliveries, NEW txs \in Requests,
           NEW left \in SUBSET Batch(txs), Proceed(d, txs, left)
    PROVE  /\ handlers' \in [Deliveries -> Handler]
           /\ \A c \in Deliveries :
                 \/ handlers'[c] = Idle
                 \/ /\ handlers'[c].step # "idle" /\ handlers'[c].txs \in Requests
                    /\ handlers'[c].left \cup {handlers'[c].at}
                            \subseteq Batch(handlers'[c].txs)
           /\ answered' \subseteq DOMAIN Chain
  <1>1. handlers \in [Deliveries -> Handler] /\ answered \subseteq DOMAIN Chain
    BY DEF IndexerTypeOK
  <1>2. CASE left = {} /\ handlers' = [handlers EXCEPT ![d] = Idle]
             /\ answered' = answered \cup ToSet(txs)
    <2>1. Idle \in Handler
      BY DEF Idle, Handler
    <2>2. ToSet(txs) \subseteq DOMAIN Chain
      BY IndexerAssumption DEF ToSet
    <2>3. QED
      BY <1>1, <1>2, <2>1, <2>2 DEF IndexerTypeOK
  <1>3. ASSUME NEW p \in left, UNCHANGED answered,
               handlers' = [handlers EXCEPT ![d] =
                  [step |-> "check", txs |-> txs, at |-> p, left |-> left \ {p}]]
        PROVE  /\ handlers' \in [Deliveries -> Handler]
               /\ \A c \in Deliveries :
                     \/ handlers'[c] = Idle
                     \/ /\ handlers'[c].step # "idle" /\ handlers'[c].txs \in Requests
                        /\ handlers'[c].left \cup {handlers'[c].at}
                                \subseteq Batch(handlers'[c].txs)
    <2> DEFINE h == [step |-> "check", txs |-> txs, at |-> p, left |-> left \ {p}]
    <2>1. h \in Handler
      BY BatchPlaces DEF Handler
    <2>2. h.step # "idle" /\ h.txs \in Requests /\ h.left \cup {h.at} \subseteq Batch(h.txs)
      OBVIOUS
    <2>3. handlers' = [handlers EXCEPT ![d] = h]
      BY <1>3
    <2> HIDE DEF h
    <2>4. QED
      BY <1>1, <2>1, <2>2, <2>3 DEF IndexerTypeOK
  <1>4. QED
    BY <1>1, <1>2, <1>3 DEF Proceed

\* So does a step from one call to the next.
LEMMA GotoTypes ==
    ASSUME IndexerTypeOK, NEW d \in Deliveries, ~At(d, "idle"),
           NEW step \in {"upload", "insert", "mark"}, Goto(d, step)
    PROVE  /\ handlers' \in [Deliveries -> Handler]
           /\ \A c \in Deliveries :
                 \/ handlers'[c] = Idle
                 \/ /\ handlers'[c].step # "idle" /\ handlers'[c].txs \in Requests
                    /\ handlers'[c].left \cup {handlers'[c].at}
                            \subseteq Batch(handlers'[c].txs)
           /\ answered' \subseteq DOMAIN Chain
  <1>1. handlers \in [Deliveries -> Handler] /\ answered' = answered
    BY DEF IndexerTypeOK, Goto
  <1>2. handlers' = [handlers EXCEPT ![d] = [handlers[d] EXCEPT !.step = step]]
    BY DEF Goto
  <1>3. /\ [handlers[d] EXCEPT !.step = step] \in Handler
        /\ [handlers[d] EXCEPT !.step = step].step = step
        /\ [handlers[d] EXCEPT !.step = step].txs = handlers[d].txs
        /\ [handlers[d] EXCEPT !.step = step].at = handlers[d].at
        /\ [handlers[d] EXCEPT !.step = step].left = handlers[d].left
    BY <1>1 DEF Handler
  <1>4. QED
    BY <1>1, <1>2, <1>3, CurrentType DEF IndexerTypeOK

\* The steps of one request.
LEMMA HandleTypes ==
    ASSUME IndexerTypeOK, NEW d \in Deliveries, HandleWebhook(d)
    PROVE  IndexerTypeOK'
  <1>1. ~At(d, "idle") /\ sent' = sent
    BY DEF HandleWebhook, Skip, Absent, Upload, UploadFails, Insert, InsertFails,
        MarkUploaded, MarkFails, At
  <1>2. /\ handlers[d].txs \in Requests
        /\ handlers[d].left \in SUBSET Batch(handlers[d].txs)
        /\ Current(d) \in AllEvents
        /\ Current(d).nullifier \in Nullifiers
    BY <1>1, CurrentType
  <1>3. Finish(d) \/ \E step \in {"upload", "insert", "mark"} : Goto(d, step)
    BY DEF HandleWebhook, Skip, Absent, Upload, UploadFails, Insert, InsertFails,
        MarkUploaded, MarkFails
  <1>4. /\ handlers' \in [Deliveries -> Handler]
        /\ \A c \in Deliveries :
              \/ handlers'[c] = Idle
              \/ /\ handlers'[c].step # "idle" /\ handlers'[c].txs \in Requests
                 /\ handlers'[c].left \cup {handlers'[c].at}
                         \subseteq Batch(handlers'[c].txs)
        /\ answered' \subseteq DOMAIN Chain
    BY <1>1, <1>2, <1>3, ProceedTypes, GotoTypes DEF Finish
  <1>5. archive' \subseteq AllEvents /\ marked' \subseteq Nullifiers /\ faulty' \subseteq Nullifiers
    BY <1>2 DEF HandleWebhook, Skip, Absent, Upload, UploadFails, Insert, InsertFails,
        MarkUploaded, MarkFails, IndexerTypeOK
  <1>6. rows' \in Seq(AllEvents)
    <2>1. rows \in Seq(AllEvents)
      BY DEF IndexerTypeOK
    <2>2. rows' = rows \/ rows' = Append(rows, Current(d))
      BY DEF HandleWebhook, Skip, Absent, Upload, UploadFails, Insert, InsertFails,
          MarkUploaded, MarkFails
    <2>3. QED
      BY <1>2, <2>1, <2>2
  <1>7. sent' \in 0 .. MaxDeliveries
    BY <1>1 DEF IndexerTypeOK
  <1>8. QED
    BY <1>4, <1>5, <1>6, <1>7 DEF IndexerTypeOK

\* A request arrives; the process restarts.
LEMMA ArrivalTypes ==
    ASSUME IndexerTypeOK,
           \/ \E d \in Deliveries, txs \in Requests : Deliver(d, txs)
           \/ Restart
    PROVE  IndexerTypeOK'
  <1>1. UNCHANGED <<archive, rows, marked, faulty>>
    BY DEF Deliver, Restart
  <1>2. sent' \in 0 .. MaxDeliveries
    BY IndexerAssumption DEF Deliver, Restart, IndexerTypeOK
  <1>3. /\ handlers' \in [Deliveries -> Handler]
        /\ \A c \in Deliveries :
              \/ handlers'[c] = Idle
              \/ /\ handlers'[c].step # "idle" /\ handlers'[c].txs \in Requests
                 /\ handlers'[c].left \cup {handlers'[c].at}
                         \subseteq Batch(handlers'[c].txs)
        /\ answered' \subseteq DOMAIN Chain
    <2>1. ASSUME NEW d \in Deliveries, NEW txs \in Requests, Deliver(d, txs)
          PROVE  Proceed(d, txs, Batch(txs))
      BY <2>1 DEF Deliver
    <2>2. CASE Restart
      <3>1. Idle \in Handler
        BY DEF Idle, Handler
      <3>2. QED
        BY <2>2, <3>1 DEF Restart, IndexerTypeOK
    <2>3. QED
      BY <2>1, <2>2, ProceedTypes
  <1>4. QED
    BY <1>1, <1>2, <1>3 DEF IndexerTypeOK

\* The indexer's state is typed: its requests are at events of transactions they
\* were sent, and its stores hold events of the chain, whatever fails.
THEOREM IndexerTypeCorrect == Spec => []IndexerTypeOK
  <1>1. AuditInit => IndexerTypeOK
    <2> SUFFICES ASSUME AuditInit PROVE IndexerTypeOK
      OBVIOUS
    <2>1. Idle \in Handler
      BY DEF Idle, Handler
    <2>2. QED
      BY <2>1, IndexerAssumption DEF AuditInit, Init, IndexerTypeOK
  <1>2. IndexerTypeOK /\ [Next]_vars => IndexerTypeOK'
    <2> SUFFICES ASSUME IndexerTypeOK, [Next]_vars PROVE IndexerTypeOK'
      OBVIOUS
    <2>1. CASE UNCHANGED indexerVars
      BY <2>1 DEF indexerVars, IndexerTypeOK
    <2>2. CASE IndexerNext
      BY <2>2, HandleTypes, ArrivalTypes DEF IndexerNext
    <2>3. CASE TableNext
      BY <2>1, <2>3 DEF TableNext, PageArrives, PageFails, SetRange, CommitFilters,
          ClearFilters, Refresh, LoadMore
    <2>4. QED
      BY <2>1, <2>2, <2>3 DEF Next, vars
  <1>3. QED
    BY <1>1, <1>2, PTL DEF Spec

-----------------------------------------------------------------------------
(* Nothing is lost but by a fault.                                         *)

\* The event with nullifier n is where it should be, by the archive a and the
\* table r, or one of its own steps failed.
ArchivedIn(n, a) == \E e \in a : e.nullifier = n
SafeIn(n, f, a, r) ==
    n \in f \/ (ArchivedIn(n, a) /\ \E i \in DOMAIN r : r[i].nullifier = n)

\* What a request has done: the events it has passed are safe, the one it is at
\* is archived before the insert and safe before it is marked.
PassedIn(h, f, a, r) ==
    /\ \A p \in Batch(h.txs) :
          \/ p \in h.left \/ p = h.at
          \/ SafeIn(Event(h.txs[p[1]], p[2]).nullifier, f, a, r)
    /\ h.step = "insert" => ArchivedIn(Event(h.txs[h.at[1]], h.at[2]).nullifier, a)
    /\ h.step = "mark" => SafeIn(Event(h.txs[h.at[1]], h.at[2]).nullifier, f, a, r)

MarkedIsSafe == \A n \in marked : SafeIn(n, faulty, archive, rows)

PassedIsSafe ==
    \A d \in Deliveries :
        handlers[d].step # "idle" => PassedIn(handlers[d], faulty, archive, rows)

AnsweredIsSafe ==
    \A t \in answered : \A j \in ExtractProofSettled(t) :
        SafeIn(Event(t, j).nullifier, faulty, archive, rows)

LossInv == MarkedIsSafe /\ PassedIsSafe /\ AnsweredIsSafe

\* The stores only grow.
Grows ==
    /\ archive \subseteq archive' /\ faulty \subseteq faulty'
    /\ rows' = rows \/ \E e : rows' = Append(rows, e)

LEMMA SafeStays ==
    ASSUME IndexerTypeOK, Grows
    PROVE  /\ \A n : ArchivedIn(n, archive) => ArchivedIn(n, archive')
           /\ \A n : SafeIn(n, faulty, archive, rows) => SafeIn(n, faulty', archive', rows')
           /\ \A h : PassedIn(h, faulty, archive, rows) => PassedIn(h, faulty', archive', rows')
  <1>1. \A n : ArchivedIn(n, archive) => ArchivedIn(n, archive')
    BY DEF Grows, ArchivedIn
  <1>2. \A i \in DOMAIN rows : i \in DOMAIN rows' /\ rows'[i] = rows[i]
    <2>1. rows \in Seq(AllEvents)
      BY DEF IndexerTypeOK
    <2>2. QED
      BY <2>1 DEF Grows
  <1>3. \A n : SafeIn(n, faulty, archive, rows) => SafeIn(n, faulty', archive', rows')
    <2> SUFFICES ASSUME NEW n, SafeIn(n, faulty, archive, rows)
                 PROVE  SafeIn(n, faulty', archive', rows')
      OBVIOUS
    <2>1. CASE n \in faulty
      BY <2>1 DEF Grows, SafeIn
    <2>2. CASE n \notin faulty
      BY <1>1, <1>2, <2>2 DEF SafeIn
    <2>3. QED
      BY <2>1, <2>2
  <1>4. \A h : PassedIn(h, faulty, archive, rows) => PassedIn(h, faulty', archive', rows')
    BY <1>1, <1>3 DEF PassedIn
  <1>5. QED
    BY <1>1, <1>3, <1>4

\* The request goes on after its event became safe: what it passed is safe, and
\* so is all of it when it is answered.
LEMMA ProceedSafe ==
    ASSUME IndexerTypeOK, LossInv, Grows, MarkedIsSafe',
           NEW d \in Deliveries, NEW txs \in Requests, NEW left \in SUBSET Batch(txs),
           \A p \in Batch(txs) \ left :
               SafeIn(Event(txs[p[1]], p[2]).nullifier, faulty', archive', rows'),
           Proceed(d, txs, left)
    PROVE  LossInv'
  <1>1. handlers \in [Deliveries -> Handler]
    BY DEF IndexerTypeOK
  <1>2. \A c \in Deliveries \ {d} : handlers'[c] = handlers[c]
    BY <1>1 DEF Proceed
  <1>3. \A c \in Deliveries \ {d} :
           handlers'[c].step # "idle" => PassedIn(handlers'[c], faulty', archive', rows')
    BY <1>2, SafeStays DEF LossInv, PassedIsSafe
  <1>4. \A t \in answered : \A j \in ExtractProofSettled(t) :
           SafeIn(Event(t, j).nullifier, faulty', archive', rows')
    BY SafeStays DEF LossInv, AnsweredIsSafe
  <1>5. CASE left = {} /\ handlers' = [handlers EXCEPT ![d] = Idle]
             /\ answered' = answered \cup ToSet(txs)
    <2>1. handlers'[d].step = "idle"
      BY <1>1, <1>5 DEF Idle
    <2>2. PassedIsSafe'
      BY <1>3, <2>1 DEF PassedIsSafe
    <2>3. ASSUME NEW t \in ToSet(txs), NEW j \in ExtractProofSettled(t)
          PROVE  SafeIn(Event(t, j).nullifier, faulty', archive', rows')
      <3>1. PICK k \in DOMAIN txs : txs[k] = t
        BY <2>3 DEF ToSet
      <3>2. <<k, j>> \in Batch(txs)
        BY <2>3, <3>1 DEF Batch
      <3>3. QED
        BY <1>5, <3>1, <3>2
    <2>4. AnsweredIsSafe'
      BY <1>4, <1>5, <2>3 DEF AnsweredIsSafe
    <2>5. QED
      BY <2>2, <2>4 DEF LossInv
  <1>6. ASSUME NEW p \in left, UNCHANGED answered,
               handlers' = [handlers EXCEPT ![d] =
                  [step |-> "check", txs |-> txs, at |-> p, left |-> left \ {p}]]
        PROVE  LossInv'
    <2> DEFINE h == [step |-> "check", txs |-> txs, at |-> p, left |-> left \ {p}]
    <2>1. handlers'[d] = h
      BY <1>1, <1>6
    <2>2. h.step = "check" /\ h.txs = txs /\ h.at = p /\ h.left = left \ {p}
      OBVIOUS
    <2> HIDE DEF h
    <2>3. PassedIn(h, faulty', archive', rows')
      BY <2>2 DEF PassedIn
    <2>4. PassedIsSafe'
      BY <1>3, <2>1, <2>3 DEF PassedIsSafe
    <2>5. AnsweredIsSafe'
      BY <1>4, <1>6 DEF AnsweredIsSafe
    <2>6. QED
      BY <2>4, <2>5 DEF LossInv
  <1>7. QED
    BY <1>5, <1>6 DEF Proceed

\* The request goes from one call to the next.
LEMMA GotoSafe ==
    ASSUME IndexerTypeOK, LossInv, Grows, MarkedIsSafe',
           NEW d \in Deliveries, ~At(d, "idle"),
           NEW step \in {"upload", "insert", "mark"}, Goto(d, step),
           step = "insert" => ArchivedIn(Current(d).nullifier, archive'),
           step = "mark" => SafeIn(Current(d).nullifier, faulty', archive', rows')
    PROVE  LossInv'
  <1>1. handlers \in [Deliveries -> Handler] /\ answered' = answered
    BY DEF IndexerTypeOK, Goto
  <1>2. handlers' = [handlers EXCEPT ![d] = [handlers[d] EXCEPT !.step = step]]
    BY DEF Goto
  <1>3. /\ handlers'[d].step = step
        /\ handlers'[d].txs = handlers[d].txs
        /\ handlers'[d].at = handlers[d].at
        /\ handlers'[d].left = handlers[d].left
        /\ \A c \in Deliveries \ {d} : handlers'[c] = handlers[c]
    BY <1>1, <1>2 DEF Handler
  <1>4. PassedIn(handlers[d], faulty', archive', rows')
    BY SafeStays DEF LossInv, PassedIsSafe, At
  <1>5. PassedIn(handlers'[d], faulty', archive', rows')
    BY <1>3, <1>4 DEF PassedIn, Current
  <1>6. PassedIsSafe'
    BY <1>3, <1>5, SafeStays DEF LossInv, PassedIsSafe
  <1>7. AnsweredIsSafe'
    BY <1>1, SafeStays DEF LossInv, AnsweredIsSafe
  <1>8. QED
    BY <1>6, <1>7 DEF LossInv

\* A request whose current event is safe may go on.
LEMMA FinishSafe ==
    ASSUME IndexerTypeOK, LossInv, Grows, MarkedIsSafe',
           NEW d \in Deliveries, ~At(d, "idle"), Finish(d),
           SafeIn(Current(d).nullifier, faulty', archive', rows')
    PROVE  LossInv'
  <1>1. /\ handlers[d].txs \in Requests
        /\ handlers[d].left \in SUBSET Batch(handlers[d].txs)
    BY CurrentType
  <1>2. PassedIn(handlers[d], faulty', archive', rows')
    BY SafeStays DEF LossInv, PassedIsSafe, At
  <1>3. \A p \in Batch(handlers[d].txs) \ handlers[d].left :
           SafeIn(Event(handlers[d].txs[p[1]], p[2]).nullifier, faulty', archive', rows')
    BY <1>2 DEF PassedIn, Current
  <1>4. QED
    BY <1>1, <1>3, ProceedSafe DEF Finish

\* What the steps of a request that only read, or only add, leave as it was.
LEMMA MarkedStays ==
    ASSUME IndexerTypeOK, LossInv, Grows, marked' = marked
    PROVE  MarkedIsSafe'
  BY SafeStays DEF LossInv, MarkedIsSafe

LEMMA HandleSafe ==
    ASSUME IndexerTypeOK, LossInv, NEW d \in Deliveries, HandleWebhook(d)
    PROVE  LossInv'
  <1>1. ~At(d, "idle")
    BY DEF HandleWebhook, Skip, Absent, Upload, UploadFails, Insert, InsertFails,
        MarkUploaded, MarkFails, At
  <1>2. Grows
    BY DEF HandleWebhook, Skip, Absent, Upload, UploadFails, Insert, InsertFails,
        MarkUploaded, MarkFails, Grows
  <1>3. PassedIn(handlers[d], faulty', archive', rows')
    BY <1>1, <1>2, SafeStays DEF LossInv, PassedIsSafe, At
  <1>4. CASE Skip(d)
    <2>1. SafeIn(Current(d).nullifier, faulty', archive', rows')
      BY <1>2, <1>4, SafeStays DEF Skip, LossInv, MarkedIsSafe
    <2>2. Finish(d) /\ marked' = marked
      BY <1>4 DEF Skip
    <2>3. QED
      BY <1>1, <1>2, <2>1, <2>2, MarkedStays, FinishSafe
  <1>5. CASE Absent(d)
    <2>1. Goto(d, "upload") /\ marked' = marked
      BY <1>5 DEF Absent
    <2>2. QED
      BY <1>1, <1>2, <2>1, MarkedStays, GotoSafe
  <1>6. CASE Upload(d)
    <2>1. Goto(d, "insert") /\ marked' = marked
      BY <1>6 DEF Upload
    <2>2. ArchivedIn(Current(d).nullifier, archive')
      BY <1>6 DEF Upload, ArchivedIn
    <2>3. QED
      BY <1>1, <1>2, <2>1, <2>2, MarkedStays, GotoSafe
  <1>7. CASE UploadFails(d)
    <2>1. Finish(d) /\ marked' = marked
      BY <1>7 DEF UploadFails
    <2>2. SafeIn(Current(d).nullifier, faulty', archive', rows')
      BY <1>7 DEF UploadFails, SafeIn
    <2>3. QED
      BY <1>1, <1>2, <2>1, <2>2, MarkedStays, FinishSafe
  <1>8. CASE Insert(d)
    <2>1. Goto(d, "mark") /\ marked' = marked
      BY <1>8 DEF Insert
    <2>2. ArchivedIn(Current(d).nullifier, archive')
      BY <1>3, <1>8 DEF Insert, At, PassedIn, Current
    <2>3. \E i \in DOMAIN rows' : rows'[i].nullifier = Current(d).nullifier
      <3>1. rows \in Seq(AllEvents) /\ Current(d) \in AllEvents
        BY <1>1, CurrentType DEF IndexerTypeOK
      <3>2. Append(rows, Current(d))[Len(rows) + 1] = Current(d)
            /\ Len(rows) + 1 \in DOMAIN Append(rows, Current(d))
        BY <3>1
      <3>3. QED
        BY <1>8, <3>2 DEF Insert
    <2>4. SafeIn(Current(d).nullifier, faulty', archive', rows')
      BY <2>2, <2>3 DEF SafeIn
    <2>5. QED
      BY <1>1, <1>2, <2>1, <2>4, MarkedStays, GotoSafe
  <1>9. CASE InsertFails(d)
    <2>1. Goto(d, "mark") /\ marked' = marked
      BY <1>9 DEF InsertFails
    <2>2. SafeIn(Current(d).nullifier, faulty', archive', rows')
      BY <1>9 DEF InsertFails, SafeIn
    <2>3. QED
      BY <1>1, <1>2, <2>1, <2>2, MarkedStays, GotoSafe
  <1>10. CASE MarkUploaded(d) \/ MarkFails(d)
    <2>1. Finish(d)
      BY <1>10 DEF MarkUploaded, MarkFails
    <2>2. SafeIn(Current(d).nullifier, faulty', archive', rows')
      BY <1>3, <1>10 DEF MarkUploaded, MarkFails, At, PassedIn, Current
    <2>3. MarkedIsSafe'
      <3>1. \A n \in marked' : n \in marked \/ n = Current(d).nullifier
        BY <1>10 DEF MarkUploaded, MarkFails
      <3>2. QED
        BY <1>2, <2>2, <3>1, SafeStays DEF LossInv, MarkedIsSafe
    <2>4. QED
      BY <1>1, <1>2, <2>1, <2>2, <2>3, FinishSafe
  <1>11. QED
    BY <1>4, <1>5, <1>6, <1>7, <1>8, <1>9, <1>10 DEF HandleWebhook

LEMMA NextSafe ==
    ASSUME IndexerTypeOK, LossInv, [Next]_vars
    PROVE  LossInv'
  <1>1. CASE UNCHANGED indexerVars
    BY <1>1 DEF indexerVars, LossInv, MarkedIsSafe, PassedIsSafe, AnsweredIsSafe
  <1>2. ASSUME NEW d \in Deliveries, NEW txs \in Requests, Deliver(d, txs)
        PROVE  LossInv'
    <2>1. Proceed(d, txs, Batch(txs)) /\ UNCHANGED <<archive, rows, marked, faulty>>
      BY <1>2 DEF Deliver
    <2>2. Grows /\ MarkedIsSafe'
      BY <2>1 DEF Grows, LossInv, MarkedIsSafe
    <2>3. QED
      BY <2>1, <2>2, ProceedSafe
  <1>3. CASE Restart
    <2>1. \A d \in Deliveries : handlers'[d].step = "idle"
      BY <1>3 DEF Restart, Idle
    <2>2. QED
      BY <1>3, <2>1 DEF Restart, LossInv, MarkedIsSafe, PassedIsSafe, AnsweredIsSafe
  <1>4. CASE IndexerNext
    BY <1>2, <1>3, <1>4, HandleSafe DEF IndexerNext
  <1>5. CASE TableNext
    BY <1>1, <1>5 DEF TableNext, PageArrives, PageFails, SetRange, CommitFilters,
        ClearFilters, Refresh, LoadMore
  <1>6. QED
    BY <1>1, <1>4, <1>5 DEF Next, vars

\* A delivery that was answered 200 left every event of its readable transactions
\* at Irys and in the table, unless an upload or an insert of that very nullifier
\* failed: not one is lost to overlap, redelivery, a failed dedup read or write,
\* or a restart between two steps.
THEOREM NothingLost == Spec => []LostOnlyByFault
  <1>1. AuditInit => LossInv
    BY DEF AuditInit, Init, Idle, LossInv, MarkedIsSafe, PassedIsSafe, AnsweredIsSafe
  <1>2. LossInv => LostOnlyByFault
    BY DEF LossInv, AnsweredIsSafe, SafeIn, ArchivedIn, LostOnlyByFault, Archived, Stored
  <1>3. IndexerTypeOK /\ LossInv /\ [Next]_vars => LossInv'
    BY NextSafe
  <1>4. QED
    BY <1>1, <1>2, <1>3, IndexerTypeCorrect, PTL DEF Spec

-----------------------------------------------------------------------------
(* One row for each nullifier.                                             *)

\* The order of the naturals, and the least element it gives a set of them.
Below == {p \in Nat \X Nat : p[1] < p[2]}

LEMMA LeastExists ==
    ASSUME NEW S \in SUBSET Nat, S # {}
    PROVE  \E x \in S : \A y \in S : x <= y
  <1>1. IsWellFoundedOn(Below, Nat)
    BY NatLessThanWellFounded DEF OpToRel, Below
  <1>2. PICK x \in S : \A y \in S : ~(<<y, x>> \in Below)
    BY <1>1, WFMin
  <1>3. \A y \in S : ~(y < x)
    BY <1>2 DEF Below
  <1>4. QED
    BY <1>3

\* A transaction with one event: audit() reports it.
LEMMA AuditOfOne ==
    ASSUME NEW t \in DOMAIN Chain, NEW e \in EventsOf(t), Cardinality(EventsOf(t)) = 1
    PROVE  Audit(t) = {e}
  <1>1. EventLines(t) \in SUBSET Nat /\ IsFiniteSet(EventLines(t))
    <2>1. EventLines(t) \subseteq 1 .. Len(Chain[t].lines) /\ Len(Chain[t].lines) \in Nat
      BY IndexerAssumption DEF EventLines
    <2>2. IsFiniteSet(1 .. Len(Chain[t].lines))
      BY <2>1, FS_Interval
    <2>3. QED
      BY <2>1, <2>2, FS_Subset
  <1>2. IsFiniteSet(EventsOf(t))
    <2> DEFINE event == [j \in EventLines(t) |-> Event(t, j)]
    <2>1. event \in Surjection(EventLines(t), EventsOf(t))
      BY DEF EventsOf, Surjection
    <2>2. QED
      BY <1>1, <2>1, FS_Surjection
  <1>3. \A f \in EventsOf(t) : f = e
    BY <1>2, FS_Singleton
  <1>4. PICK j \in EventLines(t) : \A k \in EventLines(t) : j <= k
    <2>1. EventLines(t) # {}
      BY DEF EventsOf
    <2>2. QED
      BY <1>1, <2>1, LeastExists
  <1>5. Event(t, j) \in Audit(t)
    BY <1>4 DEF Audit
  <1>6. Audit(t) \subseteq EventsOf(t)
    BY DEF Audit, EventsOf
  <1>7. QED
    BY <1>3, <1>5, <1>6

\* A row is an event of the transaction it names.
LEMMA RowsAreEvents ==
    ASSUME IndexerTypeOK, NEW i \in DOMAIN rows
    PROVE  rows[i].tx \in DOMAIN Chain /\ rows[i] \in EventsOf(rows[i].tx)
  <1>1. rows[i] \in AllEvents
    BY DEF IndexerTypeOK
  <1>2. PICK t \in DOMAIN Chain : rows[i] \in EventsOf(t)
    BY <1>1 DEF AllEvents
  <1>3. rows[i].tx = t
    BY <1>2 DEF EventsOf, Event
  <1>4. QED
    BY <1>2, <1>3

OneRow == \A i, j \in DOMAIN rows : rows[i].nullifier = rows[j].nullifier => i = j

LEMMA NextOneRow ==
    ASSUME IndexerTypeOK, OneRow, [Next]_vars
    PROVE  OneRow'
  <1>1. CASE rows' = rows
    BY <1>1 DEF OneRow
  <1>2. ASSUME NEW d \in Deliveries, Insert(d)
        PROVE  OneRow'
    <2>1. CASE \E i \in DOMAIN rows : rows[i].nullifier = Current(d).nullifier
      BY <1>1, <1>2, <2>1 DEF Insert
    <2>2. CASE ~ \E i \in DOMAIN rows : rows[i].nullifier = Current(d).nullifier
      <3>1. rows' = Append(rows, Current(d))
        BY <1>2, <2>2 DEF Insert
      <3>2. rows \in Seq(AllEvents) /\ Current(d) \in AllEvents
        BY <1>2, CurrentType DEF IndexerTypeOK, Insert, At
      <3>3. /\ DOMAIN rows' = DOMAIN rows \cup {Len(rows) + 1}
            /\ \A i \in DOMAIN rows : rows'[i] = rows[i]
            /\ rows'[Len(rows) + 1] = Current(d)
        BY <3>1, <3>2
      <3>4. QED
        BY <2>2, <3>3 DEF OneRow
    <2>3. QED
      BY <2>1, <2>2
  <1>3. CASE IndexerNext
    BY <1>1, <1>2, <1>3 DEF IndexerNext, HandleWebhook, Skip, Absent, Upload, UploadFails,
        InsertFails, MarkUploaded, MarkFails, Deliver, Restart
  <1>4. CASE TableNext \/ UNCHANGED vars
    BY <1>1, <1>4 DEF TableNext, PageArrives, PageFails, SetRange, CommitFilters,
        ClearFilters, Refresh, LoadMore, vars, indexerVars
  <1>5. QED
    BY <1>3, <1>4 DEF Next

\* However many deliveries of an event overlap between the dedup check and the
\* insert, the table holds its nullifier once, and as the SDK's audit() of its
\* transaction reports it.
THEOREM RowsUnique == Spec => []OneRowPerNullifier
  <1>1. AuditInit => OneRow
    BY DEF AuditInit, Init, OneRow
  <1>2. IndexerTypeOK /\ OneRow /\ [Next]_vars => OneRow'
    BY NextOneRow
  <1>3. IndexerTypeOK /\ OneRow => OneRowPerNullifier
    BY RowsAreEvents, AuditOfOne DEF OneRow, OneRowPerNullifier
  <1>4. QED
    BY <1>1, <1>2, <1>3, IndexerTypeCorrect, PTL DEF Spec

-----------------------------------------------------------------------------
(* A page of the table.                                                    *)

\* Places, rows and filters as functions of a table r.
PlaceIn(r, i) == <<Chain[r[i].tx].slot, i>>

Matches(r, f, i) ==
    /\ f.fromTs # None => Chain[r[i].tx].time >= f.fromTs
    /\ f.issuer # None => Base58(r[i].issuer) = f.issuer

Matching(r, f) == {i \in DOMAIN r : Matches(r, f, i)}

PlacesOfTable == Nat \X Nat
Cursor == PlacesOfTable \cup {None}

LEMMA BeforeIsStrictOrder ==
    /\ \A p, q, s \in PlacesOfTable : Before(p, q) /\ Before(q, s) => Before(p, s)
    /\ \A p, q \in PlacesOfTable : ~(Before(p, q) /\ Before(q, p))
    /\ \A p, q \in PlacesOfTable : Before(p, q) \/ Before(q, p) \/ p = q
  <1>1. \A p \in PlacesOfTable : p = <<p[1], p[2]>> /\ p[1] \in Nat /\ p[2] \in Nat
    BY DEF PlacesOfTable
  <1>2. \A p, q, s \in PlacesOfTable : Before(p, q) /\ Before(q, s) => Before(p, s)
    BY <1>1 DEF Before
  <1>3. \A p, q \in PlacesOfTable : ~(Before(p, q) /\ Before(q, p))
    BY <1>1 DEF Before
  <1>4. \A p, q \in PlacesOfTable : Before(p, q) \/ Before(q, p) \/ p = q
    <2> SUFFICES ASSUME NEW p \in PlacesOfTable, NEW q \in PlacesOfTable,
                        ~Before(p, q), ~Before(q, p)
                 PROVE  p = q
      OBVIOUS
    <2>1. p[1] = q[1] /\ p[2] = q[2]
      BY <1>1 DEF Before
    <2>2. QED
      BY <1>1, <2>1
  <1>5. QED
    BY <1>2, <1>3, <1>4

\* Rows have places, and different rows different ones.
LEMMA RowPlaces ==
    ASSUME IndexerTypeOK
    PROVE  /\ DOMAIN rows \subseteq Nat /\ IsFiniteSet(DOMAIN rows)
           /\ \A i \in DOMAIN rows : Place(i) \in PlacesOfTable /\ Place(i) = PlaceIn(rows, i)
           /\ \A i, j \in DOMAIN rows : Place(i) = Place(j) => i = j
  <1>1. Len(rows) \in Nat /\ DOMAIN rows = 1 .. Len(rows)
    BY DEF IndexerTypeOK
  <1>2. IsFiniteSet(DOMAIN rows)
    BY <1>1, FS_Interval
  <1>3. \A i \in DOMAIN rows : Place(i) = PlaceIn(rows, i)
    BY DEF Place, PlaceIn, Slot
  <1>4. \A i \in DOMAIN rows : Place(i) \in PlacesOfTable
    BY <1>1, RowsAreEvents, IndexerAssumption DEF Place, Slot, PlacesOfTable
  <1>5. \A i, j \in DOMAIN rows : Place(i) = Place(j) => i = j
    BY DEF Place
  <1>6. QED
    BY <1>1, <1>2, <1>3, <1>4, <1>5

\* The rows ahead of one of two rows: the further down, the more.
LEMMA AheadOrder ==
    ASSUME IndexerTypeOK, NEW S \in SUBSET DOMAIN rows
    PROVE  /\ \A i \in S : IsFiniteSet(Ahead(i, S)) /\ Cardinality(Ahead(i, S)) \in Nat
           /\ \A i, j \in S : Before(Place(i), Place(j))
                 => Cardinality(Ahead(i, S)) < Cardinality(Ahead(j, S))
           /\ \A i, j \in S : Cardinality(Ahead(i, S)) < Cardinality(Ahead(j, S))
                 => Before(Place(i), Place(j))
  <1>1. \A i \in S : IsFiniteSet(Ahead(i, S)) /\ Cardinality(Ahead(i, S)) \in Nat
    <2> SUFFICES ASSUME NEW i \in S
                 PROVE  IsFiniteSet(Ahead(i, S)) /\ Cardinality(Ahead(i, S)) \in Nat
      OBVIOUS
    <2>1. Ahead(i, S) \subseteq DOMAIN rows
      BY DEF Ahead
    <2>2. QED
      BY <2>1, RowPlaces, FS_Subset, FS_CardinalityType
  <1>2. ASSUME NEW i \in S, NEW j \in S, Before(Place(i), Place(j))
        PROVE  Cardinality(Ahead(i, S)) < Cardinality(Ahead(j, S))
    <2>1. Ahead(i, S) \subseteq Ahead(j, S) /\ i \in Ahead(j, S) /\ i \notin Ahead(i, S)
      BY <1>2, RowPlaces, BeforeIsStrictOrder DEF Ahead
    <2>2. /\ Cardinality(Ahead(i, S)) <= Cardinality(Ahead(j, S))
          /\ Cardinality(Ahead(i, S)) = Cardinality(Ahead(j, S)) => Ahead(i, S) = Ahead(j, S)
      BY <1>1, <2>1, FS_Subset
    <2>3. QED
      BY <1>1, <2>1, <2>2
  <1>3. ASSUME NEW i \in S, NEW j \in S,
               Cardinality(Ahead(i, S)) < Cardinality(Ahead(j, S))
        PROVE  Before(Place(i), Place(j))
    <2>1. i # j /\ ~Before(Place(j), Place(i))
      BY <1>1, <1>2, <1>3
    <2>2. QED
      BY <2>1, RowPlaces, BeforeIsStrictOrder
  <1>4. QED
    BY <1>1, <1>2, <1>3

\* If some row has as many rows ahead of it as a page holds, some row has
\* exactly as many: the extra row that the query reads is there.
LEMMA RankIsTaken ==
    ASSUME IndexerTypeOK, NEW S \in SUBSET DOMAIN rows, NEW n \in Nat,
           NEW i \in S, Cardinality(Ahead(i, S)) >= n
    PROVE  \E j \in S : Cardinality(Ahead(j, S)) = n
  <1> DEFINE Rank(j) == Cardinality(Ahead(j, S))
             High == {Rank(j) : j \in {k \in S : Rank(k) >= n}}
  <1>1. \A j \in S : Rank(j) \in Nat
    BY AheadOrder
  <1>2. PICK j \in S : Rank(j) >= n /\ \A k \in S : Rank(k) >= n => Rank(j) <= Rank(k)
    <2>1. High \in SUBSET Nat /\ High # {}
      BY <1>1
    <2>2. PICK m \in High : \A x \in High : m <= x
      BY <2>1, LeastExists
    <2>3. QED
      BY <2>2
  <1>3. ASSUME Rank(j) > n PROVE FALSE
    <2> DEFINE P == Ahead(j, S)
               Gaps == {Rank(j) - Rank(k) : k \in P}
    <2>1. P \subseteq S /\ IsFiniteSet(P) /\ Cardinality(P) = Rank(j)
          /\ \A k \in P : Before(Place(k), Place(j)) /\ Rank(k) < Rank(j)
      BY AheadOrder DEF Ahead
    <2>2. P # {}
      <3>1. Cardinality({}) = 0
        BY FS_EmptySet
      <3>2. Rank(j) # 0
        BY <1>1, <1>3
      <3>3. QED
        BY <2>1, <3>1, <3>2
    <2>3. PICK k \in P : \A x \in P : Rank(x) <= Rank(k)
      <3>1. Gaps \in SUBSET Nat /\ Gaps # {}
        BY <1>1, <2>1, <2>2
      <3>2. PICK g \in Gaps : \A x \in Gaps : g <= x
        BY <3>1, LeastExists
      <3>3. PICK k \in P : g = Rank(j) - Rank(k)
        BY <3>2
      <3>4. ASSUME NEW x \in P PROVE Rank(x) <= Rank(k)
        <4>1. Rank(j) - Rank(k) <= Rank(j) - Rank(x)
          BY <3>2, <3>3
        <4>2. Rank(j) \in Nat /\ Rank(k) \in Nat /\ Rank(x) \in Nat
          BY <1>1, <2>1
        <4> HIDE DEF Rank
        <4>3. QED
          BY <4>1, <4>2
      <3>5. QED
        BY <3>4
    <2>4. Ahead(k, S) = P \ {k}
      <3>1. Ahead(k, S) \subseteq P
        BY <2>1, RowPlaces, BeforeIsStrictOrder DEF Ahead
      <3>2. k \notin Ahead(k, S)
        BY <2>1, RowPlaces, BeforeIsStrictOrder DEF Ahead
      <3>3. ASSUME NEW x \in P, x # k PROVE x \in Ahead(k, S)
        <4>1. x \in S /\ k \in S /\ Rank(x) <= Rank(k)
          BY <2>1, <2>3
        <4>2. ~Before(Place(k), Place(x))
          <5>1. Before(Place(k), Place(x)) => Rank(k) < Rank(x)
            BY <4>1, AheadOrder
          <5>2. Rank(k) \in Nat /\ Rank(x) \in Nat
            BY <1>1, <4>1
          <5> HIDE DEF Rank
          <5>3. QED
            BY <4>1, <5>1, <5>2
        <4>3. Before(Place(x), Place(k))
          BY <3>3, <4>1, <4>2, RowPlaces, BeforeIsStrictOrder
        <4>4. QED
          BY <4>1, <4>3 DEF Ahead
      <3>4. QED
        BY <3>1, <3>2, <3>3
    <2>5. Rank(k) = Rank(j) - 1
      <3>1. Cardinality(P \ {k}) = Cardinality(P) - 1
        <4> HIDE DEF P
        <4>1. QED
          BY <2>1, <2>3, FS_RemoveElement
      <3>2. QED
        BY <2>1, <2>4, <3>1
    <2>6. k \in S /\ Rank(k) >= n
      BY <1>1, <1>3, <2>1, <2>5
    <2>7. QED
      BY <1>1, <1>2, <2>5, <2>6
  <1>4. QED
    BY <1>1, <1>2, <1>3

LEMMA SelectedRows ==
    ASSUME IndexerTypeOK, NEW f, NEW cursor \in Cursor
    PROVE  /\ Selected(f, cursor) \subseteq DOMAIN rows
           /\ cursor = None => Selected(f, cursor) = Matching(rows, f)
           /\ cursor # None =>
                 Selected(f, cursor) = {i \in Matching(rows, f) : Before(cursor, Place(i))}
  BY DEF Selected, Matching, Matches, Time, IssuerColumn

\* What a page holds, and where the next one starts.
LEMMA PageOfEvents ==
    ASSUME IndexerTypeOK, NEW f, NEW cursor \in Cursor
    PROVE  LET r == ListEvents(f, cursor)
               found == Selected(f, cursor)
           IN  /\ r.page \subseteq found
               /\ r.next \in Cursor
               /\ r.next # None => \E j \in found : r.next = Place(j)
               /\ r.next # None => \A i \in r.page : Before(Place(i), r.next)
               /\ \A i \in found \ r.page : r.next # None /\ ~Before(Place(i), r.next)
  <1> DEFINE found == Selected(f, cursor)
             Rank(i) == Cardinality(Ahead(i, found))
             beyond == {i \in found : Rank(i) = RowsPerPage}
             page == {i \in found : Rank(i) < RowsPerPage}
             next == IF beyond = {} THEN None ELSE Place(CHOOSE i \in beyond : TRUE)
  <1>1. ListEvents(f, cursor) = [page |-> page, next |-> next]
    BY DEF ListEvents
  <1>2. found \in SUBSET DOMAIN rows
    BY SelectedRows
  <1>3. RowsPerPage \in Nat /\ None \notin PlacesOfTable
    BY TableAssumption DEF PlacesOfTable
  <1>4. /\ \A i \in found : Rank(i) \in Nat
        /\ \A i, j \in found : Before(Place(i), Place(j)) => Rank(i) < Rank(j)
        /\ \A i, j \in found : Rank(i) < Rank(j) => Before(Place(i), Place(j))
        /\ \A i \in found : Rank(i) >= RowsPerPage => beyond # {}
    BY <1>2, <1>3, AheadOrder, RankIsTaken
  <1>5. ASSUME beyond # {}
        PROVE  \E j \in found : Rank(j) = RowsPerPage /\ next = Place(j) /\ next \in PlacesOfTable
    <2>1. PICK j \in beyond : j = CHOOSE i \in beyond : TRUE
      BY <1>5
    <2>2. j \in found /\ Rank(j) = RowsPerPage /\ next = Place(j)
      BY <1>5, <2>1
    <2>3. QED
      BY <1>2, <2>2, RowPlaces
  <1> HIDE DEF Rank, found
  <1>6. page \subseteq found
    OBVIOUS
  <1>7. next \in Cursor /\ (next # None => \E j \in found : next = Place(j))
    BY <1>5 DEF Cursor
  <1>8. next # None => \A i \in page : Before(Place(i), next)
    BY <1>4, <1>5
  <1>9. ASSUME NEW i \in found \ page PROVE next # None /\ ~Before(Place(i), next)
    <2>1. Rank(i) >= RowsPerPage /\ beyond # {}
      BY <1>3, <1>4, <1>9
    <2>2. PICK j \in found : Rank(j) = RowsPerPage /\ next = Place(j) /\ next \in PlacesOfTable
      BY <1>5, <2>1
    <2>3. QED
      BY <1>3, <1>4, <2>1, <2>2
  <1>10. QED
    BY <1>1, <1>6, <1>7, <1>8, <1>9 DEF found

-----------------------------------------------------------------------------
(* The pages of a list.                                                    *)

\* The pages are in order and match the filter, all before the next cursor; a row
\* of the first stored ones that matches is on a page, was a cursor, or is still
\* to come.
Covers(r, f, pages, next, stored, skips) ==
    /\ \A a, b \in DOMAIN pages : a < b =>
          \A i \in pages[a], j \in pages[b] : Before(PlaceIn(r, i), PlaceIn(r, j))
    /\ \A a \in DOMAIN pages : pages[a] \subseteq Matching(r, f)
    /\ next # None => \A a \in DOMAIN pages : \A i \in pages[a] : Before(PlaceIn(r, i), next)
    /\ stored \in 0 .. Len(r)
    /\ \A i \in Matching(r, f) \cap 1 .. stored :
          \/ \E a \in DOMAIN pages : i \in pages[a]
          \/ PlaceIn(r, i) \in skips
          \/ next # None /\ ~Before(PlaceIn(r, i), next)

\* The first page.
LEMMA FirstPage ==
    ASSUME IndexerTypeOK, NEW f
    PROVE  Covers(rows, f, <<ListEvents(f, None).page>>, ListEvents(f, None).next,
                  Len(rows), {})
  <1> DEFINE page == ListEvents(f, None).page
             next == ListEvents(f, None).next
  <1>1. None \in Cursor /\ Len(rows) \in Nat
    BY DEF Cursor, IndexerTypeOK
  <1>2. /\ page \subseteq Matching(rows, f)
        /\ next # None => \A i \in page : Before(Place(i), next)
        /\ \A i \in Matching(rows, f) \ page : next # None /\ ~Before(Place(i), next)
    BY <1>1, SelectedRows, PageOfEvents
  <1>3. \A i \in Matching(rows, f) : Place(i) = PlaceIn(rows, i)
    BY RowPlaces DEF Matching
  <1> HIDE DEF page, next
  <1>4. DOMAIN <<page>> = {1} /\ <<page>>[1] = page
    OBVIOUS
  <1>5. Covers(rows, f, <<page>>, next, Len(rows), {})
    BY <1>1, <1>2, <1>3, <1>4 DEF Covers
  <1>6. QED
    BY <1>5 DEF page, next

\* One more page, from the cursor: only the row of the cursor itself is passed by.
LEMMA OneMorePage ==
    ASSUME IndexerTypeOK, NEW f, NEW pages \in Seq(SUBSET Nat), NEW cursor \in PlacesOfTable,
           NEW stored, NEW skips, Covers(rows, f, pages, cursor, stored, skips)
    PROVE  Covers(rows, f, Append(pages, ListEvents(f, cursor).page),
                  ListEvents(f, cursor).next, stored, skips \cup {cursor})
  <1> DEFINE page == ListEvents(f, cursor).page
             next == ListEvents(f, cursor).next
             more == Append(pages, page)
  <1>1. cursor \in Cursor /\ cursor # None
    BY TableAssumption DEF Cursor, PlacesOfTable
  <1>2. Selected(f, cursor) = {i \in Matching(rows, f) : Before(cursor, Place(i))}
    BY <1>1, SelectedRows
  <1>3. /\ page \subseteq Selected(f, cursor)
        /\ next \in Cursor
        /\ next # None => \A i \in page : Before(Place(i), next)
        /\ \A i \in Selected(f, cursor) \ page : next # None /\ ~Before(Place(i), next)
    BY <1>1, PageOfEvents
  <1>4. \A i \in Matching(rows, f) :
           Place(i) = PlaceIn(rows, i) /\ PlaceIn(rows, i) \in PlacesOfTable
    BY RowPlaces DEF Matching
  <1>5. page \in SUBSET Nat
    BY <1>2, <1>3, RowPlaces DEF Matching
  <1> HIDE DEF page, next
  <1>6. /\ DOMAIN more = 1 .. Len(pages) + 1 /\ DOMAIN pages = 1 .. Len(pages)
        /\ Len(pages) \in Nat
        /\ \A a \in DOMAIN pages : more[a] = pages[a]
        /\ more[Len(pages) + 1] = page
    BY <1>5
  <1> HIDE DEF more
  <1>7. next # None => Before(cursor, next) /\ next \in PlacesOfTable
    BY <1>1, <1>2, <1>4, PageOfEvents DEF next
  <1>8. ASSUME NEW a \in DOMAIN pages, NEW i \in pages[a]
        PROVE  /\ i \in Matching(rows, f) /\ PlaceIn(rows, i) \in PlacesOfTable
               /\ Before(PlaceIn(rows, i), cursor)
    BY <1>1, <1>4, <1>8 DEF Covers
  <1>9. ASSUME NEW i \in page
        PROVE  /\ i \in Matching(rows, f) /\ PlaceIn(rows, i) \in PlacesOfTable
               /\ Before(cursor, PlaceIn(rows, i))
    BY <1>2, <1>3, <1>4, <1>9
  <1>10. ASSUME NEW a \in DOMAIN more, NEW b \in DOMAIN more, a < b,
                NEW i \in more[a], NEW j \in more[b]
         PROVE  Before(PlaceIn(rows, i), PlaceIn(rows, j))
    <2>1. a \in DOMAIN pages /\ i \in pages[a]
      BY <1>6, <1>10
    <2>2. CASE b \in DOMAIN pages
      BY <1>6, <1>10, <2>1, <2>2 DEF Covers
    <2>3. CASE b \notin DOMAIN pages
      <3>1. j \in page
        BY <1>6, <1>10, <2>3
      <3>2. QED
        BY <1>8, <1>9, <2>1, <3>1, BeforeIsStrictOrder
    <2>4. QED
      BY <2>2, <2>3
  <1>11. \A a \in DOMAIN more : more[a] \subseteq Matching(rows, f)
    BY <1>6, <1>8, <1>9
  <1>12. ASSUME next # None, NEW a \in DOMAIN more, NEW i \in more[a]
         PROVE  Before(PlaceIn(rows, i), next)
    <2>1. CASE a \in DOMAIN pages
      <3>1. i \in pages[a]
        BY <1>6, <1>12, <2>1
      <3>2. QED
        BY <1>7, <1>8, <1>12, <2>1, <3>1, BeforeIsStrictOrder
    <2>2. CASE a \notin DOMAIN pages
      BY <1>3, <1>4, <1>6, <1>9, <1>12, <2>2
    <2>3. QED
      BY <2>1, <2>2
  <1>13. ASSUME NEW i \in Matching(rows, f) \cap 1 .. stored
         PROVE  \/ \E a \in DOMAIN more : i \in more[a]
                \/ PlaceIn(rows, i) \in skips \cup {cursor}
                \/ next # None /\ ~Before(PlaceIn(rows, i), next)
    <2>1. \/ \E a \in DOMAIN pages : i \in pages[a]
          \/ PlaceIn(rows, i) \in skips
          \/ ~Before(PlaceIn(rows, i), cursor)
      BY <1>13 DEF Covers
    <2>2. CASE \E a \in DOMAIN pages : i \in pages[a]
      BY <1>6, <2>2
    <2>3. CASE ~Before(PlaceIn(rows, i), cursor) /\ PlaceIn(rows, i) # cursor
      <3>1. Before(cursor, PlaceIn(rows, i))
        BY <1>4, <1>13, <2>3, BeforeIsStrictOrder
      <3>2. i \in Selected(f, cursor)
        BY <1>2, <1>4, <1>13, <3>1
      <3>3. CASE i \in page
        BY <1>6, <3>3
      <3>4. CASE i \notin page
        BY <1>3, <1>4, <1>13, <3>2, <3>4
      <3>5. QED
        BY <3>3, <3>4
    <2>4. QED
      BY <2>1, <2>2, <2>3
  <1>14. stored \in 0 .. Len(rows)
    BY DEF Covers
  <1>15. Covers(rows, f, more, next, stored, skips \cup {cursor})
    BY <1>10, <1>11, <1>12, <1>13, <1>14 DEF Covers
  <1>16. QED
    BY <1>15 DEF more, page, next

\* More rows in the table, or more cursors, change none of it.
LEMMA CoversStays ==
    ASSUME IndexerTypeOK, Grows
    PROVE  \A f, pages, next, stored, skips :
              Covers(rows, f, pages, next, stored, skips)
              => Covers(rows', f, pages, next, stored, skips)
  <1>1. /\ Len(rows) \in Nat /\ DOMAIN rows = 1 .. Len(rows)
        /\ Len(rows') \in Nat /\ Len(rows) <= Len(rows')
        /\ \A i \in DOMAIN rows : i \in DOMAIN rows' /\ rows'[i] = rows[i]
    <2>1. rows \in Seq(AllEvents)
      BY DEF IndexerTypeOK
    <2>2. QED
      BY <2>1 DEF Grows
  <1>2. \A i \in DOMAIN rows : PlaceIn(rows', i) = PlaceIn(rows, i)
    BY <1>1 DEF PlaceIn
  <1>3. \A f : \A i \in DOMAIN rows : i \in Matching(rows', f) <=> i \in Matching(rows, f)
    BY <1>1 DEF Matching, Matches
  <1>4. \A f : \A i \in Matching(rows, f) : i \in DOMAIN rows
    BY DEF Matching
  <1>5. SUFFICES ASSUME NEW f, NEW pages, NEW next, NEW stored, NEW skips,
                        Covers(rows, f, pages, next, stored, skips)
                 PROVE  Covers(rows', f, pages, next, stored, skips)
    OBVIOUS
  <1>6. \A a \in DOMAIN pages : \A i \in pages[a] :
           i \in Matching(rows, f) /\ i \in DOMAIN rows
    BY <1>5, <1>4 DEF Covers
  <1>7. stored \in 0 .. Len(rows) /\ stored \in 0 .. Len(rows')
    BY <1>1, <1>5 DEF Covers
  <1>8. \A i \in Matching(rows', f) \cap 1 .. stored : i \in Matching(rows, f) /\ i \in DOMAIN rows
    BY <1>1, <1>3, <1>7
  <1>9. /\ \A a, b \in DOMAIN pages : a < b =>
              \A i \in pages[a], j \in pages[b] : Before(PlaceIn(rows', i), PlaceIn(rows', j))
        /\ next # None => \A a \in DOMAIN pages : \A i \in pages[a] :
                             Before(PlaceIn(rows', i), next)
    BY <1>2, <1>5, <1>6 DEF Covers
  <1>10. \A a \in DOMAIN pages : pages[a] \subseteq Matching(rows', f)
    BY <1>3, <1>6
  <1>11. \A i \in Matching(rows', f) \cap 1 .. stored :
            \/ \E a \in DOMAIN pages : i \in pages[a]
            \/ PlaceIn(rows', i) \in skips
            \/ next # None /\ ~Before(PlaceIn(rows', i), next)
    BY <1>2, <1>5, <1>8 DEF Covers
  <1>12. QED
    BY <1>7, <1>9, <1>10, <1>11 DEF Covers

LEMMA CoversMore ==
    ASSUME NEW r, NEW f, NEW pages, NEW next, NEW stored, NEW skips, NEW more,
           Covers(r, f, pages, next, stored, skips), skips \subseteq more
    PROVE  Covers(r, f, pages, next, stored, more)
  BY DEF Covers

-----------------------------------------------------------------------------
(* The lists of the query cache.                                           *)

Pages == Seq(SUBSET Nat)

Fetch == [kind : {"none", "next", "all"}, cursor : Cursor, got : Pages, stored : Nat,
          skips : SUBSET PlacesOfTable]

List == [pages : Pages, next : Cursor, stored : Nat, skips : SUBSET PlacesOfTable,
         fetch : Fetch]

\* A fetch of one more page has the list's own cursor, which no other answer can
\* move meanwhile; a fetch of all pages has collected a list of its own.
FetchInv(r, f, next, fetch) ==
    /\ fetch.kind = "next" => fetch.cursor = next /\ next # None
    /\ fetch.kind = "all" /\ fetch.cursor = None => fetch.got = <<>>
    /\ fetch.kind = "all" /\ fetch.cursor # None =>
          /\ Covers(r, f, fetch.got, fetch.cursor, fetch.stored, fetch.skips)
          /\ fetch.cursor \in fetch.skips

ListInv(r, f, l) ==
    /\ l \in List
    /\ Covers(r, f, l.pages, l.next, l.stored, l.skips)
    /\ FetchInv(r, f, l.next, l.fetch)

ListsInv ==
    /\ lists \in [DOMAIN lists -> List]
    /\ filter \in DOMAIN lists
    /\ \A f \in DOMAIN lists : ListInv(rows, f, lists[f])

LEMMA NewFetches ==
    /\ NoFetch \in Fetch /\ NoFetch.kind = "none"
    /\ \A r, f, next : FetchInv(r, f, next, NoFetch)
    /\ FetchFrom("all") \in Fetch
    /\ \A r, f, next : FetchInv(r, f, next, FetchFrom("all"))
  <1>1. /\ NoFetch.kind = "none" /\ NoFetch.cursor = None /\ NoFetch.got = <<>>
        /\ FetchFrom("all").kind = "all" /\ FetchFrom("all").cursor = None
        /\ FetchFrom("all").got = <<>>
    BY DEF NoFetch, FetchFrom
  <1>2. NoFetch \in Fetch
    <2>1. <<>> \in Pages /\ None \in Cursor
      BY DEF Pages, Cursor
    <2>2. QED
      BY <2>1 DEF NoFetch, Fetch
  <1>3. FetchFrom("all") \in Fetch
    BY <1>2 DEF FetchFrom, Fetch
  <1>4. QED
    BY <1>1, <1>2, <1>3 DEF FetchInv

\* The fetch of a list is replaced.
LEMMA FetchReplaced ==
    ASSUME NEW r, NEW f, NEW l, ListInv(r, f, l), NEW fetch \in Fetch,
           FetchInv(r, f, l.next, fetch)
    PROVE  ListInv(r, f, [l EXCEPT !.fetch = fetch])
  <1> DEFINE m == [l EXCEPT !.fetch = fetch]
  <1>1. l \in List
    BY DEF ListInv
  <1>2. /\ m \in List /\ m.pages = l.pages /\ m.next = l.next /\ m.stored = l.stored
        /\ m.skips = l.skips /\ m.fetch = fetch
    BY <1>1 DEF List
  <1> HIDE DEF m
  <1>3. ListInv(r, f, m)
    BY <1>2 DEF ListInv
  <1>4. QED
    BY <1>3 DEF m

\* A list that is shown for the first time.
LEMMA FreshList ==
    ASSUME IndexerTypeOK, NEW f
    PROVE  ListInv(rows, f, [NewList EXCEPT !.fetch = FetchFrom("all")])
  <1>1. Len(rows) \in Nat
    BY DEF IndexerTypeOK
  <1>2. NewList \in List
    <2>1. <<>> \in Pages /\ None \in Cursor
      BY DEF Pages, Cursor
    <2>2. QED
      BY <2>1, NewFetches DEF NewList, List
  <1>3. /\ NewList.pages = <<>> /\ NewList.next = None /\ NewList.stored = 0
        /\ NewList.skips = {} /\ NewList.fetch = NoFetch
    BY DEF NewList
  <1>4. Covers(rows, f, <<>>, None, 0, {})
    BY <1>1 DEF Covers
  <1>5. ListInv(rows, f, NewList)
    BY <1>2, <1>3, <1>4, NewFetches DEF ListInv
  <1>6. QED
    BY <1>5, NewFetches, FetchReplaced

\* The table grows.
LEMMA ListStays ==
    ASSUME IndexerTypeOK, Grows
    PROVE  \A f, l : ListInv(rows, f, l) => ListInv(rows', f, l)
  BY CoversStays DEF ListInv, FetchInv

\* The answer of list_events is typed.
LEMMA PageTypes ==
    ASSUME IndexerTypeOK, NEW f, NEW cursor \in Cursor
    PROVE  ListEvents(f, cursor).page \in SUBSET Nat /\ ListEvents(f, cursor).next \in Cursor
  BY PageOfEvents, SelectedRows, RowPlaces

\* One page of a fetch arrives, over the table as it is by then.
LEMMA PageArrivedInv ==
    ASSUME IndexerTypeOK, NEW f, NEW l, ListInv(rows, f, l), IsFetching(l)
    PROVE  ListInv(rows, f, PageArrived(l, f))
  <1> DEFINE c == l.fetch.cursor
             r == ListEvents(f, c)
             got == Append(l.fetch.got, r.page)
             stored == IF c = None THEN Len(rows) ELSE l.fetch.stored
             skips == IF c = None THEN {} ELSE l.fetch.skips
  <1>1. /\ l \in List /\ l.fetch \in Fetch /\ c \in Cursor
        /\ l.pages \in Pages /\ l.fetch.got \in Pages /\ l.next \in Cursor
        /\ l.fetch.kind \in {"next", "all"}
    BY DEF ListInv, List, Fetch, IsFetching
  <1>2. r.page \in SUBSET Nat /\ r.next \in Cursor
    BY <1>1, PageTypes
  <1>3. c # None => c \in PlacesOfTable
    BY <1>1 DEF Cursor
  <1>4. CASE l.fetch.kind = "next"
    <2>1. c = l.next /\ c # None
      BY <1>4 DEF ListInv, FetchInv
    <2>2. Covers(rows, f, Append(l.pages, r.page), r.next, l.stored, l.skips \cup {c})
      BY <1>1, <1>3, <2>1, OneMorePage DEF ListInv, Pages
    <2>3. Append(l.pages, r.page) \in Pages
      BY <1>1, <1>2 DEF Pages
    <2> DEFINE m == [l EXCEPT !.pages = Append(@, r.page), !.next = r.next,
                              !.skips = @ \cup {l.fetch.cursor}, !.fetch = NoFetch]
    <2>4. PageArrived(l, f) = m
      BY <1>4 DEF PageArrived
    <2>5. /\ m \in List /\ m.pages = Append(l.pages, r.page) /\ m.next = r.next
          /\ m.stored = l.stored /\ m.skips = l.skips \cup {c} /\ m.fetch = NoFetch
      <3> HIDE DEF r
      <3>1. QED
        BY <1>1, <1>2, <1>3, <2>1, <2>3, NewFetches DEF List
    <2> HIDE DEF m, r, c
    <2>6. ListInv(rows, f, m)
      BY <2>2, <2>5, NewFetches DEF ListInv
    <2>7. QED
      BY <2>4, <2>6
  <1>5. CASE l.fetch.kind = "all"
    <2>1. /\ Covers(rows, f, got, r.next, stored, skips)
          /\ got \in Pages /\ stored \in Nat /\ skips \in SUBSET PlacesOfTable
      <3>1. CASE c = None
        <4>1. l.fetch.got = <<>>
          BY <1>5, <3>1 DEF ListInv, FetchInv
        <4>2. got = <<r.page>>
          BY <4>1
        <4>3. Len(rows) \in Nat
          BY DEF IndexerTypeOK
        <4>4. Covers(rows, f, <<r.page>>, r.next, Len(rows), {})
          BY <3>1, FirstPage
        <4>5. got \in Pages
          BY <1>1, <1>2 DEF Pages
        <4>6. QED
          BY <3>1, <4>2, <4>3, <4>4, <4>5
      <3>2. CASE c # None
        <4>1. Covers(rows, f, l.fetch.got, c, l.fetch.stored, l.fetch.skips)
              /\ c \in l.fetch.skips
          BY <1>5, <3>2 DEF ListInv, FetchInv
        <4>2. Covers(rows, f, got, r.next, l.fetch.stored, l.fetch.skips \cup {c})
          BY <1>1, <1>3, <3>2, <4>1, OneMorePage DEF Pages
        <4>3. l.fetch.skips \cup {c} = l.fetch.skips
          BY <4>1
        <4>4. got \in Pages
          BY <1>1, <1>2 DEF Pages
        <4>5. l.fetch.stored \in Nat /\ l.fetch.skips \in SUBSET PlacesOfTable
          BY <1>1 DEF Fetch
        <4>6. QED
          BY <3>2, <4>2, <4>3, <4>4, <4>5
      <3>3. QED
        BY <3>1, <3>2
    <2>2. CASE r.next # None /\ Len(got) < Len(l.pages)
      <3> DEFINE fetch == [kind |-> "all", cursor |-> r.next, got |-> got,
                           stored |-> stored, skips |-> skips \cup {r.next}]
      <3>1. PageArrived(l, f) = [l EXCEPT !.fetch = fetch]
        BY <1>5, <2>2 DEF PageArrived
      <3> HIDE DEF r, got, stored, skips
      <3>2. r.next \in PlacesOfTable
        BY <1>2, <2>2 DEF Cursor
      <3>3. fetch \in Fetch
        BY <1>2, <2>1, <3>2 DEF Fetch
      <3>4. Covers(rows, f, got, r.next, stored, skips \cup {r.next})
        BY <2>1, CoversMore
      <3>5. FetchInv(rows, f, l.next, fetch)
        BY <2>2, <3>4 DEF FetchInv
      <3> HIDE DEF fetch
      <3>6. QED
        BY <3>1, <3>3, <3>5, FetchReplaced
    <2>3. CASE ~(r.next # None /\ Len(got) < Len(l.pages))
      <3> DEFINE m == [pages |-> got, next |-> r.next, stored |-> stored,
                       skips |-> skips, fetch |-> NoFetch]
      <3>1. PageArrived(l, f) = m
        BY <1>5, <2>3 DEF PageArrived
      <3> HIDE DEF r, got, stored, skips
      <3>2. m \in List
        BY <1>2, <2>1, NewFetches DEF List
      <3>3. /\ m.pages = got /\ m.next = r.next /\ m.stored = stored /\ m.skips = skips
            /\ m.fetch = NoFetch
        OBVIOUS
      <3> HIDE DEF m
      <3>4. ListInv(rows, f, m)
        BY <2>1, <3>2, <3>3, NewFetches DEF ListInv
      <3>5. QED
        BY <3>1, <3>4
    <2>4. QED
      BY <2>2, <2>3
  <1>6. QED
    BY <1>1, <1>4, <1>5

\* The webhook's steps add at most a row.
LEMMA IndexerGrows ==
    ASSUME IndexerNext
    PROVE  Grows /\ UNCHANGED tableVars
  BY DEF IndexerNext, Deliver, HandleWebhook, Skip, Absent, Upload, UploadFails, Insert,
      InsertFails, MarkUploaded, MarkFails, Restart, Grows

\* One list of the cache is replaced by a good one.
LEMMA ListReplaced ==
    ASSUME IndexerTypeOK, ListsInv, rows' = rows, filter' = filter, NEW f \in DOMAIN lists,
           NEW l, lists' = [lists EXCEPT ![f] = l], ListInv(rows, f, l)
    PROVE  ListsInv'
  <1>1. l \in List /\ lists \in [DOMAIN lists -> List]
    BY DEF ListsInv, ListInv
  <1>2. DOMAIN lists' = DOMAIN lists /\ lists' \in [DOMAIN lists' -> List]
    BY <1>1
  <1>3. \A g \in DOMAIN lists : lists'[g] = IF g = f THEN l ELSE lists[g]
    BY <1>1
  <1>4. \A g \in DOMAIN lists' : ListInv(rows', g, lists'[g])
    BY <1>2, <1>3 DEF ListsInv
  <1>5. filter' \in DOMAIN lists'
    BY <1>2 DEF ListsInv
  <1>6. QED
    BY <1>2, <1>4, <1>5 DEF ListsInv

\* A list is shown: from the cache, or a new one.
LEMMA ShowInv ==
    ASSUME IndexerTypeOK, NEW cache, NEW f,
           cache \in [DOMAIN cache -> List],
           \A g \in DOMAIN cache : ListInv(rows, g, cache[g])
    PROVE  /\ f \in DOMAIN Show(f, cache)
           /\ Show(f, cache) \in [DOMAIN Show(f, cache) -> List]
           /\ \A g \in DOMAIN Show(f, cache) : ListInv(rows, g, Show(f, cache)[g])
  <1> DEFINE new == [NewList EXCEPT !.fetch = FetchFrom("all")]
  <1>1. ListInv(rows, f, new) /\ new \in List
    BY FreshList DEF ListInv
  <1>2. Show(f, cache) = [g \in DOMAIN cache \cup {f} |->
                             IF g \in DOMAIN cache THEN cache[g] ELSE new]
    BY DEF Show
  <1> HIDE DEF new
  <1>3. QED
    BY <1>1, <1>2

LEMMA NextLists ==
    ASSUME IndexerTypeOK, ListsInv, [Next]_vars
    PROVE  ListsInv'
  <1>1. CASE UNCHANGED vars
    BY <1>1 DEF vars, indexerVars, tableVars, ListsInv
  <1>2. CASE IndexerNext
    <2>1. Grows /\ lists' = lists /\ filter' = filter
      BY <1>2, IndexerGrows DEF tableVars
    <2>2. QED
      BY <2>1, ListStays DEF ListsInv
  <1>3. ASSUME NEW f \in DOMAIN lists, PageArrives(f)
        PROVE  ListsInv'
    <2>1. /\ rows' = rows /\ filter' = filter
          /\ lists' = [lists EXCEPT ![f] = PageArrived(lists[f], f)]
      BY <1>3 DEF PageArrives, indexerVars
    <2>2. ListInv(rows, f, PageArrived(lists[f], f))
      BY <1>3, PageArrivedInv DEF PageArrives, ListsInv
    <2>3. QED
      BY <2>1, <2>2, ListReplaced
  <1>4. ASSUME NEW f \in DOMAIN lists, NEW fetch \in Fetch,
               FetchInv(rows, f, lists[f].next, fetch),
               rows' = rows, filter' = filter,
               lists' = [lists EXCEPT ![f] = [lists[f] EXCEPT !.fetch = fetch]]
        PROVE  ListsInv'
    <2>1. ListInv(rows, f, [lists[f] EXCEPT !.fetch = fetch])
      BY <1>4, FetchReplaced DEF ListsInv
    <2>2. QED
      BY <1>4, <2>1, ListReplaced
  <1>5. ASSUME NEW f \in DOMAIN lists, PageFails(f)
        PROVE  ListsInv'
    <2>1. /\ rows' = rows /\ filter' = filter
          /\ lists' = [lists EXCEPT ![f] = [lists[f] EXCEPT !.fetch = NoFetch]]
      BY <1>5 DEF PageFails, indexerVars
    <2>2. QED
      BY <1>4, <2>1, NewFetches
  <1>6. CASE Refresh
    <2>1. /\ rows' = rows /\ filter' = filter
          /\ lists' = [lists EXCEPT ![filter] =
                          [lists[filter] EXCEPT !.fetch = FetchFrom("all")]]
      BY <1>6 DEF Refresh, indexerVars
    <2>2. filter \in DOMAIN lists
      BY DEF ListsInv
    <2>3. QED
      BY <1>4, <2>1, <2>2, NewFetches
  <1>7. CASE LoadMore
    <2> DEFINE fetch == [NoFetch EXCEPT !.kind = "next", !.cursor = lists[filter].next]
    <2>1. /\ rows' = rows /\ filter' = filter /\ lists[filter].next # None
          /\ lists' = [lists EXCEPT ![filter] = [lists[filter] EXCEPT !.fetch = fetch]]
      BY <1>7 DEF LoadMore, HasNextPage, indexerVars
    <2>2. filter \in DOMAIN lists /\ lists[filter].next \in Cursor
      BY DEF ListsInv, ListInv, List
    <2>3. fetch \in Fetch /\ fetch.kind = "next" /\ fetch.cursor = lists[filter].next
      BY <2>2, NewFetches DEF Fetch
    <2> HIDE DEF fetch
    <2>4. FetchInv(rows, filter, lists[filter].next, fetch)
      BY <2>1, <2>3 DEF FetchInv
    <2>5. QED
      BY <1>4, <2>1, <2>2, <2>3, <2>4
  <1>8. ASSUME NEW range, NEW issuer, Commit(range, issuer), rows' = rows
        PROVE  ListsInv'
    <2>1. lists' = Show(filter', lists)
      BY <1>8 DEF Commit
    <2>2. /\ lists \in [DOMAIN lists -> List]
          /\ \A g \in DOMAIN lists : ListInv(rows, g, lists[g])
      BY DEF ListsInv
    <2>3. /\ filter' \in DOMAIN Show(filter', lists)
          /\ Show(filter', lists) \in [DOMAIN Show(filter', lists) -> List]
          /\ \A g \in DOMAIN Show(filter', lists) :
                ListInv(rows, g, Show(filter', lists)[g])
      BY <2>2, ShowInv
    <2>4. QED
      BY <1>8, <2>1, <2>3 DEF ListsInv
  <1>9. CASE \/ \E range \in {"all", "24h"} : SetRange(range)
             \/ \E text \in Issuers \cup {None, Invalid} : CommitFilters(text)
             \/ ClearFilters
    <2>1. \E range, issuer : Commit(range, issuer) /\ rows' = rows
      BY <1>9 DEF SetRange, CommitFilters, ClearFilters, indexerVars
    <2>2. QED
      BY <1>8, <2>1
  <1>10. QED
    BY <1>1, <1>2, <1>3, <1>5, <1>6, <1>7, <1>9 DEF Next, TableNext

\* The cache of the audit log keeps its invariant (use-events.ts).
THEOREM ListsInvariant == Spec => [](IndexerTypeOK /\ ListsInv)
  <1>1. AuditInit => IndexerTypeOK /\ ListsInv
    <2> SUFFICES ASSUME AuditInit PROVE IndexerTypeOK /\ ListsInv
      OBVIOUS
    <2>1. IndexerTypeOK
      <3>1. Idle \in Handler
        BY DEF Idle, Handler
      <3>2. QED
        BY <3>1, IndexerAssumption DEF AuditInit, Init, IndexerTypeOK
    <2>2. lists = Show(filter, <<>>)
      BY DEF AuditInit, TableInit
    <2>3. <<>> \in [DOMAIN <<>> -> List] /\ DOMAIN <<>> = {}
      OBVIOUS
    <2>4. QED
      BY <2>1, <2>2, <2>3, ShowInv DEF ListsInv
  <1>2. IndexerTypeOK /\ ListsInv /\ [Next]_vars => ListsInv'
    BY NextLists
  <1>3. QED
    BY <1>1, <1>2, IndexerTypeCorrect, PTL DEF Spec

\* What the audit log shows or exports, under any filters and however its pages
\* were loaded, is in order, without a row twice, and matches the filters; and of
\* the rows that were there when its first page was read none is missing above
\* the end of the list but those that became a cursor: not because rows were
\* inserted between two pages, a refresh was cut short, or an answer came after
\* the filters had changed.
THEOREM NoRowHidden == Spec => []OnlyCursorsMissing
  <1>1. IndexerTypeOK /\ ListsInv => OnlyCursorsMissing
    <2> SUFFICES ASSUME IndexerTypeOK, ListsInv, NEW f \in DOMAIN lists
                 PROVE  LET l == lists[f]
                        IN  /\ \A a, b \in DOMAIN l.pages : a < b =>
                                  \A i \in l.pages[a], j \in l.pages[b] :
                                     Before(Place(i), Place(j))
                            /\ Exported(l) \subseteq Selected(f, None)
                            /\ \A i \in Selected(f, None) \cap 1..l.stored :
                                \/ i \in Loaded(l)
                                \/ Place(i) \in l.skips
                                \/ l.next # None /\ ~Before(Place(i), l.next)
      BY DEF OnlyCursorsMissing
    <2>1. Covers(rows, f, lists[f].pages, lists[f].next, lists[f].stored, lists[f].skips)
      BY DEF ListsInv, ListInv
    <2>2. Selected(f, None) = Matching(rows, f)
      BY SelectedRows DEF Cursor
    <2>3. \A i \in Matching(rows, f) : Place(i) = PlaceIn(rows, i)
      BY RowPlaces DEF Matching
    <2>4. QED
      BY <2>1, <2>2, <2>3 DEF Covers, Exported, Loaded
  <1>2. QED
    BY <1>1, ListsInvariant, PTL

ClockInRange == clock \in OpenedAt .. MaxClock

\* The clock of the page, the filters and the cache keep their types beside the
\* indexer's: a list shows rows of the table, for any length of a page and any
\* number of rows (audit-log-table.tsx, use-events.ts).
THEOREM TypeCorrect == Spec => []TypeOK
  <1>1. AuditInit => ClockInRange
    BY TableAssumption DEF AuditInit, TableInit, ClockInRange
  <1>2. ClockInRange /\ [Next]_vars => ClockInRange'
    <2> SUFFICES ASSUME ClockInRange, [Next]_vars
                 PROVE  clock' = clock \/ clock' \in clock .. MaxClock
      BY TableAssumption DEF ClockInRange
    <2>1. ASSUME NEW range, NEW issuer, Commit(range, issuer)
          PROVE  clock' \in clock .. MaxClock
      BY <2>1 DEF Commit
    <2>2. CASE \/ \E range \in {"all", "24h"} : SetRange(range)
               \/ \E text \in Issuers \cup {None, Invalid} : CommitFilters(text)
               \/ ClearFilters
      BY <2>1, <2>2 DEF SetRange, CommitFilters, ClearFilters
    <2>3. CASE \/ UNCHANGED vars \/ IndexerNext \/ Refresh \/ LoadMore
               \/ \E f \in DOMAIN lists : PageArrives(f) \/ PageFails(f)
      BY <2>3 DEF vars, tableVars, IndexerNext, Refresh, LoadMore, PageArrives, PageFails
    <2>4. QED
      BY <2>2, <2>3 DEF Next, TableNext
  <1>3. IndexerTypeOK /\ ListsInv /\ ClockInRange => TypeOK
    <2> SUFFICES ASSUME IndexerTypeOK, ListsInv, NEW f \in DOMAIN lists
                 PROVE  /\ Loaded(lists[f]) \subseteq DOMAIN rows
                        /\ lists[f].fetch.kind \in {"none", "next", "all"}
                        /\ lists[f].stored \in 0..Len(rows)
      BY DEF TypeOK, ListsInv, ClockInRange
    <2>1. /\ lists[f] \in List
          /\ Covers(rows, f, lists[f].pages, lists[f].next, lists[f].stored, lists[f].skips)
      BY DEF ListsInv, ListInv
    <2>2. Matching(rows, f) \subseteq DOMAIN rows
      BY DEF Matching
    <2>3. Loaded(lists[f]) \subseteq DOMAIN rows
      BY <2>1, <2>2 DEF Covers, Loaded
    <2>4. lists[f].fetch.kind \in {"none", "next", "all"}
      BY <2>1 DEF List, Fetch
    <2>5. QED
      BY <2>1, <2>3, <2>4 DEF Covers
  <1>4. QED
    BY <1>1, <1>2, <1>3, ListsInvariant, PTL DEF Spec
=============================================================================

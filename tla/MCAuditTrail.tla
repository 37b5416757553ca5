--------------------------- MODULE MCAuditTrail ---------------------------
(***************************************************************************)
(* Instances of AuditTrail.                                                *)
(***************************************************************************)
EXTENDS AuditTrail

CONSTANTS n1, n2, n3, acme, globex

Settled(n, i) == [kind |-> "settled", nullifier |-> n, issuer |-> i]
Foreign == [kind |-> "foreign"]
Unreadable == [kind |-> "unreadable"]

\* An event alone; two in one transaction, after a line of another program;
\* and a transaction the indexer cannot read although it holds an event.
MixedChain ==
    << [slot |-> 1, time |-> 0, lines |-> <<Settled(n1, acme)>>],
       [slot |-> 2, time |-> 2,
        lines |-> <<Foreign, Settled(n2, acme), Settled(n3, globex)>>],
       [slot |-> 3, time |-> 2, lines |-> <<Unreadable, Settled(n3, acme)>>] >>

\* Two requests, one of several transactions.
MixedRequests == {<<2>>, <<3, 1>>}

Interchangeable == Permutations(Deliveries)
=============================================================================

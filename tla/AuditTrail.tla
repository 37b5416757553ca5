----------------------------- MODULE AuditTrail -----------------------------
(***************************************************************************)
(* The audit log of the dashboard over the indexer's events table: the     *)
(* filters of AuditLogTable, the pages useEvents loads by cursor while     *)
(* the webhook keeps inserting rows, and the export of what is loaded.     *)
(*                                                                         *)
(* useInfiniteQuery keeps one list per query key, and the key holds the    *)
(* filters: lists is that cache.  A request carries the key it was made    *)
(* for; it is answered in one step, by list_events over the rows of that   *)
(* moment, or by an error.  The issuer filter stands for the recipient     *)
(* filter too: the two are the same code.                                  *)
(***************************************************************************)
EXTENDS Indexer

CONSTANTS
    None,           \* an absent value, an empty field
    Invalid,        \* a field that is neither empty nor 64 hex digits
    Issuers,        \* issuer keys an operator may type
    RowsPerPage,    \* ROWS_PER_PAGE, the limit of every request
    Window,         \* seconds of the range "24h", in clock units
    OpenedAt,       \* the clock when the page is opened
    MaxClock,       \* bound: the clock stops here
    MaxFilters      \* bound: how many filters are tried

ASSUME TableAssumption ==
    RowsPerPage \in Nat \ {0} /\ Window \in Nat /\ MaxClock \in Nat
    /\ OpenedAt \in 0 .. MaxClock
    /\ MaxFilters \in Nat
    /\ None \notin Nat \X Nat

VARIABLES
    clock,      \* unix time, when it was last read
    filter,     \* the committed filters: [fromTs, issuer]
    lists       \* the query cache: a list per filter that was shown

tableVars == <<clock, filter, lists>>
vars == <<indexerVars, tableVars>>

\* A key as the two sides write it: the table stores base58, the operator
\* types hex and the filter is sent as typed.
Base58(k) == <<"base58", k>>
Hex(k) == <<"hex", k>>

\* The columns of row i.
Slot(i) == Chain[rows[i].tx].slot
Time(i) == Chain[rows[i].tx].time
IssuerColumn(i) == Base58(rows[i].issuer)

-----------------------------------------------------------------------------
(***************************************************************************)
(* GET /events                                                             *)
(***************************************************************************)

\* ORDER BY slot DESC, id DESC: row i comes before a place (a slot, an id).
Place(i) == <<Slot(i), i>>
Before(p, q) == p[1] > q[1] \/ (p[1] = q[1] /\ p[2] > q[2])

\* Mutated form: the cursor is compared by id only.
SelectedById(f, cursor) ==
    {i \in DOMAIN rows :
        /\ cursor # None => cursor[2] > i
        /\ f.fromTs # None => Time(i) >= f.fromTs
        /\ f.issuer # None => IssuerColumn(i) = f.issuer}

\* The rows after the cursor that match the filters.
Selected(f, cursor) ==
    {i \in DOMAIN rows :
        /\ cursor # None => Before(cursor, Place(i))
        /\ f.fromTs # None => Time(i) >= f.fromTs
        /\ f.issuer # None => IssuerColumn(i) = f.issuer}

\* The rows of S that come before row i.
Ahead(i, S) == {j \in S : Before(Place(j), Place(i))}

\* One row more than the limit is read; when it is there, it is taken off
\* the page and its place becomes the cursor.  A page is shown in the order of
\* the query.
ListEvents(f, cursor) ==
    LET found == Selected(f, cursor)
        beyond == {i \in found : Cardinality(Ahead(i, found)) = RowsPerPage}
    IN  [page |-> {i \in found : Cardinality(Ahead(i, found)) < RowsPerPage},
         next |-> IF beyond = {} THEN None ELSE Place(CHOOSE i \in beyond : TRUE)]

-----------------------------------------------------------------------------
(***************************************************************************)
(* useEvents: a list is its pages, the cursor of the next one, and the     *)
(* fetch under way, which collects the pages it replaces or adds.  stored  *)
(* and skips are history: how many rows the table had when the first page  *)
(* was read, and the cursors that were followed.                           *)
(***************************************************************************)
NoFetch == [kind |-> "none", cursor |-> None, got |-> <<>>, stored |-> 0,
            skips |-> {}]

NewList == [pages |-> <<>>, next |-> None, stored |-> 0, skips |-> {},
            fetch |-> NoFetch]

FetchFrom(kind) == [NoFetch EXCEPT !.kind = kind]

\* A filter that has no list yet starts one, and its first page is fetched;
\* a list in the cache is shown as it is.
Show(f, cache) ==
    [g \in DOMAIN cache \cup {f} |->
        IF g \in DOMAIN cache THEN cache[g]
        ELSE [NewList EXCEPT !.fetch = FetchFrom("all")]]

Loaded(l) == UNION {l.pages[k] : k \in DOMAIN l.pages}
\* exportToCsv, exportToJson: the loaded rows and no others.
Exported(l) == Loaded(l)
HasNextPage(l) == l.next # None
IsFetching(l) == l.fetch.kind # "none"

\* One page of the fetch arrives.  "next" adds it to the list; "all" goes
\* on until it has as many pages as the list showed, then replaces them.
PageArrived(l, f) ==
    LET r == ListEvents(f, l.fetch.cursor)
        got == Append(l.fetch.got, r.page)
        stored == IF l.fetch.cursor = None THEN Len(rows) ELSE l.fetch.stored
        skips == IF l.fetch.cursor = None THEN {} ELSE l.fetch.skips
    IN  IF l.fetch.kind = "next" THEN
               [l EXCEPT !.pages = Append(@, r.page), !.next = r.next,
                         !.skips = @ \cup {l.fetch.cursor},
                         !.fetch = NoFetch]
        ELSE IF r.next # None /\ Len(got) < Len(l.pages) THEN
               [l EXCEPT !.fetch = [kind |-> "all", cursor |-> r.next,
                                    got |-> got, stored |-> stored,
                                    skips |-> skips \cup {r.next}]]
        ELSE   [pages |-> got, next |-> r.next, stored |-> stored,
                skips |-> skips, fetch |-> NoFetch]

PageArrives(f) ==
    /\ IsFetching(lists[f])
    /\ lists' = [lists EXCEPT ![f] = PageArrived(@, f)]
    /\ UNCHANGED <<indexerVars, clock, filter>>

\* The last retry fails: what was loaded stays, the error is shown.
PageFails(f) ==
    /\ IsFetching(lists[f])
    /\ lists' = [lists EXCEPT ![f].fetch = NoFetch]
    /\ UNCHANGED <<indexerVars, clock, filter>>

-----------------------------------------------------------------------------
(***************************************************************************)
(* AuditLogTable                                                           *)
(***************************************************************************)

\* The useMemo of the filters: the range is turned into a point in time
\* when the range or a committed field changes, and stays there.
Filters(range, issuer, now) ==
    [fromTs |-> IF range = "all" THEN None ELSE now - Window,
     issuer |-> IF issuer = None THEN None ELSE Hex(issuer)]

\* The fields the filters were computed from.
RangeOf(f) == IF f.fromTs = None THEN "all" ELSE "24h"
IssuerOf(f) == IF f.issuer = None THEN None ELSE f.issuer[2]

\* The clock is read, and so moves, when new filters are computed.
Commit(range, issuer) ==
    /\ range # RangeOf(filter) \/ issuer # IssuerOf(filter)
    /\ clock' \in clock..MaxClock
    /\ filter' = Filters(range, issuer, clock')
    /\ lists' = Show(filter', lists)
    /\ Cardinality(DOMAIN lists') <= MaxFilters

SetRange(range) ==
    /\ Commit(range, IssuerOf(filter))
    /\ UNCHANGED indexerVars

\* Enter, blur or Apply with this text in the field (HexFilterInput); an
\* invalid field leaves the old filter in force.
CommitFilters(text) ==
    /\ Commit(RangeOf(filter), IF text = Invalid THEN IssuerOf(filter) ELSE text)
    /\ UNCHANGED indexerVars

ClearFilters ==
    /\ Commit("24h", None)
    /\ UNCHANGED indexerVars

Refresh ==
    /\ ~IsFetching(lists[filter])
    /\ lists' = [lists EXCEPT ![filter].fetch = FetchFrom("all")]
    /\ UNCHANGED <<indexerVars, clock, filter>>

\* Load more, enabled while a refresh runs: the refresh is cancelled.
LoadMore ==
    /\ HasNextPage(lists[filter])
    /\ lists[filter].fetch.kind # "next"
    /\ lists' = [lists EXCEPT ![filter].fetch =
                    [NoFetch EXCEPT !.kind = "next",
                                    !.cursor = lists[filter].next]]
    /\ UNCHANGED <<indexerVars, clock, filter>>

-----------------------------------------------------------------------------
TableInit ==
    /\ clock = OpenedAt
    /\ filter = Filters("24h", None, OpenedAt)
    /\ lists = Show(filter, <<>>)

IndexerNext ==
    /\ \/ \E d \in Deliveries, txs \in Requests : Deliver(d, txs)
       \/ \E d \in Deliveries : HandleWebhook(d)
       \/ Restart
    /\ UNCHANGED tableVars

TableNext ==
    \/ \E f \in DOMAIN lists : PageArrives(f) \/ PageFails(f)
    \/ \E range \in {"all", "24h"} : SetRange(range)
    \/ \E text \in Issuers \cup {None, Invalid} : CommitFilters(text)
    \/ ClearFilters
    \/ Refresh
    \/ LoadMore

AuditInit == Init /\ TableInit
Next == IndexerNext \/ TableNext
Spec == AuditInit /\ [][Next]_vars

-----------------------------------------------------------------------------
TypeOK ==
    /\ IndexerTypeOK
    /\ clock \in OpenedAt..MaxClock
    /\ filter \in DOMAIN lists
    /\ \A f \in DOMAIN lists :
          /\ Loaded(lists[f]) \subseteq DOMAIN rows
          /\ lists[f].fetch.kind \in {"none", "next", "all"}
          /\ lists[f].stored \in 0..Len(rows)

\* What is on screen, or in an export, is in descending order of slot and id
\* from page to page, without a row twice, and matches the filters it is shown
\* under.  One row at each page's end is lost (PagesHoldEveryRow), and no other:
\* a row that was in the table when the first page was read, and that lies above
\* the end of the list, is in it, or is one of the rows the cursors were made
\* from.  Rows inserted between two pages, a refresh cut short by Load more and
\* an answer that arrives after the filters changed never hide another row.
OnlyCursorsMissing ==
    \A f \in DOMAIN lists :
        LET l == lists[f]
        IN  /\ \A a, b \in DOMAIN l.pages : a < b =>
                  \A i \in l.pages[a], j \in l.pages[b] : Before(Place(i), Place(j))
            /\ Exported(l) \subseteq Selected(f, None)
            /\ \A i \in Selected(f, None) \cap 1..l.stored :
                \/ i \in Loaded(l)
                \/ Place(i) \in l.skips
                \/ l.next # None /\ ~Before(Place(i), l.next)

\* What the test list_events_cursor_pagination says of two pages: once there is
\* no next page, every row that matched when the first was read is on one.  It
\* is not: list_events takes the row its cursor is made from off the page, and
\* the next page begins after that row.
PagesHoldEveryRow ==
    \A f \in DOMAIN lists :
        lists[f].pages # <<>> /\ ~HasNextPage(lists[f])
        => Selected(f, None) \cap 1..lists[f].stored \subseteq Loaded(lists[f])
=============================================================================

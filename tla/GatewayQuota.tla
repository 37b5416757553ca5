--------------------------- MODULE GatewayQuota ---------------------------
(***************************************************************************)
(* The API gateway's metering of one API key: the usage row that           *)
(* try_reserve and release update, the handler proxy_to_upstream that      *)
(* brackets every /v1 request with them, and the deletion of the key that  *)
(* cascades to its usage.  Handlers of different requests interleave at    *)
(* every await; each statement on the database is atomic.                  *)
(***************************************************************************)
EXTENDS Integers, FiniteSets

CONSTANTS
    Requests,       \* /v1 requests that present the key
    NoRow,          \* the key has no usage_records row yet
    Limit,          \* record.tier.monthly_limit()
    PERIOD_SECS,    \* length of a metering period
    DAY_SECS,       \* length of a daily bucket
    MaxTime         \* bound on the clock

ASSUME QuotaAssumption ==
    /\ IsFiniteSet(Requests)
    /\ Limit \in Nat \ {0}
    /\ PERIOD_SECS \in Nat \ {0}
    /\ DAY_SECS \in Nat \ {0}
    /\ MaxTime \in Nat
    /\ NoRow \notin [count : Nat, start : Nat]

VARIABLES
    time,       \* the gateway's clock
    key,        \* the key is in api_keys
    row,        \* its usage_records row: request_count and period_start
    daily,      \* its daily_usage rows: requests recorded per day
    req,        \* where the handler of each request stands
    late        \* history: counts taken off this period by requests of an earlier one

quotaVars == <<time, key, row, daily, req, late>>

(***************************************************************************)
(* A handler that is gone may have ended in one of four ways: "refused"    *)
(* before it reserved, "returned" what it reserved, "served" and recorded, *)
(* or "leaked" its reservation.                                            *)
(***************************************************************************)
Stages == {"idle", "authed", "reserved", "sent", "recording", "releasing",
           "refused", "returned", "served", "leaked"}

Days == 0 .. MaxTime \div DAY_SECS

QuotaTypeOK ==
    /\ time \in 0 .. MaxTime
    /\ key \in BOOLEAN
    /\ row \in [count : 0 .. Limit, start : 0 .. MaxTime] \cup {NoRow}
    /\ daily \in [Days -> Nat]
    /\ req \in [Requests -> [at : Stages, now : 0 .. MaxTime, start : 0 .. MaxTime]]
    /\ late \in Nat

QuotaInit ==
    /\ time = 0
    /\ key = TRUE
    /\ row = NoRow
    /\ daily = [d \in Days |-> 0]
    /\ req = [r \in Requests |-> [at |-> "idle", now |-> 0, start |-> 0]]
    /\ late = 0

Goto(r, stage) == req' = [req EXCEPT ![r].at = stage]

(***************************************************************************)
(* Operations on the usage row.                                            *)
(***************************************************************************)
RolledOver(now) == row # NoRow /\ now - row.start >= PERIOD_SECS

HasQuotaOffByOne(now) == row = NoRow \/ RolledOver(now) \/ row.count <= Limit

HasQuota(now) == row = NoRow \/ RolledOver(now) \/ row.count < Limit

\* INSERT ... ON CONFLICT DO UPDATE: a first request and a roll-over start a
\* period at the request's own clock reading, another adds one.
Reserved(now) ==
    IF row = NoRow \/ RolledOver(now)
    THEN [count |-> 1, start |-> now]
    ELSE [row EXCEPT !.count = @ + 1]

\* UPDATE ... SET request_count = GREATEST(request_count - 1, 0), whatever
\* period the row is in; no row, nothing to update.
Released ==
    IF row = NoRow THEN NoRow
    ELSE [row EXCEPT !.count = IF @ > 0 THEN @ - 1 ELSE 0]

(***************************************************************************)
(* The handler.                                                            *)
(***************************************************************************)
\* The extractor looks the key up, then the handler reads its clock.
Authenticate(r) ==
    /\ req[r].at = "idle"
    /\ req' = [req EXCEPT ![r].at = IF key THEN "authed" ELSE "refused",
                          ![r].now = time]
    /\ UNCHANGED <<time, key, row, daily, late>>

\* The insert of a row for a deleted key breaks its foreign key: an error.
TryReserve(r) ==
    /\ req[r].at = "authed"
    /\ IF key /\ HasQuota(req[r].now)
       THEN /\ row' = Reserved(req[r].now)
            /\ req' = [req EXCEPT ![r].at = "reserved", ![r].start = row'.start]
            /\ late' = IF row # NoRow /\ row'.start = row.start THEN late ELSE 0
       ELSE Goto(r, "refused") /\ UNCHANGED <<row, late>>
    /\ UNCHANGED <<time, key, daily>>

\* The rate limiter is asked after the reservation was made.
RateLimited(r) ==
    /\ req[r].at = "reserved"
    /\ Goto(r, "releasing")
    /\ UNCHANGED <<time, key, row, daily, late>>

Send(r) ==
    /\ req[r].at = "reserved"
    /\ Goto(r, "sent")
    /\ UNCHANGED <<time, key, row, daily, late>>

\* 2xx and 3xx answers are recorded, every other one gives the unit back.
Answered(r) ==
    /\ req[r].at = "sent"
    /\ \E stage \in {"recording", "releasing"} : Goto(r, stage)
    /\ UNCHANGED <<time, key, row, daily, late>>

\* record_daily inserts, then prunes old buckets.  An insert that breaks the
\* foreign key, a failed insert and a failed prune all end in a release.
RecordDaily(r) ==
    /\ req[r].at = "recording"
    /\ \/ /\ key
          /\ daily' = [daily EXCEPT ![req[r].now \div DAY_SECS] = @ + 1]
          /\ \E stage \in {"served", "releasing"} : Goto(r, stage)
       \/ Goto(r, "releasing") /\ UNCHANGED daily
    /\ UNCHANGED <<time, key, row, late>>

\* release of one unit; a failure of the statement is only logged.
Release(r) ==
    /\ req[r].at = "releasing"
    /\ \/ /\ row' = Released
          /\ late' = IF row # NoRow /\ row.start # req[r].start /\ row.count > 0
                    THEN late + 1 ELSE late
          /\ Goto(r, "returned")
       \/ Goto(r, "leaked") /\ UNCHANGED <<row, late>>
    /\ UNCHANGED <<time, key, daily>>

\* A body that cannot be read, an upstream that cannot be reached, and a client
\* that hangs up at any await end the handler with its reservation made.
Abort(r) ==
    /\ req[r].at \in {"reserved", "sent", "recording", "releasing"}
    /\ Goto(r, "leaked")
    /\ UNCHANGED <<time, key, row, daily, late>>

\* DELETE /api-keys/{hash}: the usage rows go with the key.
DeleteKey ==
    /\ key
    /\ key' = FALSE
    /\ row' = NoRow
    /\ daily' = [d \in Days |-> 0]
    /\ UNCHANGED <<time, req, late>>

Tick ==
    /\ time < MaxTime
    /\ time' = time + 1
    /\ UNCHANGED <<key, row, daily, req, late>>

QuotaNext ==
    \/ \E r \in Requests :
          \/ Authenticate(r)
          \/ TryReserve(r)
          \/ RateLimited(r)
          \/ Send(r)
          \/ Answered(r)
          \/ RecordDaily(r)
          \/ Release(r)
          \/ Abort(r)
    \/ DeleteKey
    \/ Tick

QuotaSpec == QuotaInit /\ [][QuotaNext]_quotaVars

(***************************************************************************)
(* Properties.                                                             *)
(***************************************************************************)

\* The requests of the row's period whose unit was not given back.
Charged ==
    {r \in Requests :
        /\ req[r].at \in {"reserved", "sent", "recording", "releasing", "served", "leaked"}
        /\ row # NoRow
        /\ req[r].start = row.start}

\* What the comment on try_reserve says: a period "allows exactly `limit` total
\* requests".  It does not: a request that reserved in the period before and is
\* released in this one (release) makes room for one too many.
AllowsExactlyLimit == Cardinality(Charged) <= Limit

\* What the code ensures: in one period the gateway lets through no more
\* requests than the limit, plus one for each unit that a request of an earlier
\* period gave back late, and the count never charges for a request that was
\* turned away or given back.
QuotaHeld ==
    /\ Cardinality(Charged) <= Limit + late
    /\ row # NoRow => row.count <= Cardinality(Charged)

=============================================================================

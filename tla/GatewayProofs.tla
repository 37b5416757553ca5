--------------------------- MODULE GatewayProofs ---------------------------
(***************************************************************************)
(* Proofs about the two parts of the API gateway.                          *)
(*                                                                         *)
(* The metering of one key (GatewayQuota), for any number of requests, any *)
(* tier limit and any period.  The bound is not inductive by itself: the   *)
(* count of the row is what try_reserve looks at, and between the count    *)
(* and the requests it stands for lie the units that were given back in    *)
(* the wrong period.  Meter puts the charged requests between the count    *)
(* and the count plus those units.  Periods adds that a period begins      *)
(* later than every reservation made before it, so that a roll-over starts *)
(* with nobody charged.                                                    *)
(*                                                                         *)
(* Nonces, sessions and keys with the dashboard's cookies                  *)
(* (DashboardSession), for every number of wallets, keys and nonces, of    *)
(* refreshes in flight and of failing calls.                               *)
(***************************************************************************)
EXTENDS GatewayQuota, DashboardSession, FiniteSetTheorems, TLAPS

-----------------------------------------------------------------------------
(* The metering of a key.                                                  *)

\* The stages of a request that holds a unit.
Holding == {"reserved", "sent", "recording", "releasing", "served", "leaked"}

\* Of requests rs, those that hold a unit of the period that begins at s.
ChargedIn(s, rs) == {r \in Requests : rs[r].at \in Holding /\ rs[r].start = s}

Row == [count : 0 .. Limit, start : 0 .. MaxTime]
Handler == [at : Stages, now : 0 .. MaxTime, start : 0 .. MaxTime]

\* No request reserved in a period after the row's; without a row nobody has
\* reserved, or the key is gone for good.
Periods ==
    \A r \in Requests :
       req[r].at \in Holding =>
          IF row = NoRow THEN ~key ELSE req[r].start <= row.start

\* The count, the charged requests, and the units given back late.
Meter ==
    row # NoRow =>
       LET n == Cardinality(ChargedIn(row.start, req)) IN
       row.count <= n /\ n <= row.count + late

QuotaInv == QuotaTypeOK /\ Periods /\ Meter

-----------------------------------------------------------------------------
(* Facts about the operators.                                              *)

LEMMA RowIsARow ==
    ASSUME QuotaTypeOK, row # NoRow
    PROVE  row \in Row /\ row.count \in 0 .. Limit /\ row.start \in 0 .. MaxTime
BY DEF QuotaTypeOK, Row

\* NoRow is not a row of the table.
LEMMA RowsAreNotNoRow == \A w \in Row : w # NoRow
BY QuotaAssumption DEF Row

LEMMA ChargedFinite ==
    ASSUME NEW s, NEW rs
    PROVE  /\ IsFiniteSet(ChargedIn(s, rs))
           /\ Cardinality(ChargedIn(s, rs)) \in Nat
<1>1. ChargedIn(s, rs) \subseteq Requests
  BY DEF ChargedIn
<1>2. IsFiniteSet(ChargedIn(s, rs))
  BY <1>1, QuotaAssumption, FS_Subset
<1>. QED
  BY <1>2, FS_CardinalityType

\* Charged is ChargedIn of the row's period.
LEMMA ChargedIsChargedIn ==
    Charged = IF row = NoRow THEN {} ELSE ChargedIn(row.start, req)
BY DEF Charged, ChargedIn, Holding

\* Charging one request more, or one less.
LEMMA ChargeOne ==
    ASSUME NEW s, NEW rs, NEW r, r \notin ChargedIn(s, rs), NEW after,
           ChargedIn(s, after) = ChargedIn(s, rs) \cup {r}
    PROVE  Cardinality(ChargedIn(s, after)) = Cardinality(ChargedIn(s, rs)) + 1
BY ChargedFinite, FS_AddElement

LEMMA ReturnOne ==
    ASSUME NEW s, NEW rs, NEW r \in ChargedIn(s, rs), NEW after,
           ChargedIn(s, after) = ChargedIn(s, rs) \ {r}
    PROVE  Cardinality(ChargedIn(s, after)) = Cardinality(ChargedIn(s, rs)) - 1
BY ChargedFinite, FS_RemoveElement

-----------------------------------------------------------------------------
LEMMA InitQuota == QuotaInit => QuotaInv
<1>. SUFFICES ASSUME QuotaInit PROVE QuotaInv
  OBVIOUS
<1>1. QuotaTypeOK
  BY QuotaAssumption DEF QuotaInit, QuotaTypeOK, Stages
<1>2. Periods
  BY DEF QuotaInit, Periods, Holding
<1>3. Meter
  BY DEF QuotaInit, Meter
<1>. QED
  BY <1>1, <1>2, <1>3 DEF QuotaInv

\* A step of the handler that leaves the row alone and moves the request
\* between stages that both hold a unit, or both do not.
LEMMA MoveQuota ==
    ASSUME QuotaInv, NEW r \in Requests, NEW stage \in Stages,
           req' = [req EXCEPT ![r].at = stage],
           (stage \in Holding) <=> (req[r].at \in Holding),
           UNCHANGED <<time, key, row, late>>, daily' \in [Days -> Nat]
    PROVE  QuotaInv'
<1>. DEFINE q == [req[r] EXCEPT !.at = stage]
<1>1. req \in [Requests -> Handler]
  BY DEF QuotaInv, QuotaTypeOK, Handler
<1>2. req' = [req EXCEPT ![r] = q]
  BY <1>1
<1>3. q \in Handler /\ q.at = stage /\ q.start = req[r].start
  BY <1>1 DEF Handler
<1>. HIDE DEF q
<1>4. req' \in [Requests -> Handler]
  BY <1>1, <1>2, <1>3
<1>5. \A x \in Requests : /\ req'[x].at \in Holding <=> req[x].at \in Holding
                          /\ req'[x].start = req[x].start
  BY <1>1, <1>2, <1>3
<1>6. QuotaTypeOK'
  BY <1>4 DEF QuotaInv, QuotaTypeOK, Handler
<1>7. Periods'
  BY <1>5 DEF QuotaInv, Periods
<1>8. ChargedIn(row'.start, req') = ChargedIn(row.start, req)
  BY <1>5 DEF ChargedIn
<1>9. Meter'
  BY <1>8 DEF QuotaInv, Meter
<1>. QED
  BY <1>6, <1>7, <1>9 DEF QuotaInv

LEMMA AuthenticateQuota ==
    ASSUME QuotaInv, NEW r \in Requests, Authenticate(r)
    PROVE  QuotaInv'
<1>. DEFINE q == [req[r] EXCEPT !.at = IF key THEN "authed" ELSE "refused", !.now = time]
<1>1. req \in [Requests -> Handler] /\ time \in 0 .. MaxTime
  BY DEF QuotaInv, QuotaTypeOK, Handler
<1>2. req' = [req EXCEPT ![r] = q]
  BY <1>1 DEF Authenticate
<1>3. q \in Handler /\ q.at \notin Holding
  BY <1>1 DEF Handler, Stages, Holding
<1>. HIDE DEF q
<1>4. req[r].at \notin Holding
  BY DEF Authenticate, Holding
<1>5. req' \in [Requests -> Handler]
  BY <1>1, <1>2, <1>3
<1>6. \A x \in Requests : /\ req'[x].at \in Holding <=> req[x].at \in Holding
                          /\ req[x].at \in Holding => req'[x].start = req[x].start
  BY <1>1, <1>2, <1>3, <1>4
<1>7. UNCHANGED <<time, key, row, daily, late>>
  BY DEF Authenticate
<1>8. QuotaTypeOK'
  BY <1>5, <1>7 DEF QuotaInv, QuotaTypeOK, Handler
<1>9. Periods'
  BY <1>6, <1>7 DEF QuotaInv, Periods
<1>10. ChargedIn(row'.start, req') = ChargedIn(row.start, req)
  BY <1>6, <1>7 DEF ChargedIn
<1>11. Meter'
  BY <1>7, <1>10 DEF QuotaInv, Meter
<1>. QED
  BY <1>8, <1>9, <1>11 DEF QuotaInv

\* What try_reserve makes of the row.
LEMMA ReservedRow ==
    ASSUME QuotaTypeOK, NEW now \in 0 .. MaxTime, HasQuota(now)
    PROVE  /\ Reserved(now) \in Row
           /\ \/ /\ row # NoRow
                 /\ Reserved(now).start = row.start
                 /\ Reserved(now).count = row.count + 1
              \/ /\ row # NoRow => row.start < now
                 /\ Reserved(now).start = now
                 /\ Reserved(now).count = 1
<1>1. CASE row = NoRow \/ RolledOver(now)
  <2>1. Reserved(now) = [count |-> 1, start |-> now]
    BY <1>1 DEF Reserved
  <2>2. row # NoRow => row.start < now
    BY <1>1, RowIsARow, QuotaAssumption DEF RolledOver
  <2>. QED
    BY <2>1, <2>2, QuotaAssumption DEF Row
<1>2. CASE ~(row = NoRow \/ RolledOver(now))
  <2>1. row \in Row /\ row.count < Limit
    BY <1>2, RowIsARow DEF HasQuota
  <2>2. Reserved(now) = [row EXCEPT !.count = row.count + 1]
    BY <1>2 DEF Reserved
  <2>. QED
    BY <1>2, <2>1, <2>2, QuotaAssumption DEF Row
<1>. QED
  BY <1>1, <1>2

LEMMA TryReserveQuota ==
    ASSUME QuotaInv, NEW r \in Requests, TryReserve(r)
    PROVE  QuotaInv'
<1>1. req \in [Requests -> Handler] /\ QuotaTypeOK
  BY DEF QuotaInv, QuotaTypeOK, Handler
<1>2. CASE ~(key /\ HasQuota(req[r].now))
  <2>1. req' = [req EXCEPT ![r].at = "refused"] /\ UNCHANGED <<time, key, row, daily, late>>
    BY <1>2 DEF TryReserve, Goto
  <2>2. daily' \in [Days -> Nat]
    BY <2>1, <1>1 DEF QuotaTypeOK
  <2>3. req[r].at = "authed" /\ "refused" \in Stages
    BY DEF TryReserve, Stages
  <2>4. ("refused" \in Holding) <=> (req[r].at \in Holding)
    BY <2>3 DEF Holding
  <2>. QED
    BY <2>1, <2>2, <2>3, <2>4, MoveQuota
<1>3. CASE key /\ HasQuota(req[r].now)
  <2>. DEFINE w == Reserved(req[r].now)
              q == [req[r] EXCEPT !.at = "reserved", !.start = w.start]
  <2>1. req[r].now \in 0 .. MaxTime
    BY <1>1 DEF Handler
  <2>2. /\ w \in Row
        /\ \/ row # NoRow /\ w.start = row.start /\ w.count = row.count + 1
           \/ /\ row # NoRow => row.start < req[r].now
              /\ w.start = req[r].now /\ w.count = 1
    BY <1>1, <1>3, <2>1, ReservedRow
  <2>3. /\ row' = w /\ UNCHANGED <<time, key, daily>>
        /\ req' = [req EXCEPT ![r].at = "reserved", ![r].start = row'.start]
        /\ late' = IF row # NoRow /\ row'.start = row.start THEN late ELSE 0
    BY <1>3 DEF TryReserve
  <2>. HIDE DEF w
  <2>4. req' = [req EXCEPT ![r] = q]
    BY <1>1, <2>3
  <2>5. w.start \in 0 .. MaxTime /\ w # NoRow
    BY <2>2, RowsAreNotNoRow DEF Row
  <2>6. q \in Handler /\ q.at = "reserved" /\ q.start = w.start
    BY <1>1, <2>5 DEF Handler, Stages
  <2>. HIDE DEF q
  <2>7. req' \in [Requests -> Handler]
    BY <1>1, <2>4, <2>6
  <2>8. req[r].at \notin Holding
    BY DEF TryReserve, Holding
  <2>9. /\ req'[r].at \in Holding /\ req'[r].start = w.start
        /\ \A x \in Requests \ {r} : req'[x] = req[x]
    BY <1>1, <2>4, <2>6 DEF Holding
  <2>10. late' \in Nat
    BY <1>1, <2>3 DEF QuotaTypeOK
  <2>11. QuotaTypeOK'
    BY <1>1, <2>2, <2>3, <2>7, <2>10 DEF QuotaTypeOK, Handler, Row
  <2>12. row # NoRow => row.start <= w.start
    BY <1>1, <2>1, <2>2, RowIsARow
  <2>13. Periods'
    <3>. SUFFICES ASSUME NEW x \in Requests, req'[x].at \in Holding
                  PROVE  req'[x].start <= w.start
      BY <2>3, <2>5 DEF Periods
    <3>1. CASE x = r
      BY <3>1, <2>9, <2>5
    <3>2. CASE x # r
      <4>1. req[x].at \in Holding /\ req'[x].start = req[x].start
        BY <3>2, <2>9
      <4>2. row # NoRow /\ req[x].start <= row.start
        BY <4>1, <1>3 DEF QuotaInv, Periods
      <4>3. req[x].start \in Int /\ row.start \in Int /\ w.start \in Int
        BY <1>1, <2>5, <4>2, RowIsARow DEF Handler
      <4>. QED
        BY <4>1, <4>2, <4>3, <2>12
    <3>. QED
      BY <3>1, <3>2
  <2>14. r \notin ChargedIn(w.start, req)
    BY <2>8 DEF ChargedIn
  <2>15. ChargedIn(w.start, req') = ChargedIn(w.start, req) \cup {r}
    BY <2>9 DEF ChargedIn
  <2>16. Cardinality(ChargedIn(w.start, req')) = Cardinality(ChargedIn(w.start, req)) + 1
    BY <2>14, <2>15, ChargeOne
  <2>17. CASE row # NoRow /\ w.start = row.start /\ w.count = row.count + 1
    <3>1. LET n == Cardinality(ChargedIn(row.start, req)) IN
          row.count <= n /\ n <= row.count + late /\ n \in Nat
      BY <2>17, ChargedFinite DEF QuotaInv, Meter
    <3>2. late' = late /\ late \in Nat /\ row.count \in Nat
      BY <1>1, <2>3, <2>17, RowIsARow DEF QuotaTypeOK
    <3>3. Meter'
      BY <2>3, <2>16, <2>17, <3>1, <3>2 DEF Meter
    <3>. QED
      BY <2>11, <2>13, <3>3 DEF QuotaInv
  <2>18. CASE /\ row # NoRow => row.start < req[r].now
              /\ w.start = req[r].now /\ w.count = 1
    <3>1. ChargedIn(w.start, req) = {}
      <4>. SUFFICES ASSUME NEW x \in ChargedIn(w.start, req) PROVE FALSE
        OBVIOUS
      <4>1. x \in Requests /\ req[x].at \in Holding /\ req[x].start = w.start
        BY DEF ChargedIn
      <4>2. row # NoRow /\ req[x].start <= row.start
        BY <4>1, <1>3 DEF QuotaInv, Periods
      <4>. QED
        BY <4>1, <4>2, <2>18, <2>5, <1>1, RowIsARow
    <3>2. Cardinality(ChargedIn(w.start, req')) = 1
      BY <2>16, <3>1, FS_EmptySet
    <3>3. Meter'
      BY <2>3, <2>18, <2>10, <3>2 DEF Meter
    <3>. QED
      BY <2>11, <2>13, <3>3 DEF QuotaInv
  <2>. QED
    BY <2>2, <2>17, <2>18
<1>. QED
  BY <1>2, <1>3

LEMMA ReleaseQuota ==
    ASSUME QuotaInv, NEW r \in Requests, Release(r)
    PROVE  QuotaInv'
<1>1. req \in [Requests -> Handler] /\ QuotaTypeOK /\ req[r].at = "releasing"
  BY DEF QuotaInv, QuotaTypeOK, Handler, Release
<1>2. CASE req' = [req EXCEPT ![r].at = "leaked"] /\ UNCHANGED <<row, late>>
  <2>1. UNCHANGED <<time, key, row, daily, late>> /\ daily' \in [Days -> Nat]
    BY <1>1, <1>2 DEF Release, QuotaTypeOK
  <2>2. "leaked" \in Stages /\ (("leaked" \in Holding) <=> (req[r].at \in Holding))
    BY <1>1 DEF Stages, Holding
  <2>. QED
    BY <1>2, <2>1, <2>2, MoveQuota
<1>3. CASE /\ row' = Released
           /\ late' = IF row # NoRow /\ row.start # req[r].start /\ row.count > 0
                     THEN late + 1 ELSE late
           /\ req' = [req EXCEPT ![r].at = "returned"]
  <2>. DEFINE q == [req[r] EXCEPT !.at = "returned"]
  <2>1. UNCHANGED <<time, key, daily>>
    BY DEF Release
  <2>2. req' = [req EXCEPT ![r] = q]
    BY <1>1, <1>3
  <2>3. q \in Handler /\ q.at \notin Holding
    BY <1>1 DEF Handler, Stages, Holding
  <2>. HIDE DEF q
  <2>4. req' \in [Requests -> Handler]
    BY <1>1, <2>2, <2>3
  <2>5. /\ req'[r].at \notin Holding
        /\ \A x \in Requests \ {r} : req'[x] = req[x]
    BY <1>1, <2>2, <2>3
  <2>6. late \in Nat /\ late' \in Nat
    BY <1>1, <1>3 DEF QuotaTypeOK
  <2>7. CASE row = NoRow
    <3>1. row' = NoRow
      BY <1>3, <2>7 DEF Released
    <3>2. QuotaTypeOK'
      BY <1>1, <2>1, <2>4, <2>6, <3>1 DEF QuotaTypeOK, Handler
    <3>3. Periods'
      BY <2>1, <2>5, <2>7, <3>1 DEF QuotaInv, Periods
    <3>. QED
      BY <3>1, <3>2, <3>3 DEF QuotaInv, Meter
  <2>8. CASE row # NoRow
    <3>1. row \in Row /\ row.count \in 0 .. Limit /\ row.start \in 0 .. MaxTime
      BY <1>1, <2>8, RowIsARow
    <3>2. row' = [row EXCEPT !.count = IF row.count > 0 THEN row.count - 1 ELSE 0]
      BY <1>3, <2>8 DEF Released
    <3>3. /\ row' \in Row /\ row'.start = row.start
          /\ row'.count = IF row.count > 0 THEN row.count - 1 ELSE 0
      BY <3>1, <3>2, QuotaAssumption DEF Row
    <3>4. row' # NoRow
      BY <3>3, RowsAreNotNoRow
    <3>5. QuotaTypeOK'
      BY <1>1, <2>1, <2>4, <2>6, <3>3 DEF QuotaTypeOK, Handler, Row
    <3>6. Periods'
      BY <2>1, <2>5, <2>8, <3>3, <3>4 DEF QuotaInv, Periods
    <3>7. LET n == Cardinality(ChargedIn(row.start, req)) IN
          row.count <= n /\ n <= row.count + late /\ n \in Nat
      BY <2>8, ChargedFinite DEF QuotaInv, Meter
    <3>8. CASE req[r].start = row.start
      <4>1. r \in ChargedIn(row.start, req)
        BY <1>1, <3>8 DEF ChargedIn, Holding
      <4>2. ChargedIn(row.start, req') = ChargedIn(row.start, req) \ {r}
        BY <2>5 DEF ChargedIn
      <4>3. Cardinality(ChargedIn(row.start, req')) = Cardinality(ChargedIn(row.start, req)) - 1
        BY <4>1, <4>2, ReturnOne
      <4>4. /\ Cardinality(ChargedIn(row.start, req')) \in Nat
            /\ late' = late
        BY <1>3, <3>8, ChargedFinite
      <4>5. Meter'
        BY <3>1, <3>3, <3>7, <4>3, <4>4, <2>6 DEF Meter
      <4>. QED
        BY <3>5, <3>6, <4>5 DEF QuotaInv
    <3>9. CASE req[r].start # row.start
      <4>1. ChargedIn(row.start, req') = ChargedIn(row.start, req)
        BY <2>5, <3>9 DEF ChargedIn
      <4>2. late' = IF row.count > 0 THEN late + 1 ELSE late
        BY <1>3, <2>8, <3>9
      <4>3. Meter'
        BY <3>1, <3>3, <3>7, <4>1, <4>2, <2>6 DEF Meter
      <4>. QED
        BY <3>5, <3>6, <4>3 DEF QuotaInv
    <3>. QED
      BY <3>8, <3>9
  <2>. QED
    BY <2>7, <2>8
<1>. QED
  BY <1>2, <1>3 DEF Release, Goto

\* The other steps of the handler keep a unit that is held.
LEMMA HandlerQuota ==
    ASSUME QuotaInv, NEW r \in Requests,
           RateLimited(r) \/ Send(r) \/ Answered(r) \/ RecordDaily(r) \/ Abort(r)
    PROVE  QuotaInv'
<1>1. UNCHANGED <<time, key, row, late>> /\ req[r].at \in Holding
  BY DEF RateLimited, Send, Answered, RecordDaily, Abort, Holding
<1>2. \E stage \in Holding : req' = [req EXCEPT ![r].at = stage]
  BY DEF RateLimited, Send, Answered, RecordDaily, Abort, Holding, Goto
<1>3. daily' \in [Days -> Nat]
  <2>1. daily \in [Days -> Nat]
    BY DEF QuotaInv, QuotaTypeOK
  <2>2. ASSUME NEW d PROVE [daily EXCEPT ![d] = @ + 1] \in [Days -> Nat]
    <3>1. CASE d \in Days
      BY <2>1, <3>1
    <3>2. CASE d \notin Days
      BY <2>1, <3>2
    <3>. QED
      BY <3>1, <3>2
  <2>. QED
    BY <2>1, <2>2 DEF RateLimited, Send, Answered, RecordDaily, Abort
<1>4. Holding \subseteq Stages
  BY DEF Holding, Stages
<1>. QED
  BY <1>1, <1>2, <1>3, <1>4, MoveQuota

LEMMA DeleteKeyQuota ==
    ASSUME QuotaInv, DeleteKey
    PROVE  QuotaInv'
<1>1. /\ row' = NoRow /\ key' = FALSE /\ daily' = [d \in Days |-> 0]
      /\ UNCHANGED <<time, req, late>>
  BY DEF DeleteKey
<1>2. QuotaTypeOK'
  BY <1>1 DEF QuotaInv, QuotaTypeOK
<1>. QED
  BY <1>1, <1>2 DEF QuotaInv, Periods, Meter

LEMMA TickQuota ==
    ASSUME QuotaInv, Tick
    PROVE  QuotaInv'
<1>1. time' \in 0 .. MaxTime /\ UNCHANGED <<key, row, daily, req, late>>
  BY QuotaAssumption DEF Tick, QuotaInv, QuotaTypeOK
<1>. QED
  BY <1>1 DEF QuotaInv, QuotaTypeOK, Periods, Meter, ChargedIn

LEMMA QuotaInductive == QuotaSpec => []QuotaInv
<1>1. QuotaInv /\ [QuotaNext]_quotaVars => QuotaInv'
  <2>. SUFFICES ASSUME QuotaInv, [QuotaNext]_quotaVars PROVE QuotaInv'
    OBVIOUS
  <2>1. CASE UNCHANGED quotaVars
    BY <2>1 DEF quotaVars, QuotaInv, QuotaTypeOK, Periods, Meter, ChargedIn
  <2>2. CASE QuotaNext
    BY <2>2, AuthenticateQuota, TryReserveQuota, ReleaseQuota, HandlerQuota,
       DeleteKeyQuota, TickQuota DEF QuotaNext
  <2>. QED
    BY <2>1, <2>2
<1>. QED
  BY <1>1, InitQuota, PTL DEF QuotaSpec

-----------------------------------------------------------------------------
(* The theorems.                                                           *)

\* The state of the gateway has its type: in particular the count of the row
\* never leaves 0 .. Limit, whatever release and try_reserve do to it
\* (usage.rs, try_reserve and release).
THEOREM QuotaTypeCorrect == QuotaSpec => []QuotaTypeOK
BY QuotaInductive, PTL DEF QuotaInv

\* In a period the gateway lets through at most the tier's limit, plus one
\* request for each unit given back late, and it charges for no request that
\* was turned away or given back (proxy_to_upstream with try_reserve, release).
THEOREM QuotaIsHeld == QuotaSpec => []QuotaHeld
<1>1. QuotaInv => QuotaHeld
  <2>. SUFFICES ASSUME QuotaInv PROVE QuotaHeld
    OBVIOUS
  <2>1. late \in Nat
    BY DEF QuotaInv, QuotaTypeOK
  <2>2. CASE row = NoRow
    <3>1. Cardinality(Charged) = 0
      BY <2>2, ChargedIsChargedIn, FS_EmptySet
    <3>. QED
      BY <2>1, <2>2, <3>1, QuotaAssumption DEF QuotaHeld
  <2>3. CASE row # NoRow
    <3>1. Charged = ChargedIn(row.start, req)
      BY <2>3, ChargedIsChargedIn
    <3>2. LET n == Cardinality(ChargedIn(row.start, req)) IN
          row.count <= n /\ n <= row.count + late /\ n \in Nat
      BY <2>3, ChargedFinite DEF QuotaInv, Meter
    <3>3. row.count \in 0 .. Limit
      BY <2>3, RowIsARow DEF QuotaInv
    <3>. QED
      BY <2>1, <3>1, <3>2, <3>3, QuotaAssumption DEF QuotaHeld
  <2>. QED
    BY <2>2, <2>3
<1>. QED
  BY <1>1, QuotaInductive, PTL

-----------------------------------------------------------------------------
(* Sessions and keys: types.                                               *)

Refresh == [at : {"idle", "status", "probe", "clear"}, key : Carried, live : BOOLEAN]

SignInState == [at : {"idle", "login", "status", "activate"},
                wallet : Tenant, nonce : Nonces \cup {None}, key : Carried]

PanelState == [at : {"idle", "revealed", "activate", "clear"}, key : Cookie]

Races == SUBSET {"overlap", "lapsed", "mixed"}

\* TypeOK is not inductive: what a key handler is about to activate is a key,
\* and what a login is signed for a wallet and a nonce.
Pending ==
    /\ signIn.at = "login" => signIn.nonce \in Nonces /\ signIn.wallet \in Wallets
    /\ signIn.at = "activate" => signIn.key \in Keys
    /\ panel.at \in {"revealed", "activate"} => panel.key \in Keys

\* The states that the actions write out are well typed.
LEMMA StateTypes ==
    /\ Idle \in Refresh /\ Closed \in PanelState /\ Resting \in SignInState
    /\ \A k \in Cookie : Presence(k) \in Carried /\ Started(k) \in Refresh
    /\ \A k \in Keys : k \in Carried /\ k \in Cookie
    /\ Cookie \subseteq Carried
  BY DEF Idle, Closed, Resting, Presence, Started, Carried, Cookie, Tenant,
         Refresh, SignInState, PanelState, NoKey, HasKey

\* The key-changed event starts at most one refresh.
LEMMA KeyChangedType ==
    ASSUME TypeOK, NEW slots \in [Slots -> Refresh], NEW now \in Cookie,
           KeyChanged(slots, now)
    PROVE  /\ refresh' \in [Slots -> Refresh]
           /\ races' \in Races
  <1>1. Started(now) \in Refresh /\ races \in Races
    BY StateTypes DEF TypeOK, Races
  <1>2. CASE Mounted
    <2>1. PICK s \in Slots :
             /\ refresh' = [slots EXCEPT ![s] = Started(now)]
             /\ races' = RacesAtStart(slots)
      BY <1>2 DEF KeyChanged
    <2>2. QED
      BY <1>1, <2>1 DEF RacesAtStart, Races
  <1>3. CASE ~Mounted
    BY <1>1, <1>3 DEF KeyChanged
  <1>4. QED
    BY <1>2, <1>3

\* TypeOK, by the names of the records.
LEMMA Types ==
    ASSUME TypeOK
    PROVE  /\ refresh \in [Slots -> Refresh]
           /\ signIn \in SignInState
           /\ panel \in PanelState
           /\ PanelLeft \in PanelState
           /\ Cancelled \in [Slots -> Refresh]
           /\ \A c : CookieAfterDelete(c) \in Cookie
  <1>1. refresh \in [Slots -> Refresh] /\ signIn \in SignInState /\ panel \in PanelState
    BY DEF TypeOK, Refresh, SignInState, PanelState
  <1>2. Cancelled \in [Slots -> Refresh]
    BY <1>1 DEF Cancelled, Refresh
  <1>3. PanelLeft \in PanelState
    BY <1>1, StateTypes DEF PanelLeft
  <1>4. \A c : CookieAfterDelete(c) \in Cookie
    BY DEF TypeOK, CookieAfterDelete, Cookie
  <1>5. QED
    BY <1>1, <1>2, <1>3, <1>4

\* A failing call is counted.
LEMMA FaultType ==
    ASSUME TypeOK, Fault \/ UNCHANGED faults
    PROVE  faults' \in 0 .. MaxFaults
  BY SessionAssumption DEF TypeOK, Fault

\* The gate's refreshes keep the types.
LEMMA RefreshTypes ==
    ASSUME TypeOK, NEW s \in Slots,
           RefreshStatus(s) \/ RefreshProbe(s) \/ RefreshClear(s)
    PROVE  TypeOK'
  <1>1. UNCHANGED <<nonce, logins, owner, session, ended, me, signIn, clear, panel, prefixes>>
    BY DEF RefreshStatus, RefreshProbe, RefreshClear, gatewayVars, sessionVars, signVars
  <1>2. faults' \in 0 .. MaxFaults
    BY FaultType DEF RefreshStatus, RefreshProbe, RefreshClear, FaultUnless
  <1>3. gate' \in {"away", "unknown", "open", "closed"}
    BY DEF RefreshStatus, RefreshProbe, RefreshClear, SetStatus, TypeOK
  <1>4. cookie' \in Cookie
    BY Types DEF RefreshStatus, RefreshProbe, RefreshClear, TypeOK
  <1>5. [refresh EXCEPT ![s] = Idle] \in [Slots -> Refresh]
    BY Types, StateTypes
  <1>6. /\ refresh' \in [Slots -> Refresh]
        /\ races' \in Races
    <2>1. CASE RefreshStatus(s)
      <3>1. races' = races /\ races \in Races
        BY <2>1 DEF RefreshStatus, TypeOK, Races
      <3>2. CASE refresh' = [refresh EXCEPT ![s].at = "probe", ![s].key = cookie]
        <4>1. cookie \in Carried
          BY StateTypes DEF TypeOK
        <4>2. QED
          BY <3>1, <3>2, <4>1, Types DEF Refresh
      <3>3. QED
        BY <1>5, <2>1, <3>1, <3>2 DEF RefreshStatus
    <2>2. CASE RefreshProbe(s)
      <3>1. races' = races /\ races \in Races
        BY <2>2 DEF RefreshProbe, TypeOK, Races
      <3>2. CASE refresh' = [refresh EXCEPT ![s].at = "clear", ![s].key = Presence(cookie)]
        <4>1. Presence(cookie) \in Carried
          BY StateTypes DEF TypeOK
        <4>2. QED
          BY <3>1, <3>2, <4>1, Types DEF Refresh
      <3>3. QED
        BY <1>5, <2>2, <3>1, <3>2 DEF RefreshProbe
    <2>3. CASE RefreshClear(s)
      <3>1. CASE KeyChanged([refresh EXCEPT ![s] = Idle], cookie')
        BY <1>4, <1>5, <3>1, KeyChangedType
      <3>2. CASE refresh' = [refresh EXCEPT ![s] = Idle] /\ UNCHANGED races
        BY <1>5, <3>2 DEF TypeOK, Races
      <3>3. QED
        BY <2>3, <3>1, <3>2 DEF RefreshClear
    <2>4. QED
      BY <2>1, <2>2, <2>3
  <1>7. QED
    BY <1>1, <1>2, <1>3, <1>4, <1>6 DEF TypeOK, Refresh, Races

LEMMA MountTypes ==
    ASSUME TypeOK, MountGate \/ UnmountGate
    PROVE  TypeOK'
  <1>1. UNCHANGED <<nonce, logins, owner, session, ended, cookie, me, signIn, clear,
                    prefixes, faults>>
    BY DEF MountGate, UnmountGate, gatewayVars, sessionVars, signVars
  <1>2. /\ gate' \in {"away", "unknown", "open", "closed"}
        /\ panel' \in PanelState
        /\ races' \in Races
    BY Types DEF MountGate, UnmountGate, TypeOK, RacesAtStart, Races
  <1>3. refresh' \in [Slots -> Refresh]
    <2>1. Started(cookie) \in Refresh
      BY StateTypes DEF TypeOK
    <2>2. QED
      BY <2>1, Types DEF MountGate, UnmountGate
  <1>4. QED
    BY <1>1, <1>2, <1>3 DEF TypeOK, Refresh, PanelState, Races

\* So do the steps of the sign-in before the cookie is set.
LEMMA SignInTypes ==
    ASSUME TypeOK, Pending,
           \/ \E w \in Wallets, n \in Nonces : StartSignIn(w, n)
           \/ \E n \in Nonces : NonceExpires(n) \/ LoginAgain(n)
           \/ Reject \/ Login
    PROVE  TypeOK'
  <1>1. UNCHANGED <<owner, cookie, clear, gate, panel, prefixes, me, refresh, faults>>
    BY DEF StartSignIn, NonceExpires, LoginAgain, Reject, Login, SignInRest
  <1>2. nonce' \in [Nonces -> {"new", "pending", "gone"}]
    BY DEF StartSignIn, NonceExpires, LoginAgain, Reject, Login, Consume, TypeOK
  <1>3. logins' \in [Nonces -> Nat]
    <2>1. CASE Login
      BY <2>1 DEF Login, TypeOK, Pending
    <2>2. ASSUME NEW n \in Nonces, LoginAgain(n)
          PROVE  logins' \in [Nonces -> Nat]
      BY <2>2 DEF LoginAgain, TypeOK
    <2>3. QED
      BY <2>1, <2>2 DEF StartSignIn, NonceExpires, Reject, TypeOK
  <1>4. /\ session' \in Tenant /\ ended' \in Tenant
        /\ races' \in Races
    BY DEF StartSignIn, NonceExpires, LoginAgain, Reject, Login, TypeOK, Races,
           sessionVars, Tenant
  <1>5. signIn' \in SignInState
    <2>1. signIn \in SignInState /\ Resting \in SignInState
      BY Types, StateTypes
    <2>2. ASSUME NEW w \in Wallets, NEW n \in Nonces, StartSignIn(w, n)
          PROVE  signIn' \in SignInState
      BY <2>1, <2>2 DEF StartSignIn, SignInState, Tenant
    <2>3. CASE Login
      <3>1. Presence(cookie) \in Carried
        BY StateTypes DEF TypeOK
      <3>2. QED
        BY <2>1, <2>3, <3>1 DEF Login, SignInState
    <2>4. CASE Reject \/ \E n \in Nonces : NonceExpires(n) \/ LoginAgain(n)
      BY <2>1, <2>4 DEF Reject, NonceExpires, LoginAgain
    <2>5. QED
      BY <2>2, <2>3, <2>4
  <1>6. QED
    BY <1>1, <1>2, <1>3, <1>4, <1>5 DEF TypeOK, SignInState, Races

\* And its last two steps, which mint and activate a key.
LEMMA SignInKeyTypes ==
    ASSUME TypeOK, Pending, SignInCreate \/ SignInActivate
    PROVE  TypeOK'
  <1>1. UNCHANGED <<nonce, logins, session, ended, me, clear, gate, panel, prefixes>>
    BY DEF SignInCreate, SignInActivate, gatewayVars, sessionVars
  <1>2. faults' \in 0 .. MaxFaults
    BY FaultType DEF SignInCreate, SignInActivate, FaultUnless
  <1>3. owner' \in [Keys -> Wallets \cup {None, Revoked}]
    BY DEF SignInCreate, SignInActivate, Mint, TypeOK, Tenant, gatewayVars
  <1>4. signIn' \in SignInState
    BY StateTypes DEF SignInCreate, SignInActivate, SignInState
  <1>5. /\ cookie' \in Cookie
        /\ refresh' \in [Slots -> Refresh]
        /\ races' \in Races
    <2>1. UNCHANGED <<cookie, refresh, races>> => /\ cookie' \in Cookie
                                                  /\ refresh' \in [Slots -> Refresh]
                                                  /\ races' \in Races
      BY Types DEF TypeOK, Races
    <2>2. CASE SignInCreate
      BY <2>1, <2>2 DEF SignInCreate
    <2>3. CASE SignInActivate /\ cookie' = signIn.key /\ KeyChanged(refresh, cookie')
      <3>1. cookie' \in Cookie
        BY <2>3, StateTypes DEF Pending, SignInActivate
      <3>2. QED
        BY <2>3, <3>1, Types, KeyChangedType
    <2>4. QED
      BY <2>1, <2>2, <2>3 DEF SignInActivate
  <1>6. QED
    BY <1>1, <1>2, <1>3, <1>4, <1>5 DEF TypeOK, SignInState, Refresh, Races

LEMMA AccountTypes ==
    ASSUME TypeOK, FetchMe \/ SignOut \/ Cleared
    PROVE  TypeOK'
  <1>1. UNCHANGED <<nonce, logins, owner, signIn, prefixes>>
    BY DEF FetchMe, SignOut, Cleared, gatewayVars, signVars
  <1>2. faults' \in 0 .. MaxFaults
    BY FaultType DEF FetchMe, SignOut, Cleared
  <1>3. /\ session' \in Tenant /\ ended' \in Tenant /\ me' \in Tenant
        /\ gate' \in {"away", "unknown", "open", "closed"}
        /\ clear' \in {"none", NoKey, HasKey}
    BY DEF FetchMe, SignOut, Cleared, TypeOK, Tenant, Presence, signVars, sessionVars
  <1>4. panel' \in PanelState /\ cookie' \in Cookie
    BY Types DEF FetchMe, SignOut, Cleared, TypeOK
  <1>5. /\ refresh' \in [Slots -> Refresh]
        /\ races' \in Races
    <2>1. CASE FetchMe \/ SignOut
      BY <2>1, Types DEF FetchMe, SignOut, TypeOK, Races
    <2>2. CASE Cleared /\ KeyChanged(refresh, cookie')
      BY <1>4, <2>2, Types, KeyChangedType
    <2>3. CASE Cleared /\ races' = races \cup {"mixed"} /\ UNCHANGED refresh
      BY <2>3, Types DEF TypeOK, Races
    <2>4. QED
      BY <2>1, <2>2, <2>3 DEF Cleared
  <1>6. QED
    BY <1>1, <1>2, <1>3, <1>4, <1>5 DEF TypeOK, SignInState, Refresh, PanelState, Races

\* The key panel and the closed gate: the steps that leave the cookie.
KeyStep ==
    \/ RunCreate \/ HandleCreate \/ DismissReveal \/ HandleConfirmReveal
    \/ \E k \in Keys : Paste(k) \/ Revoke(k)

LEMMA PanelTypes ==
    ASSUME TypeOK, KeyStep
    PROVE  TypeOK'
  <1> USE DEF KeyStep, RunCreate, HandleCreate, CreateKey, DismissReveal,
              HandleConfirmReveal, PutAway, Paste, Revoke, PanelRest, sessionVars, signVars
  <1>1. UNCHANGED <<nonce, logins, session, ended, cookie, me, signIn, clear, gate, refresh>>
    OBVIOUS
  <1>2. faults' \in 0 .. MaxFaults
    BY FaultType DEF FaultUnless
  <1>3. /\ owner' \in [Keys -> Wallets \cup {None, Revoked}]
        /\ prefixes' \in SUBSET Keys
        /\ races' \in Races
    BY DEF TypeOK, Mint, Tenant, Remember, Forget, Races
  <1>4. panel' \in PanelState
    BY Types DEF PanelState, Cookie
  <1>5. QED
    BY <1>1, <1>2, <1>3, <1>4 DEF TypeOK, PanelState, Races

LEMMA PanelKeyTypes ==
    ASSUME TypeOK, KeyActivated \/ RevokedCleared
    PROVE  TypeOK'
  <1>1. UNCHANGED <<nonce, logins, owner, session, ended, me, signIn, clear, gate, prefixes>>
    BY DEF KeyActivated, RevokedCleared, PanelRest, sessionVars, signVars
  <1>2. faults' \in 0 .. MaxFaults
    BY FaultType DEF KeyActivated, RevokedCleared
  <1>3. panel' \in PanelState
    BY Types, StateTypes DEF KeyActivated, RevokedCleared, PanelState
  <1>4. cookie' \in Cookie
    BY Types DEF KeyActivated, RevokedCleared, TypeOK, PanelState
  <1>5. /\ refresh' \in [Slots -> Refresh]
        /\ races' \in Races
    <2>1. CASE KeyChanged(refresh, cookie')
      BY <1>4, <2>1, Types, KeyChangedType
    <2>2. CASE UNCHANGED <<refresh, races>>
      BY <2>2, Types DEF TypeOK, Races
    <2>3. QED
      BY <2>1, <2>2 DEF KeyActivated, RevokedCleared
  <1>6. QED
    BY <1>1, <1>2, <1>3, <1>4, <1>5 DEF TypeOK, Refresh, PanelState, Races

\* A page that is refused, and what happens to the browser.
BrowserStep == PageRefused \/ SessionExpires \/ KeyExpires \/ Reload

LEMMA BrowserTypes ==
    ASSUME TypeOK, BrowserStep
    PROVE  TypeOK'
  <1>1. UNCHANGED <<nonce, logins, owner, prefixes>>
    BY DEF BrowserStep, PageRefused, SessionExpires, KeyExpires, Reload, BrowserRest,
           gatewayVars
  <1>2. faults' \in 0 .. MaxFaults
    BY FaultType DEF BrowserStep, PageRefused, SessionExpires, KeyExpires, Reload,
           BrowserRest, FaultUnless
  <1>3. /\ session' \in Tenant /\ ended' \in Tenant /\ me' \in Tenant
        /\ cookie' \in Cookie
        /\ gate' \in {"away", "unknown", "open", "closed"}
        /\ clear' \in {"none", NoKey, HasKey}
        /\ races' \in Races
    BY DEF BrowserStep, PageRefused, SessionExpires, KeyExpires, Reload, TypeOK, Races,
           sessionVars, signVars, Tenant, Cookie
  <1>4. refresh' \in [Slots -> Refresh]
    <2>1. Presence(cookie) \in Carried /\ Idle \in Refresh
      BY StateTypes DEF TypeOK
    <2>2. [at |-> "clear", key |-> Presence(cookie), live |-> FALSE] \in Refresh
      BY <2>1 DEF Refresh
    <2>3. QED
      BY <2>1, <2>2, Types DEF BrowserStep, PageRefused, SessionExpires, KeyExpires, Reload
  <1>5. signIn' \in SignInState /\ panel' \in PanelState
    BY Types, StateTypes DEF BrowserStep, PageRefused, SessionExpires, KeyExpires, Reload,
           signVars
  <1>6. QED
    BY <1>1, <1>2, <1>3, <1>4, <1>5 DEF TypeOK, Refresh, SignInState, PanelState, Races

\* The steps of Next, in the groups the lemmas treat.
LEMMA Steps ==
    ASSUME Next
    PROVE  \/ \E s \in Slots : RefreshStatus(s) \/ RefreshProbe(s) \/ RefreshClear(s)
           \/ MountGate \/ UnmountGate
           \/ \/ \E w \in Wallets, n \in Nonces : StartSignIn(w, n)
              \/ \E n \in Nonces : NonceExpires(n) \/ LoginAgain(n)
              \/ Reject \/ Login
           \/ SignInCreate \/ SignInActivate
           \/ FetchMe \/ SignOut \/ Cleared
           \/ KeyStep
           \/ KeyActivated \/ RevokedCleared
           \/ BrowserStep
  BY DEF Next, KeyStep, BrowserStep

\* The sign-in's later states, written out.
LEMMA SignInStates ==
    ASSUME NEW k, NEW at
    PROVE  /\ [Resting EXCEPT !.at = at, !.key = k].at = at
           /\ [Resting EXCEPT !.at = at, !.key = k].key = k
           /\ Resting.at = "idle"
  BY DEF Resting

\* What is pending stays a key, a wallet or a nonce.
LEMMA NextPending ==
    ASSUME TypeOK, Pending, [Next]_vars
    PROVE  Pending'
  <1>1. CASE UNCHANGED vars
    BY <1>1 DEF vars, signVars, Pending
  <1>2. ASSUME NEW s \in Slots, RefreshStatus(s) \/ RefreshProbe(s) \/ RefreshClear(s)
        PROVE  Pending'
    BY <1>2 DEF RefreshStatus, RefreshProbe, RefreshClear, signVars, Pending
  <1>3. CASE MountGate \/ UnmountGate
    BY <1>3 DEF MountGate, UnmountGate, signVars, PanelLeft, Closed, Pending
  <1>4. CASE \/ \E w \in Wallets, n \in Nonces : StartSignIn(w, n)
             \/ \E n \in Nonces : NonceExpires(n) \/ LoginAgain(n)
             \/ Reject \/ Login
    <2>1. panel' = panel
      BY <1>4 DEF StartSignIn, NonceExpires, LoginAgain, Reject, Login, SignInRest
    <2>2. ASSUME NEW w \in Wallets, NEW n \in Nonces, StartSignIn(w, n)
          PROVE  Pending'
      BY <2>1, <2>2 DEF StartSignIn, Resting, Pending
    <2>3. CASE Reject \/ Login
      <3>1. signIn' = Resting \/ signIn'.at = "status"
        <4>1. \/ signIn' = Resting
              \/ signIn' = [Resting EXCEPT !.at = "status", !.key = Presence(cookie)]
          BY <2>3 DEF Reject, Login
        <4>2. [Resting EXCEPT !.at = "status", !.key = Presence(cookie)].at = "status"
          BY SignInStates
        <4>3. QED
          BY <4>1, <4>2
      <3>2. QED
        BY <2>1, <3>1 DEF Resting, Pending
    <2>4. CASE \E n \in Nonces : NonceExpires(n) \/ LoginAgain(n)
      BY <2>1, <2>4 DEF NonceExpires, LoginAgain, Pending
    <2>5. QED
      BY <1>4, <2>2, <2>3, <2>4
  <1>5. CASE SignInCreate \/ SignInActivate
    <2>1. /\ panel' = panel
          /\ \/ signIn' = Resting
             \/ \E k \in Keys : signIn' = [Resting EXCEPT !.at = "activate", !.key = k]
      BY <1>5 DEF SignInCreate, SignInActivate
    <2>2. QED
      <3>1. \/ signIn'.at = "idle"
            \/ signIn'.at = "activate" /\ signIn'.key \in Keys
        BY <2>1, SignInStates DEF Resting
      <3>2. QED
        BY <2>1, <3>1 DEF Pending
  <1>6. CASE FetchMe \/ SignOut \/ Cleared
    BY <1>6 DEF FetchMe, SignOut, Cleared, signVars, PanelLeft, Closed, Pending
  <1>7. CASE KeyStep
    BY <1>7, Types DEF KeyStep, RunCreate, HandleCreate, CreateKey, DismissReveal,
        HandleConfirmReveal, PutAway, Paste, Revoke, PanelRest, signVars, Pending,
        PanelState
  <1>8. CASE KeyActivated \/ RevokedCleared
    BY <1>8, Types DEF KeyActivated, RevokedCleared, PanelRest, signVars, Closed,
        Pending, PanelState
  <1>9. CASE BrowserStep
    BY <1>9 DEF BrowserStep, PageRefused, SessionExpires, KeyExpires, Reload, signVars,
        Resting, Closed, Pending
  <1>10. QED
    BY <1>1, <1>2, <1>3, <1>4, <1>5, <1>6, <1>7, <1>8, <1>9, Steps

\* The state is typed, and a handler that is to set the cookie has a key to set:
\* at the gateway, in the browser's cookies and caches, and in what is in flight.
THEOREM TypeCorrect == Spec => [](TypeOK /\ Pending)
  <1>1. Init => TypeOK /\ Pending
    <2> SUFFICES ASSUME Init PROVE TypeOK /\ Pending
      OBVIOUS
    <2>1. refresh \in [Slots -> Refresh] /\ signIn \in SignInState /\ panel \in PanelState
      BY StateTypes DEF Init
    <2>2. TypeOK
      BY <2>1, SessionAssumption DEF Init, TypeOK, Refresh, SignInState, PanelState,
          Tenant, Cookie
    <2>3. Pending
      BY DEF Init, Resting, Closed, Pending
    <2>4. QED
      BY <2>2, <2>3
  <1>2. TypeOK /\ Pending /\ [Next]_vars => TypeOK' /\ Pending'
    <2> SUFFICES ASSUME TypeOK, Pending, [Next]_vars PROVE TypeOK'
      BY NextPending
    <2>1. CASE UNCHANGED vars
      BY <2>1 DEF vars, gatewayVars, sessionVars, signVars, TypeOK
    <2>2. CASE Next
      BY <2>2, Steps, RefreshTypes, MountTypes, SignInTypes, SignInKeyTypes,
         AccountTypes, PanelTypes, PanelKeyTypes, BrowserTypes
    <2>3. QED
      BY <2>1, <2>2
  <1>3. QED
    BY <1>1, <1>2, PTL DEF Spec

-----------------------------------------------------------------------------
(* A nonce buys one session.                                               *)

\* A session was issued against a nonce only once the store had let go of it.
NonceSpent ==
    \A n \in Nonces : /\ logins[n] <= 1
                      /\ nonce[n] # "gone" => logins[n] = 0

LEMMA NextNonceSpent ==
    ASSUME TypeOK, Pending, NonceSpent, [Next]_vars
    PROVE  NonceSpent'
  <1>1. CASE UNCHANGED <<nonce, logins>>
    BY <1>1 DEF NonceSpent
  <1>2. ASSUME NEW w \in Wallets, NEW n \in Nonces, StartSignIn(w, n)
        PROVE  NonceSpent'
    BY <1>2 DEF StartSignIn, NonceSpent, TypeOK
  <1>3. ASSUME NEW n \in Nonces, NonceExpires(n)
        PROVE  NonceSpent'
    BY <1>3 DEF NonceExpires, NonceSpent, TypeOK
  <1>4. ASSUME NEW n \in Nonces, LoginAgain(n)
        PROVE  NonceSpent'
    BY <1>4 DEF LoginAgain, Consume, NonceSpent, TypeOK
  <1>5. CASE Login
    <2>1. signIn.nonce \in Nonces
      BY <1>5 DEF Login, Pending
    <2>2. QED
      BY <1>5, <2>1 DEF Login, Consume, NonceSpent, TypeOK
  <1>6. CASE UNCHANGED vars
    BY <1>1, <1>6 DEF vars, gatewayVars
  <1>7. ASSUME NEW s \in Slots, RefreshStatus(s) \/ RefreshProbe(s) \/ RefreshClear(s)
        PROVE  UNCHANGED <<nonce, logins>>
    BY <1>7 DEF RefreshStatus, RefreshProbe, RefreshClear, gatewayVars
  <1>8. CASE MountGate \/ UnmountGate \/ FetchMe \/ SignOut \/ Cleared \/ Reject
             \/ SignInCreate \/ SignInActivate
    BY <1>1, <1>8 DEF MountGate, UnmountGate, FetchMe, SignOut, Cleared, Reject,
        SignInCreate, SignInActivate, gatewayVars
  <1>9. CASE KeyStep \/ KeyActivated \/ RevokedCleared
    BY <1>1, <1>9 DEF KeyStep, RunCreate, HandleCreate, CreateKey, DismissReveal,
        HandleConfirmReveal, PutAway, Paste, Revoke, KeyActivated, RevokedCleared, PanelRest
  <1>10. CASE BrowserStep
    BY <1>1, <1>10 DEF BrowserStep, PageRefused, SessionExpires, KeyExpires, Reload,
        BrowserRest, gatewayVars
  <1>11. QED
    BY <1>1, <1>2, <1>3, <1>4, <1>5, <1>6, <1>7, <1>8, <1>9, <1>10, Steps

\* However often the signed login is delivered, by the sign-in or by a resend,
\* and whether or not the nonce expires in between, consume lets one through.
THEOREM NonceBuysOneSession == Spec => []OneLoginPerNonce
  <1>1. Init => NonceSpent
    BY DEF Init, NonceSpent
  <1>2. NonceSpent => OneLoginPerNonce
    BY DEF NonceSpent, OneLoginPerNonce
  <1>3. TypeOK /\ Pending /\ NonceSpent /\ [Next]_vars => NonceSpent'
    BY NextNonceSpent
  <1>4. QED
    BY <1>1, <1>2, <1>3, TypeCorrect, PTL DEF Spec

-----------------------------------------------------------------------------
(* What the gate shows.                                                    *)

Busy(slots, s) == slots[s].at # "idle"

\* A live refresh is one of the gate that is mounted.
LiveMeansMounted == \A s \in Slots : refresh[s].live => Busy(refresh, s) /\ Mounted

\* A gate that is undecided has a refresh in flight that will set its status.
UnknownIsDecided ==
    gate = "unknown" => \E s \in Slots : Busy(refresh, s) /\ refresh[s].live

\* The last refresh started alone, and the key has not run out since.
Calm == {"overlap", "lapsed"} \cap races = {}

\* Then a refresh of the mounted gate saw the cookie as it still is, and a key
\* deleted behind an open gate is being looked at again.
SawCookie ==
    \A s \in Slots : refresh[s].live =>
        /\ refresh[s].at = "status" => refresh[s].key = Presence(cookie)
        /\ refresh[s].at = "probe" => cookie # None /\ refresh[s].key = cookie

Reread ==
    gate = "open" /\ cookie = None
    => \E s \in Slots : Busy(refresh, s) /\ refresh[s].live

GateInv ==
    /\ LiveMeansMounted
    /\ UnknownIsDecided
    /\ Calm => SawCookie /\ Reread

\* The refreshes in slots, and one more started under the cookie of now.
Restarted(slots) ==
    \E s \in Slots :
        /\ ~Busy(slots, s)
        /\ refresh' = [slots EXCEPT ![s] = Started(cookie')]
        /\ races' = RacesAtStart(slots)

\* A mounted gate that starts over knows what it will know.
LEMMA RestartedGate ==
    ASSUME NEW slots \in [Slots -> Refresh], cookie' \in Cookie, Mounted',
           \A s \in Slots : slots[s].live => Busy(slots, s),
           Restarted(slots)
    PROVE  GateInv'
  <1>1. PICK s \in Slots :
           /\ ~Busy(slots, s)
           /\ refresh' = [slots EXCEPT ![s] = Started(cookie')]
           /\ races' = RacesAtStart(slots)
    BY DEF Restarted
  <1>2. /\ Started(cookie').at = "status"
        /\ Started(cookie').key = Presence(cookie')
        /\ Started(cookie').live = TRUE
    BY DEF Started
  <1>3. /\ refresh'[s] = Started(cookie')
        /\ \A t \in Slots : t # s => refresh'[t] = slots[t]
    BY <1>1
  <1>4. (\E t \in Slots : Busy(refresh, t) /\ refresh[t].live)'
    BY <1>2, <1>3 DEF Busy
  <1>5. LiveMeansMounted'
    BY <1>2, <1>3 DEF LiveMeansMounted, Busy
  <1>6. ASSUME Calm' PROVE SawCookie'
    <2>1. \A t \in Slots : ~Busy(slots, t)
      BY <1>1, <1>6 DEF Calm, RacesAtStart, Busy
    <2>2. \A t \in Slots : t # s => ~Busy(refresh, t)' /\ ~refresh'[t].live
      BY <1>3, <2>1 DEF Busy, Refresh
    <2>3. QED
      BY <1>2, <1>3, <2>2 DEF SawCookie
  <1>7. QED
    BY <1>4, <1>5, <1>6 DEF GateInv, UnknownIsDecided, Reread

\* The key-changed event keeps what is known, whatever the cookie became.
LEMMA KeyChangedGate ==
    ASSUME TypeOK, NEW slots \in [Slots -> Refresh], cookie' \in Cookie,
           gate' = "away" <=> gate = "away",
           \A s \in Slots : slots[s].live => Busy(slots, s) /\ Mounted,
           KeyChanged(slots, cookie')
    PROVE  GateInv'
  <1>1. CASE Mounted
    <2>1. Restarted(slots) /\ Mounted'
      BY <1>1 DEF KeyChanged, Restarted, Busy, Mounted
    <2>2. QED
      BY <2>1, RestartedGate
  <1>2. CASE ~Mounted
    <2>1. refresh' = slots /\ races' = races /\ gate' = "away"
      BY <1>2 DEF KeyChanged, Mounted
    <2>2. \A s \in Slots : ~refresh'[s].live
      BY <1>2, <2>1
    <2>3. QED
      BY <2>1, <2>2 DEF GateInv, LiveMeansMounted, UnknownIsDecided, SawCookie, Reread
  <1>3. QED
    BY <1>1, <1>2

\* A step that touches neither the gate, nor its refreshes, nor the cookie.
LEMMA QuietGate ==
    ASSUME GateInv, UNCHANGED <<gate, refresh, cookie>>, races \subseteq races'
    PROVE  GateInv'
  <1>1. gate' = gate /\ refresh' = refresh /\ cookie' = cookie
    OBVIOUS
  <1>2. Calm' => Calm
    BY DEF Calm
  <1>3. QED
    BY <1>1, <1>2 DEF GateInv, LiveMeansMounted, UnknownIsDecided, Busy, SawCookie,
        Reread, Mounted

\* The gate's page is gone, and with it whatever its refreshes were to set.
LEMMA LeaveGate ==
    ASSUME gate' = "away", \A s \in Slots : ~refresh'[s].live
    PROVE  GateInv'
  BY DEF GateInv, LiveMeansMounted, UnknownIsDecided, SawCookie, Reread

\* A refresh ends and sets the status of its gate, if it is still that gate's; a
\* gate it opens has a key.
LEMMA EndedGate ==
    ASSUME TypeOK, GateInv, NEW s \in Slots, Busy(refresh, s), NEW status,
           refresh' = [refresh EXCEPT ![s] = Idle], SetStatus(s, status),
           status \in {"open", "closed"}, UNCHANGED <<cookie, races>>,
           Calm /\ refresh[s].live /\ status = "open" => cookie # None
    PROVE  GateInv'
  <1>1. /\ refresh'[s] = Idle
        /\ \A t \in Slots : t # s => refresh'[t] = refresh[t]
    BY Types
  <1>2. Idle.at = "idle" /\ Idle.live = FALSE
    BY DEF Idle
  <1>3. cookie' = cookie /\ races' = races
    OBVIOUS
  <1>4. LiveMeansMounted'
    BY <1>1, <1>2 DEF LiveMeansMounted, GateInv, SetStatus, Mounted, Busy
  <1>5. UnknownIsDecided'
    BY <1>1, <1>2 DEF UnknownIsDecided, GateInv, SetStatus, Busy
  <1>6. ASSUME Calm' PROVE SawCookie' /\ Reread'
    <2>1. Calm
      BY <1>3, <1>6 DEF Calm
    <2>2. SawCookie'
      BY <1>1, <1>2, <1>3, <2>1 DEF GateInv, SawCookie
    <2>3. Reread'
      <3>1. CASE refresh[s].live
        BY <1>3, <2>1, <3>1 DEF SetStatus, Reread
      <3>2. CASE ~refresh[s].live
        BY <1>1, <1>3, <2>1, <3>2 DEF SetStatus, GateInv, Reread, Busy
      <3>3. QED
        BY <3>1, <3>2
    <2>4. QED
      BY <2>2, <2>3
  <1>7. QED
    BY <1>4, <1>5, <1>6 DEF GateInv

\* A refresh goes on to its next call with the key it now carries.
LEMMA GoesOnGate ==
    ASSUME TypeOK, GateInv, NEW s \in Slots, Busy(refresh, s), NEW at, NEW carried,
           refresh' = [refresh EXCEPT ![s].at = at, ![s].key = carried],
           at \in {"probe", "clear"}, UNCHANGED <<gate, cookie, races>>,
           Calm /\ refresh[s].live /\ at = "probe"
               => cookie # None /\ carried = cookie
    PROVE  GateInv'
  <1>1. /\ refresh'[s].at = at /\ refresh'[s].key = carried
        /\ refresh'[s].live = refresh[s].live
        /\ \A t \in Slots : t # s => refresh'[t] = refresh[t]
    BY Types DEF Refresh
  <1>2. \A t \in Slots : /\ Busy(refresh, t)' <=> Busy(refresh, t)
                         /\ refresh'[t].live = refresh[t].live
    BY <1>1 DEF Busy
  <1>3. cookie' = cookie /\ races' = races /\ gate' = gate
    OBVIOUS
  <1>4. LiveMeansMounted' /\ UnknownIsDecided'
    BY <1>2, <1>3 DEF GateInv, LiveMeansMounted, UnknownIsDecided, Mounted
  <1>5. ASSUME Calm' PROVE SawCookie' /\ Reread'
    <2>1. Calm
      BY <1>3, <1>5 DEF Calm
    <2>2. SawCookie'
      BY <1>1, <1>3, <2>1 DEF GateInv, SawCookie
    <2>3. Reread'
      BY <1>2, <1>3, <2>1 DEF GateInv, Reread
    <2>4. QED
      BY <2>2, <2>3
  <1>6. QED
    BY <1>4, <1>5 DEF GateInv

\* The three calls of a refresh.
LEMMA RefreshGate ==
    ASSUME TypeOK, TypeOK', GateInv, NEW s \in Slots,
           RefreshStatus(s) \/ RefreshProbe(s) \/ RefreshClear(s)
    PROVE  GateInv'
  <1>1. Busy(refresh, s)
    BY DEF RefreshStatus, RefreshProbe, RefreshClear, Busy
  <1>2. CASE RefreshStatus(s)
    <2>1. UNCHANGED <<cookie, races>>
      BY <1>2 DEF RefreshStatus
    <2>2. CASE /\ refresh[s].key = HasKey /\ UNCHANGED gate
               /\ refresh' = [refresh EXCEPT ![s].at = "probe", ![s].key = cookie]
      <3>1. Calm /\ refresh[s].live => cookie # None
        BY <1>2, <2>2 DEF RefreshStatus, GateInv, SawCookie, Presence, HasKey, NoKey
      <3>2. QED
        BY <1>1, <2>1, <2>2, <3>1, GoesOnGate
    <2>3. CASE refresh' = [refresh EXCEPT ![s] = Idle] /\ SetStatus(s, "closed")
      BY <1>1, <2>1, <2>3, EndedGate
    <2>4. QED
      BY <1>2, <2>2, <2>3 DEF RefreshStatus
  <1>3. CASE RefreshProbe(s)
    <2>1. UNCHANGED <<cookie, races>>
      BY <1>3 DEF RefreshProbe
    <2>2. CASE /\ UNCHANGED gate
               /\ refresh' = [refresh EXCEPT ![s].at = "clear", ![s].key = Presence(cookie)]
      BY <1>1, <2>1, <2>2, GoesOnGate
    <2>3. CASE refresh' = [refresh EXCEPT ![s] = Idle] /\ SetStatus(s, "open")
      <3>1. Calm /\ refresh[s].live => cookie # None
        BY <1>3 DEF RefreshProbe, GateInv, SawCookie
      <3>2. QED
        BY <1>1, <2>1, <2>3, <3>1, EndedGate
    <2>4. CASE refresh' = [refresh EXCEPT ![s] = Idle] /\ SetStatus(s, "closed")
      BY <1>1, <2>1, <2>4, EndedGate
    <2>5. QED
      BY <1>3, <2>2, <2>3, <2>4 DEF RefreshProbe
  <1>4. CASE RefreshClear(s)
    <2>1. SetStatus(s, "closed")
      BY <1>4 DEF RefreshClear
    <2>2. CASE KeyChanged([refresh EXCEPT ![s] = Idle], cookie')
      <3> DEFINE slots == [refresh EXCEPT ![s] = Idle]
      <3>1. /\ slots \in [Slots -> Refresh]
            /\ slots[s] = Idle
            /\ \A t \in Slots : t # s => slots[t] = refresh[t]
        BY Types, StateTypes
      <3>2. KeyChanged(slots, cookie')
        BY <2>2
      <3> HIDE DEF slots
      <3>3. Idle.at = "idle" /\ Idle.live = FALSE
        BY DEF Idle
      <3>4. \A t \in Slots : slots[t].live => Busy(slots, t) /\ Mounted
        BY <3>1, <3>3 DEF GateInv, LiveMeansMounted, Busy
      <3>5. gate' = "away" <=> gate = "away"
        BY <2>1 DEF SetStatus, GateInv, LiveMeansMounted, Mounted
      <3>6. cookie' \in Cookie
        BY DEF TypeOK
      <3>7. QED
        BY <3>1, <3>2, <3>4, <3>5, <3>6, KeyChangedGate
    <2>3. CASE refresh' = [refresh EXCEPT ![s] = Idle] /\ UNCHANGED <<cookie, races>>
      BY <1>1, <2>1, <2>3, EndedGate
    <2>4. QED
      BY <1>4, <2>2, <2>3 DEF RefreshClear
  <1>5. QED
    BY <1>2, <1>3, <1>4

\* A page's DELETE is no refresh of the gate's.
LEMMA RefusedGate ==
    ASSUME TypeOK, GateInv, NEW s \in Slots, ~Busy(refresh, s),
           refresh' = [refresh EXCEPT ![s] =
                         [at |-> "clear", key |-> Presence(cookie), live |-> FALSE]],
           UNCHANGED <<gate, cookie, races>>
    PROVE  GateInv'
  <1>1. /\ refresh'[s].live = FALSE /\ ~refresh[s].live
        /\ \A t \in Slots : t # s => refresh'[t] = refresh[t]
    BY Types DEF GateInv, LiveMeansMounted
  <1>2. gate' = gate /\ cookie' = cookie /\ (Calm' => Calm)
    BY DEF Calm
  <1>3. QED
    BY <1>1, <1>2 DEF GateInv, LiveMeansMounted, UnknownIsDecided, Busy, SawCookie,
        Reread, Mounted

\* The key runs out: behind a gate that is mounted nobody knows, and one that is
\* not will ask.
LEMMA LapsedGate ==
    ASSUME GateInv, UNCHANGED <<gate, refresh>>,
           races' = IF Mounted THEN races \cup {"lapsed"} ELSE races
    PROVE  GateInv'
  <1>1. gate' = gate /\ refresh' = refresh
    OBVIOUS
  <1>2. LiveMeansMounted' /\ UnknownIsDecided'
    BY <1>1 DEF GateInv, LiveMeansMounted, UnknownIsDecided, Busy, Mounted
  <1>3. CASE Mounted
    BY <1>2, <1>3 DEF GateInv, Calm
  <1>4. CASE ~Mounted
    BY <1>1, <1>2, <1>4 DEF GateInv, LiveMeansMounted, SawCookie, Reread, Mounted
  <1>5. QED
    BY <1>3, <1>4

LEMMA NextGate ==
    ASSUME TypeOK, TypeOK', GateInv, [Next]_vars
    PROVE  GateInv'
  <1>1. CASE UNCHANGED vars
    BY <1>1, QuietGate DEF vars
  <1>2. ASSUME NEW s \in Slots, RefreshStatus(s) \/ RefreshProbe(s) \/ RefreshClear(s)
        PROVE  GateInv'
    BY <1>2, RefreshGate
  <1>3. CASE MountGate
    <2>1. gate' = "unknown" /\ ~Mounted /\ cookie' = cookie
      BY <1>3 DEF MountGate
    <2>2. Restarted(refresh)
      BY <1>3, <2>1 DEF MountGate, Restarted, RacesAtStart, Busy
    <2>3. cookie' \in Cookie /\ Mounted' /\ refresh \in [Slots -> Refresh]
      BY <2>1, Types DEF TypeOK, Mounted
    <2>4. \A s \in Slots : refresh[s].live => Busy(refresh, s)
      BY DEF GateInv, LiveMeansMounted
    <2>5. QED
      BY <2>2, <2>3, <2>4, RestartedGate
  <1>4. CASE UnmountGate \/ SignOut
    <2>1. \A s \in Slots : ~Cancelled[s].live
      BY Types DEF Cancelled, Refresh
    <2>2. QED
      BY <1>4, <2>1, LeaveGate DEF UnmountGate, SignOut
  <1>5. CASE \/ \E w \in Wallets, n \in Nonces : StartSignIn(w, n)
             \/ \E n \in Nonces : NonceExpires(n) \/ LoginAgain(n)
             \/ Reject \/ Login
    BY <1>5, QuietGate DEF StartSignIn, NonceExpires, LoginAgain, Reject, Login, SignInRest
  <1>6. CASE SignInCreate \/ FetchMe
    BY <1>6, QuietGate DEF SignInCreate, FetchMe
  <1>7. CASE KeyStep
    <2>1. UNCHANGED <<gate, refresh, cookie>> /\ races \subseteq races'
      BY <1>7 DEF KeyStep, RunCreate, HandleCreate, CreateKey, DismissReveal,
          HandleConfirmReveal, PutAway, Paste, Revoke, PanelRest
    <2>2. QED
      BY <2>1, QuietGate
  <1>8. CASE SignInActivate \/ Cleared \/ KeyActivated \/ RevokedCleared
    <2>1. /\ gate' = gate
          /\ \/ KeyChanged(refresh, cookie')
             \/ UNCHANGED <<refresh, cookie>> /\ races \subseteq races'
      BY <1>8 DEF SignInActivate, Cleared, KeyActivated, RevokedCleared, PanelRest
    <2>2. CASE KeyChanged(refresh, cookie')
      <3>1. cookie' \in Cookie /\ refresh \in [Slots -> Refresh]
        BY Types DEF TypeOK
      <3>2. \A s \in Slots : refresh[s].live => Busy(refresh, s) /\ Mounted
        BY DEF GateInv, LiveMeansMounted
      <3>3. QED
        BY <2>1, <2>2, <3>1, <3>2, KeyChangedGate
    <2>3. QED
      BY <2>1, <2>2, QuietGate
  <1>9. CASE PageRefused
    <2>1. PICK s \in Slots :
             /\ ~Busy(refresh, s)
             /\ refresh' = [refresh EXCEPT ![s] =
                               [at |-> "clear", key |-> Presence(cookie), live |-> FALSE]]
      BY <1>9 DEF PageRefused, Busy
    <2>2. UNCHANGED <<gate, cookie, races>>
      BY <1>9 DEF PageRefused
    <2>3. QED
      BY <2>1, <2>2, RefusedGate
  <1>10. CASE SessionExpires
    BY <1>10, QuietGate DEF SessionExpires
  <1>11. CASE KeyExpires
    BY <1>11, LapsedGate DEF KeyExpires
  <1>12. CASE Reload
    <2>1. \A s \in Slots : ~refresh'[s].live
      BY <1>12 DEF Reload, Idle
    <2>2. QED
      BY <1>12, <2>1, LeaveGate DEF Reload
  <1>13. QED
    BY <1>1, <1>2, <1>3, <1>4, <1>5, <1>6, <1>7, <1>8, <1>9, <1>10, <1>11, <1>12, Steps
       DEF BrowserStep

\* RequireApiKey never waits for an answer that no call in flight will bring, and
\* once its refreshes are through it shows the pages behind it only if there is an
\* active key, if the last of them started alone and the key has not run out since:
\* whatever calls failed, and however often the page was left, opened and reloaded
\* and the key set and deleted.
THEOREM GateIsRight == Spec => []GateTellsTheTruth
  <1>1. Init => GateInv
    <2> SUFFICES ASSUME Init PROVE GateInv
      OBVIOUS
    <2>1. gate = "away" /\ \A s \in Slots : refresh[s].at = "idle" /\ refresh[s].live = FALSE
      BY DEF Init, Idle
    <2>2. QED
      BY <2>1 DEF GateInv, LiveMeansMounted, UnknownIsDecided, SawCookie, Reread
  <1>2. GateInv => GateTellsTheTruth
    BY DEF GateInv, Calm, UnknownIsDecided, Reread, Busy, GateTellsTheTruth
  <1>3. TypeOK /\ TypeOK' /\ GateInv /\ [Next]_vars => GateInv'
    BY NextGate
  <1>4. QED
    BY <1>1, <1>2, <1>3, TypeCorrect, PTL DEF Spec

-----------------------------------------------------------------------------
(* Whose key it is.                                                        *)

\* A key on its way to the cookie, or in it, was minted.
Minted(k) == owner[k] # None

AllMinted ==
    /\ cookie # None => Minted(cookie)
    /\ signIn.at = "activate" => Minted(signIn.key)
    /\ panel.at \in {"revealed", "activate"} => Minted(panel.key)

\* Whose pages these are: the session's, or, as long as nobody signed in or out
\* since, those of the session that ran out.
Holder == IF session # None THEN session ELSE ended

\* That tenant minted it, and may have revoked it since.
Holds(k) == Holder # None /\ owner[k] \in {Holder, Revoked}

\* While the two cookies were not mixed up: what the pages think of as the
\* tenant is the holder, the active key and every key about to become it are
\* the holder's, and a key that a sign-out left is about to be deleted.
Own ==
    /\ me # None => me = Holder
    /\ cookie # None => Holds(cookie) \/ (Holder = None /\ clear = HasKey)
    /\ signIn.at = "activate" => Holds(signIn.key)
    /\ panel.at \in {"revealed", "activate"} => Holds(panel.key)

OwnInv == AllMinted /\ ("mixed" \notin races => Own)

\* A key that may be set as the active one.
Good(k) == Minted(k) /\ ("mixed" \notin races => Holds(k))

\* Once the cookies were mixed up, they may be for good.
MixedKept == "mixed" \in races => "mixed" \in races'

\* Keys keep their tenants, or lose them for good.
OwnersKept ==
    \A k \in Keys : owner[k] # None => owner'[k] = owner[k] \/ owner'[k] = Revoked

LEMMA GoodKept ==
    ASSUME OwnersKept, Holder' = Holder, MixedKept,
           NEW k \in Keys, Good(k)
    PROVE  Good(k)'
  BY SessionAssumption DEF OwnersKept, MixedKept, Good, Minted, Holds

LEMMA MintKeeps ==
    ASSUME TypeOK, NEW k \in Keys, session # None, Mint(k, session),
           Holder' = Holder
    PROVE  OwnersKept /\ Good(k)'
  BY DEF TypeOK, Mint, OwnersKept, Good, Minted, Holds, Holder

\* What is pending under the invariant is good, and so is an active key that no
\* sign-out is about to delete.
LEMMA PendingGood ==
    ASSUME TypeOK, Pending, OwnInv
    PROVE  /\ signIn.at = "activate" => signIn.key \in Keys /\ Good(signIn.key)
           /\ panel.at \in {"revealed", "activate"} => panel.key \in Keys /\ Good(panel.key)
           /\ cookie # None => cookie \in Keys /\ Minted(cookie)
           /\ cookie # None /\ ~(Holder = None /\ clear = HasKey) => Good(cookie)
  BY DEF TypeOK, Pending, OwnInv, AllMinted, Own, Good, Cookie

\* While the holder stays, the two cookies stay in step if what becomes active
\* or pending is good, and a DELETE of the key is not forgotten before it is done.
LEMMA SameHolderOwn ==
    ASSUME TypeOK, Pending, OwnInv, OwnersKept,
           Holder' = Holder, MixedKept, me' \in {me, None, Holder},
           \/ cookie' \in {cookie, None}
           \/ \E k \in Keys : cookie' = k /\ Good(k)',
           \/ signIn' = signIn
           \/ signIn'.at # "activate"
           \/ \E k \in Keys : signIn'.key = k /\ Good(k)',
           \/ panel' = panel
           \/ panel'.at \notin {"revealed", "activate"}
           \/ \E k \in Keys : panel'.key = k /\ Good(k)',
           clear' = clear \/ clear # HasKey \/ cookie' = None \/ "mixed" \in races'
    PROVE  OwnInv'
  <1>1. signIn'.at = "activate" => \E k \in Keys : signIn'.key = k /\ Good(k)'
    BY PendingGood, GoodKept
  <1>2. panel'.at \in {"revealed", "activate"} => \E k \in Keys : panel'.key = k /\ Good(k)'
    BY PendingGood, GoodKept
  <1>3. cookie' # None => Minted(cookie)'
    <2>1. CASE cookie' = cookie /\ cookie # None
      BY <2>1, PendingGood, SessionAssumption DEF OwnersKept, Minted
    <2>2. QED
      BY <2>1 DEF Good, Minted
  <1>4. AllMinted'
    BY <1>1, <1>2, <1>3 DEF AllMinted, Good, Minted
  <1>5. ASSUME "mixed" \notin races' PROVE Own'
    <2>1. (me # None => me = Holder)'
      BY <1>5 DEF OwnInv, Own, MixedKept
    <2>2. (cookie # None => Holds(cookie) \/ (Holder = None /\ clear = HasKey))'
      <3>1. CASE \E k \in Keys : cookie' = k /\ Good(k)'
        BY <1>5, <3>1 DEF Good, Holds
      <3>2. CASE cookie' = None
        BY <3>2
      <3>3. CASE cookie' = cookie /\ cookie # None
        <4>1. CASE Holder = None /\ clear = HasKey
          BY <1>5, <3>3, <4>1
        <4>2. CASE ~(Holder = None /\ clear = HasKey)
          <5>1. cookie \in Keys /\ Good(cookie)
            BY <3>3, <4>2, PendingGood
          <5>2. PICK k \in Keys : k = cookie
            BY <5>1
          <5>3. Good(k)'
            BY <5>1, <5>2, GoodKept
          <5>4. QED
            BY <1>5, <3>3, <5>2, <5>3 DEF Good, Holds
        <4>3. QED
          BY <4>1, <4>2
      <3>4. QED
        BY <3>1, <3>2, <3>3
    <2>3. (signIn.at = "activate" => Holds(signIn.key))'
      BY <1>1, <1>5 DEF Good, Holds
    <2>4. (panel.at \in {"revealed", "activate"} => Holds(panel.key))'
      BY <1>2, <1>5 DEF Good, Holds
    <2>5. QED
      BY <2>1, <2>2, <2>3, <2>4 DEF Own
  <1>6. QED
    BY <1>4, <1>5 DEF OwnInv

LEMMA KeptOwners ==
    ASSUME owner' = owner
    PROVE  OwnersKept
  BY DEF OwnersKept

LEMMA KeyChangedRaces ==
    ASSUME NEW slots, NEW now, KeyChanged(slots, now)
    PROVE  MixedKept
  BY DEF KeyChanged, RacesAtStart, MixedKept

\* The gate: its DELETE empties the cookie or leaves it.
LEMMA GateOwn ==
    ASSUME TypeOK, Pending, OwnInv,
           \/ MountGate \/ UnmountGate
           \/ \E s \in Slots : RefreshStatus(s) \/ RefreshProbe(s) \/ RefreshClear(s)
    PROVE  OwnInv'
  <1>1. UNCHANGED <<owner, me, signIn, clear>> /\ Holder' = Holder
    BY DEF RefreshStatus, RefreshProbe, RefreshClear, MountGate, UnmountGate,
        gatewayVars, sessionVars, signVars, Holder
  <1>2. MixedKept
    <2>1. CASE MountGate
      BY <2>1 DEF MountGate, RacesAtStart, MixedKept
    <2>2. CASE UNCHANGED races
      BY <2>2 DEF MixedKept
    <2>3. QED
      BY <2>1, <2>2, KeyChangedRaces
         DEF RefreshStatus, RefreshProbe, RefreshClear, UnmountGate
  <1>3. cookie' \in {cookie, None}
    BY DEF RefreshStatus, RefreshProbe, RefreshClear, MountGate, UnmountGate,
        CookieAfterDelete
  <1>4. panel' = panel \/ panel'.at = "idle"
    <2>1. panel' = panel \/ panel' = Closed
      BY DEF RefreshStatus, RefreshProbe, RefreshClear, MountGate, UnmountGate, PanelLeft
    <2>2. QED
      BY <2>1 DEF Closed
  <1>5. QED
    BY <1>1, <1>2, <1>3, <1>4, KeptOwners, SameHolderOwn

\* Signing in, up to the login.
LEMMA SignInOwn ==
    ASSUME TypeOK, Pending, OwnInv,
           \/ \E w \in Wallets, n \in Nonces : StartSignIn(w, n)
           \/ \E n \in Nonces : NonceExpires(n) \/ LoginAgain(n)
           \/ Reject \/ Login
    PROVE  OwnInv'
  <1>1. UNCHANGED <<owner, cookie, clear, panel, me>> /\ MixedKept
    BY DEF StartSignIn, NonceExpires, LoginAgain, Reject, Login, SignInRest, MixedKept
  <1>2. signIn' = signIn \/ signIn'.at # "activate"
    <2>1. ASSUME NEW w \in Wallets, NEW n \in Nonces, StartSignIn(w, n)
          PROVE  signIn'.at = "login"
      BY <2>1 DEF StartSignIn, Resting
    <2>2. \/ signIn' = signIn \/ signIn' = Resting
          \/ signIn' = [Resting EXCEPT !.at = "status", !.key = Presence(cookie)]
          \/ signIn'.at = "login"
      BY <2>1 DEF NonceExpires, LoginAgain, Reject, Login
    <2>3. [Resting EXCEPT !.at = "status", !.key = Presence(cookie)].at = "status"
      BY SignInStates
    <2>4. Resting.at = "idle"
      BY DEF Resting
    <2>5. QED
      BY <2>2, <2>3, <2>4
  <1>3. CASE Holder' = Holder
    BY <1>1, <1>2, <1>3, KeptOwners, SameHolderOwn
  <1>4. CASE Holder' # Holder
    <2>1. /\ Login /\ session' = signIn.wallet
          /\ signIn' = [Resting EXCEPT !.at = "status", !.key = Presence(cookie)]
          /\ "mixed" \notin races' => /\ clear = "none"
                                    /\ session \in {None, signIn.wallet}
                                    /\ ended \in {None, signIn.wallet}
      BY <1>4 DEF StartSignIn, NonceExpires, LoginAgain, Reject, Login, sessionVars, Holder
    <2>2. signIn'.at = "status"
      BY <2>1, SignInStates
    <2>3. AllMinted'
      BY <1>1, <2>2 DEF OwnInv, AllMinted, Minted
    <2>4. ASSUME "mixed" \notin races' PROVE Own'
      <3>1. Holder' = signIn.wallet
        BY <2>1, SessionAssumption DEF Login, Pending, Holder
      <3>2. Holder = None
        BY <1>4, <2>1, <2>4, <3>1 DEF Holder
      <3>3. Own /\ clear = "none"
        BY <1>1, <2>1, <2>4 DEF OwnInv, MixedKept
      <3>4. cookie = None /\ me = None /\ panel.at \notin {"revealed", "activate"}
        BY <3>2, <3>3 DEF Own, Holds, HasKey
      <3>5. cookie' = None /\ me' = None /\ panel'.at \notin {"revealed", "activate"}
        BY <1>1, <3>4
      <3>6. QED
        BY <2>2, <3>5 DEF Own
    <2>5. QED
      BY <2>3, <2>4 DEF OwnInv
  <1>5. QED
    BY <1>3, <1>4

\* The sign-in's own key, minted for the session and then activated.
LEMMA SignInKeyOwn ==
    ASSUME TypeOK, Pending, OwnInv, SignInCreate \/ SignInActivate
    PROVE  OwnInv'
  <1>1. UNCHANGED <<me, clear, panel>> /\ Holder' = Holder
    BY DEF SignInCreate, SignInActivate, sessionVars, Holder
  <1>2. Resting.at # "activate"
    BY DEF Resting
  <1>3. MixedKept
    BY KeyChangedRaces DEF SignInCreate, SignInActivate, MixedKept
  <1>4. CASE SignInCreate
    <2>1. cookie' = cookie
      BY <1>4 DEF SignInCreate
    <2>2. CASE owner' = owner /\ signIn' = Resting
      BY <1>1, <1>2, <1>3, <2>1, <2>2, KeptOwners, SameHolderOwn
    <2>3. ASSUME NEW k \in Keys, session # None, Mint(k, session),
                 \/ signIn' = Resting
                 \/ signIn' = [Resting EXCEPT !.at = "activate", !.key = k]
          PROVE  OwnInv'
      <3>1. OwnersKept /\ Good(k)'
        BY <1>1, <2>3, MintKeeps
      <3>2. [Resting EXCEPT !.at = "activate", !.key = k].key = k
        BY SignInStates
      <3>3. signIn'.at # "activate" \/ \E j \in Keys : signIn'.key = j /\ Good(j)'
        BY <1>2, <2>3, <3>1, <3>2
      <3>4. QED
        BY <1>1, <1>3, <2>1, <3>1, <3>3, SameHolderOwn
    <2>4. QED
      BY <1>4, <2>2, <2>3 DEF SignInCreate
  <1>5. CASE SignInActivate
    <2>1. owner' = owner /\ signIn' = Resting /\ OwnersKept
      BY <1>5, KeptOwners DEF SignInActivate, gatewayVars
    <2>2. cookie' = cookie \/ \E k \in Keys : cookie' = k /\ Good(k)'
      BY <1>1, <1>3, <1>5, <2>1, PendingGood, GoodKept DEF SignInActivate
    <2>3. QED
      BY <1>1, <1>2, <1>3, <2>1, <2>2, SameHolderOwn
  <1>6. QED
    BY <1>4, <1>5

\* /auth/me, and signing out with its DELETE of the key.
LEMMA AccountOwn ==
    ASSUME TypeOK, Pending, OwnInv, FetchMe \/ SignOut \/ Cleared
    PROVE  OwnInv'
  <1>1. UNCHANGED <<owner, signIn>> /\ OwnersKept
    BY KeptOwners DEF FetchMe, SignOut, Cleared, gatewayVars, signVars
  <1>2. MixedKept
    BY KeyChangedRaces DEF FetchMe, SignOut, Cleared, MixedKept
  <1>3. panel' = panel \/ panel'.at = "idle"
    BY DEF FetchMe, SignOut, Cleared, PanelLeft, Closed
  <1>4. CASE FetchMe
    <2>1. /\ UNCHANGED <<cookie, clear>> /\ Holder' = Holder /\ me' = Holder
      BY <1>4 DEF FetchMe, sessionVars, signVars, Holder
    <2>2. QED
      BY <1>1, <1>2, <1>3, <2>1, SameHolderOwn
  <1>5. CASE Cleared
    <2>1. Holder' = Holder /\ me' = me
      BY <1>5 DEF Cleared, sessionVars, Holder
    <2>2. /\ cookie' \in {cookie, None}
          /\ clear # HasKey \/ cookie' = None \/ "mixed" \in races'
      BY <1>5 DEF Cleared, CookieAfterDelete
    <2>3. QED
      BY <1>1, <1>2, <1>3, <2>1, <2>2, SameHolderOwn
  <1>6. CASE SignOut
    <2>1. /\ cookie' = cookie /\ clear = "none" /\ clear' = Presence(cookie)
          /\ me' = None /\ session' \in {session, None} /\ ended' = None
          /\ signIn.at # "idle" \/ panel'.at # "idle" => "mixed" \in races'
      BY <1>6 DEF SignOut
    <2>2. CASE Holder' = Holder
      BY <1>1, <1>2, <1>3, <2>1, <2>2, SameHolderOwn DEF HasKey
    <2>3. CASE Holder' = None
      <3>1. AllMinted'
        BY <1>1, <1>3, <2>1 DEF OwnInv, AllMinted, Minted
      <3>2. ASSUME "mixed" \notin races' PROVE Own'
        BY <1>1, <2>1, <2>3, <3>2 DEF Own, Presence
      <3>3. QED
        BY <3>1, <3>2 DEF OwnInv
    <2>4. QED
      BY <2>1, <2>2, <2>3 DEF Holder
  <1>7. QED
    BY <1>4, <1>5, <1>6

\* The key panel and the closed gate.
LEMMA PanelOwn ==
    ASSUME TypeOK, Pending, OwnInv, KeyStep \/ KeyActivated \/ RevokedCleared
    PROVE  OwnInv'
  <1>1. UNCHANGED <<me, signIn, clear>> /\ Holder' = Holder
    BY DEF KeyStep, RunCreate, HandleCreate, CreateKey, DismissReveal, HandleConfirmReveal,
        PutAway, Paste, Revoke, KeyActivated, RevokedCleared, PanelRest, sessionVars,
        signVars, Holder
  <1>2. CASE CreateKey
    <2>1. UNCHANGED cookie /\ MixedKept
      BY <1>2 DEF CreateKey, MixedKept
    <2>2. CASE UNCHANGED <<owner, panel>>
      BY <1>1, <2>1, <2>2, KeptOwners, SameHolderOwn
    <2>3. ASSUME NEW k \in Keys, session # None, Mint(k, session),
                 panel' = panel \/ panel' = [at |-> "revealed", key |-> k]
          PROVE  OwnInv'
      <3>1. OwnersKept /\ Good(k)'
        BY <1>1, <2>3, MintKeeps
      <3>2. panel' = panel \/ \E j \in Keys : panel'.key = j /\ Good(j)'
        BY <2>3, <3>1
      <3>3. QED
        BY <1>1, <2>1, <3>1, <3>2, SameHolderOwn
    <2>4. QED
      BY <1>2, <2>2, <2>3 DEF CreateKey
  <1>3. CASE PutAway
    <2>1. UNCHANGED <<owner, cookie>> /\ OwnersKept /\ MixedKept
      BY <1>3, KeptOwners DEF PutAway, MixedKept
    <2>2. panel'.key = panel.key /\ panel.at = "revealed"
      BY <1>3, Types DEF PutAway, PanelState
    <2>3. \E k \in Keys : panel'.key = k /\ Good(k)'
      BY <1>1, <2>1, <2>2, PendingGood, GoodKept
    <2>4. QED
      BY <1>1, <2>1, <2>3, SameHolderOwn
  <1>4. ASSUME NEW k \in Keys, Paste(k)
        PROVE  OwnInv'
    <2>1. /\ UNCHANGED <<owner, cookie>> /\ OwnersKept /\ "mixed" \in races' /\ MixedKept
          /\ panel'.key = k /\ owner[k] # None
      BY <1>4, KeptOwners DEF Paste, MixedKept
    <2>2. Good(k)'
      BY <2>1 DEF Good, Minted
    <2>3. QED
      BY <1>1, <2>1, <2>2, SameHolderOwn
  <1>5. ASSUME NEW k \in Keys, Revoke(k)
        PROVE  OwnInv'
    <2>1. UNCHANGED cookie /\ MixedKept
      BY <1>5 DEF Revoke, MixedKept
    <2>2. OwnersKept
      BY <1>5 DEF Revoke, OwnersKept, TypeOK
    <2>3. panel' = panel \/ panel'.at = "clear"
      BY <1>5 DEF Revoke
    <2>4. QED
      BY <1>1, <2>1, <2>2, <2>3, SameHolderOwn
  <1>6. CASE KeyActivated
    <2>1. owner' = owner /\ OwnersKept /\ MixedKept /\ panel.at = "activate"
      BY <1>6, KeptOwners, KeyChangedRaces DEF KeyActivated, MixedKept
    <2>2. \E k \in Keys : panel.key = k /\ Good(k)'
      BY <1>1, <2>1, PendingGood, GoodKept
    <2>3. cookie' = cookie \/ cookie' = panel.key
      BY <1>6 DEF KeyActivated
    <2>4. panel'.at = "idle" \/ panel'.key = panel.key
      BY <1>6, Types DEF KeyActivated, Closed, PanelState
    <2>5. QED
      BY <1>1, <2>1, <2>2, <2>3, <2>4, SameHolderOwn
  <1>7. CASE RevokedCleared
    <2>1. owner' = owner /\ OwnersKept /\ MixedKept
      BY <1>7, KeptOwners, KeyChangedRaces DEF RevokedCleared, MixedKept
    <2>2. cookie' \in {cookie, None} /\ panel'.at = "idle"
      BY <1>7 DEF RevokedCleared, CookieAfterDelete, Closed
    <2>3. QED
      BY <1>1, <2>1, <2>2, SameHolderOwn
  <1>8. QED
    BY <1>2, <1>3, <1>4, <1>5, <1>6, <1>7 DEF KeyStep, RunCreate, HandleCreate,
       DismissReveal, HandleConfirmReveal

\* A page that is refused, the cookies' ends and a reload: the pages stay whose
\* they were.
LEMMA BrowserOwn ==
    ASSUME TypeOK, Pending, OwnInv, BrowserStep
    PROVE  OwnInv'
  <1>1. owner' = owner /\ OwnersKept
    BY KeptOwners DEF BrowserStep, PageRefused, SessionExpires, KeyExpires, Reload,
        BrowserRest, gatewayVars
  <1>2. Holder' = Holder
    BY DEF BrowserStep, PageRefused, SessionExpires, KeyExpires, Reload, sessionVars, Holder
  <1>3. MixedKept
    BY DEF BrowserStep, PageRefused, SessionExpires, KeyExpires, Reload, MixedKept
  <1>4. me' \in {me, None} /\ cookie' \in {cookie, None}
    BY DEF BrowserStep, PageRefused, SessionExpires, KeyExpires, Reload
  <1>5. /\ signIn' = signIn \/ signIn'.at = "idle"
        /\ panel' = panel \/ panel'.at = "idle"
    BY DEF BrowserStep, PageRefused, SessionExpires, KeyExpires, Reload, signVars,
        Resting, Closed
  <1>6. clear' = clear \/ clear = "none" \/ "mixed" \in races'
    BY DEF BrowserStep, PageRefused, SessionExpires, KeyExpires, Reload, signVars
  <1>7. QED
    BY <1>1, <1>2, <1>3, <1>4, <1>5, <1>6, SameHolderOwn DEF HasKey

LEMMA NextOwn ==
    ASSUME TypeOK, Pending, OwnInv, [Next]_vars
    PROVE  OwnInv'
  <1>1. CASE UNCHANGED vars
    <2>1. /\ UNCHANGED <<owner, cookie, me, signIn, clear, panel>>
          /\ Holder' = Holder /\ MixedKept
      BY <1>1 DEF vars, gatewayVars, sessionVars, signVars, Holder, MixedKept
    <2>2. QED
      BY <2>1, KeptOwners, SameHolderOwn
  <1>2. CASE Next
    BY <1>2, Steps, GateOwn, SignInOwn, SignInKeyOwn, AccountOwn, PanelOwn, BrowserOwn
  <1>3. QED
    BY <1>1, <1>2

\* Whatever the interleaving of sign-in, sign-out, panel and gate, whichever calls
\* fail, and whenever the two cookies run out or the page is loaded anew, the
\* tenant the pages show works under a key of its own, minted by its session and
\* at worst revoked, unless one of the named races happened.
THEOREM KeyBelongs == Spec => []KeyIsTheTenants
  <1>1. Init => OwnInv
    BY DEF Init, Resting, Closed, OwnInv, AllMinted, Own
  <1>2. OwnInv => KeyIsTheTenants
    BY DEF OwnInv, Own, Holds, KeyIsTheTenants, Authenticated
  <1>3. TypeOK /\ Pending /\ OwnInv /\ [Next]_vars => OwnInv'
    BY NextOwn
  <1>4. QED
    BY <1>1, <1>2, <1>3, TypeCorrect, PTL DEF Spec
=============================================================================

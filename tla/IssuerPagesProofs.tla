------------------------- MODULE IssuerPagesProofs -------------------------
(***************************************************************************)
(* Proofs about the issuer pages of the dashboard and the signatures on    *)
(* their calls, for every set of wallets, any number of calls and prompts  *)
(* at a time, and any number of reads, writes and faults.                  *)
(***************************************************************************)
EXTENDS IssuerConsole, WalletAuth, TLAPS


-----------------------------------------------------------------------------
(***************************************************************************)
(* The issuer pages: types.                                                *)
(***************************************************************************)

Data == {None, "active", "revoked", "clear"} \cup Writes \cup [Wallets -> States]
Reply == [data : Data, error : Errors, stale : BOOLEAN]
Purposes == Entries \cup (Writes \X (Wallets \cup {None}))
CallOn == [of : Purposes, at : {"sent", "served"}, live : BOOLEAN, result : Reply]
CallState == {NoCall} \cup CallOn

Typed ==
    /\ cred \in [Wallets -> States]
    /\ query \in [Entries -> Reply]
    /\ call \in [Calls -> CallState]
    /\ told \subseteq Lookups /\ active \in Lookups \cup {None}

LEMMA ReplyTypes ==
    /\ Empty \in Reply /\ Empty.data = None /\ Empty.error = "no"
    /\ \A error \in Errors : /\ Fails(error) \in Reply
                             /\ Fails(error).data = None /\ Fails(error).error = error
    /\ \A data \in Data : /\ Holds(data) \in Reply
                          /\ Holds(data).data = data /\ Holds(data).error = "no"
  BY DEF Empty, Fails, Holds, Reply, Data, Errors

LEMMA CallTypes ==
    /\ NoCall.at = "idle" /\ NoCall.of = None /\ ~NoCall.live
    /\ \A k \in CallOn : k.at # "idle" /\ k # NoCall
    /\ \A of \in Purposes : /\ Made(of) \in CallOn
                            /\ Made(of).of = of /\ Made(of).at = "sent"
                            /\ Made(of).live /\ Made(of).result = Empty
  <1>1. Empty \in Reply
    BY ReplyTypes
  <1>2. QED
    BY <1>1 DEF NoCall, Made, CallOn

CredentialOf(w) == <<"credential", w>>
MembershipOf(w) == <<"membership", w>>

\* What an entry or a call is for.
LEMMA Purpose ==
    /\ Roots \in Entries /\ Roots[1] \notin Writes
    /\ \A e \in Entries :
         /\ e[1] \notin Writes
         /\ e # Roots => /\ e[1] \in WalletReads /\ e[2] \in Lookups
                         /\ e = <<e[1], e[2]>>
    /\ \A w \in Lookups : /\ CredentialOf(w) \in Entries /\ CredentialOf(w) # Roots
                          /\ CredentialOf(w)[1] = "credential" /\ CredentialOf(w)[2] = w
    /\ \A w \in Lookups : /\ MembershipOf(w) \in Entries /\ MembershipOf(w) # Roots
                          /\ MembershipOf(w)[1] = "membership" /\ MembershipOf(w)[2] = w
    /\ \A kind \in Writes : \A w \in Wallets \cup {None} :
         /\ <<kind, w>> \in Purposes /\ <<kind, w>>[1] = kind /\ <<kind, w>>[2] = w
    /\ \A of \in Purposes :
         of[1] \in Writes => /\ of \notin Entries /\ of[2] \in Wallets \cup {None}
                             /\ of = <<of[1], of[2]>>
    /\ \A w : CredentialOf(w) \in Entries => w \in Lookups
  BY DEF Entries, Purposes, Roots, WalletReads, Writes, CredentialOf, MembershipOf

\* Forgetting some calls changes nothing else of them.
LEMMA ForgottenTypes ==
    ASSUME call \in [Calls -> CallState], NEW dropped
    PROVE  /\ Forgotten(dropped) \in [Calls -> CallState]
           /\ \A c \in Calls :
                 LET d == Forgotten(dropped)[c] IN
                 /\ d = NoCall <=> call[c] = NoCall
                 /\ d.of = call[c].of /\ d.at = call[c].at /\ d.result = call[c].result
                 /\ d.live <=> call[c].live /\ c \notin dropped
  <1>1. ASSUME NEW c \in Calls
        PROVE  LET d == Forgotten(dropped)[c] IN
               /\ d \in CallState
               /\ d = NoCall <=> call[c] = NoCall
               /\ d.of = call[c].of /\ d.at = call[c].at /\ d.result = call[c].result
               /\ d.live <=> call[c].live /\ c \notin dropped
    <2>1. call[c] \in CallState
      OBVIOUS
    <2>2. Forgotten(dropped)[c] = IF c \in dropped THEN [call[c] EXCEPT !.live = FALSE]
                                  ELSE call[c]
      BY DEF Forgotten
    <2>3. CASE call[c] = NoCall
      <3>1. [NoCall EXCEPT !.live = FALSE] = NoCall
        <4>1. \A r \in [of : {None}, at : {"idle"}, live : {FALSE}, result : {Empty}] :
                [r EXCEPT !.live = FALSE] = r
          OBVIOUS
        <4>2. NoCall \in [of : {None}, at : {"idle"}, live : {FALSE}, result : {Empty}]
          BY DEF NoCall
        <4>3. QED
          BY <4>1, <4>2
      <3>2. Forgotten(dropped)[c] = NoCall
        BY <2>2, <2>3, <3>1
      <3>3. QED
        BY <2>3, <3>2, CallTypes DEF CallState
    <2>4. CASE call[c] \in CallOn
      <3>1. c \notin dropped => Forgotten(dropped)[c] = call[c]
        BY <2>2
      <3>2. c \in dropped => /\ Forgotten(dropped)[c] \in CallOn
                             /\ Forgotten(dropped)[c].of = call[c].of
                             /\ Forgotten(dropped)[c].at = call[c].at
                             /\ Forgotten(dropped)[c].result = call[c].result
                             /\ ~Forgotten(dropped)[c].live
        BY <2>2, <2>4 DEF CallOn
      <3>3. QED
        BY <2>4, <3>1, <3>2, CallTypes DEF CallState
    <2>5. QED
      BY <2>1, <2>3, <2>4 DEF CallState
  <1>2. Forgotten(dropped) = [c \in Calls |-> Forgotten(dropped)[c]]
    BY DEF Forgotten
  <1>3. QED
    BY <1>1, <1>2

\* What the service reads is a reply.
LEMMA ReadTypes ==
    ASSUME cred \in [Wallets -> States], NEW e \in Entries
    PROVE  Read(e) \in Reply
  <1>1. CASE e = Roots
    BY <1>1, ReplyTypes DEF Read, Root, Data
  <1>2. CASE e # Roots
    <2>1. e[2] \in Wallets /\ cred[e[2]] \in States /\ e[1] \in WalletReads
      BY <1>2, Purpose, ConsoleAssumption
    <2>2. /\ Fails("notFound") \in Reply /\ Fails("denied") \in Reply
          /\ Holds("clear") \in Reply /\ Holds(Root) \in Reply
          /\ cred[e[2]] # "none" => Holds(cred[e[2]]) \in Reply
      BY <2>1, ReplyTypes DEF Errors, Data, Root, States
    <2>3. Read(e) = Lookup(e[1], e[2])
      BY <1>2 DEF Read
    <2>4. \/ Lookup(e[1], e[2]) \in {Fails("notFound"), Fails("denied"), Holds("clear"), Holds(Root)}
          \/ Lookup(e[1], e[2]) = Holds(cred[e[2]]) /\ cred[e[2]] # "none"
      BY <2>1 DEF Lookup, WalletReads
    <2>5. QED
      BY <2>2, <2>3, <2>4
  <1>3. QED
    BY <1>1, <1>2

-----------------------------------------------------------------------------
(***************************************************************************)
(* What a step may do to an entry, to a call, to what was told and to the  *)
(* credentials.                                                            *)
(***************************************************************************)
\* A live read of e that the service answered.
Answered(c, e) ==
    c \in InFlight(e) /\ call[c].at = "served" /\ call[c].result.error = "no"

EntryMoves(e) ==
    \/ query[e].data = None /\ query'[e] = Empty
    \/ /\ query'[e].data = query[e].data
       /\ \/ query'[e].error # "no"
          \/ /\ query'[e].error = query[e].error
             /\ query[e].stale => query'[e].stale
             /\ InFlight(e) # {} => InFlight(e)' # {} \/ query'[e].stale
    \/ \E c \in Calls : Answered(c, e) /\ query'[e] = call[c].result

\* The pages only revoke what they look at and have read.
FromAPage(of) ==
    of[1] = "revoke" => of[2] \in Lookups /\ query[CredentialOf(of[2])].data # None

CallMoves(c) ==
    \/ call'[c] = NoCall
    \/ call'[c].at = "sent" /\ FromAPage(call'[c].of)
    \/ /\ call'[c].of = call[c].of /\ call'[c].at = call[c].at
       /\ call'[c].result = call[c].result /\ (call'[c].live => call[c].live)
    \/ /\ call'[c].of = call[c].of /\ call[c].at = "sent"
       /\ call'[c].result.error = "no" =>
            /\ call[c].of \in Entries => call'[c].result = Read(call[c].of)
            /\ call[c].of[1] = "revoke" /\ call[c].of[2] \in Wallets
               => cred'[call[c].of[2]] = "revoked"

\* The answer to a revocation, arriving on the page of its wallet.
NewlyTold(w) ==
    /\ \E c \in Calls : /\ call[c].of = <<"revoke", w>> /\ call[c].at = "served"
                        /\ call[c].result.error = "no"
    /\ query[CredentialOf(w)].data # None =>
         /\ query'[CredentialOf(w)].stale
         /\ \A d \in InFlight(CredentialOf(w))' : call'[d].at = "sent"

Moves ==
    /\ \A e \in Entries : EntryMoves(e)
    /\ \A c \in Calls : CallMoves(c)
    /\ \A w \in told' : w \in told \/ NewlyTold(w)
    /\ \A w \in Wallets : cred[w] = "revoked" => cred'[w] = "revoked"

\* A step that leaves an entry and the calls for it alone.
LEMMA EntryKept ==
    ASSUME NEW e \in Entries, query'[e] = query[e],
           InFlight(e) # {} => InFlight(e)' # {}
    PROVE  EntryMoves(e)
  BY DEF EntryMoves

LEMMA QuietStep ==
    ASSUME Typed, UNCHANGED <<cred, query, call, told>>,
           active' \in Lookups \cup {None}
    PROVE  Typed' /\ Moves
  <1>1. Typed'
    BY DEF Typed
  <1>2. \A e \in Entries : EntryMoves(e)
    BY EntryKept DEF InFlight
  <1>3. \A c \in Calls : CallMoves(c)
    BY DEF CallMoves
  <1>4. QED
    BY <1>1, <1>2, <1>3 DEF Moves

LEMMA FetchStep ==
    ASSUME Typed, NEW c \in Calls, NEW e \in Entries, Fetch(c, e)
    PROVE  Typed' /\ Moves
  <1> DEFINE kept == Forgotten(Dropped(e))
  <1>1. /\ call[c] = NoCall /\ InFlight(e) \subseteq Dropped(e)
        /\ call' = [kept EXCEPT ![c] = Made(e)]
        /\ query' = IF query[e].data = None THEN [query EXCEPT ![e] = Empty] ELSE query
        /\ UNCHANGED <<cred, told, active>>
    BY DEF Fetch, pageVars
  <1>2. /\ kept \in [Calls -> CallState]
        /\ \A d \in Calls : /\ kept[d].of = call[d].of /\ kept[d].at = call[d].at
                            /\ kept[d].result = call[d].result
                            /\ kept[d].live <=> call[d].live /\ d \notin Dropped(e)
    BY ForgottenTypes DEF Typed
  <1> HIDE DEF kept
  <1>3. /\ Made(e) \in CallOn /\ Made(e).of = e /\ Made(e).at = "sent" /\ Made(e).live
    BY CallTypes DEF Purposes
  <1>4. /\ call' \in [Calls -> CallState] /\ call'[c] = Made(e)
        /\ \A d \in Calls \ {c} : call'[d] = kept[d]
    BY <1>1, <1>2, <1>3 DEF CallState
  <1>5. /\ query' \in [Entries -> Reply]
        /\ \A f \in Entries \ {e} : query'[f] = query[f]
        /\ query'[e] = IF query[e].data = None THEN Empty ELSE query[e]
    BY <1>1, ReplyTypes DEF Typed
  <1>6. Typed'
    BY <1>1, <1>4, <1>5 DEF Typed
  <1>7. EntryMoves(e)
    <2>1. c \in InFlight(e)'
      BY <1>3, <1>4 DEF InFlight
    <2>2. QED
      BY <2>1, <1>5 DEF EntryMoves
  <1>8. ASSUME NEW f \in Entries \ {e}
        PROVE  EntryMoves(f)
    <2>1. ASSUME NEW d \in InFlight(f)
          PROVE  d \in InFlight(f)'
      <3>1. d \in Calls /\ call[d].of = f /\ call[d].live
        BY DEF InFlight
      <3>2. d # c
        BY <3>1, <1>1, CallTypes
      <3>3. d \notin Dropped(e)
        BY <3>1 DEF Dropped, InFlight
      <3>4. QED
        BY <3>1, <3>2, <3>3, <1>2, <1>4 DEF InFlight
    <2>2. QED
      BY <2>1, <1>5, EntryKept
  <1>9. \A d \in Calls : CallMoves(d)
    <2>1. FromAPage(e)
      BY Purpose DEF FromAPage, Writes
    <2>2. QED
      BY <2>1, <1>2, <1>3, <1>4 DEF CallMoves
  <1>10. QED
    BY <1>1, <1>6, <1>7, <1>8, <1>9 DEF Moves

LEMMA WriteStep ==
    ASSUME Typed, NEW c \in Calls, NEW kind \in Writes,
           NEW w \in Wallets \cup {None}, Write(c, kind, w), FromAPage(<<kind, w>>)
    PROVE  Typed' /\ Moves
  <1> DEFINE of == <<kind, w>>
  <1>1. /\ call[c] = NoCall /\ call' = [call EXCEPT ![c] = Made(of)]
        /\ UNCHANGED <<cred, query, told, active>>
    BY DEF Write, pageVars
  <1>2. of \in Purposes /\ FromAPage(of)
    BY Purpose
  <1> HIDE DEF of
  <1>3. Made(of) \in CallOn /\ Made(of).of = of /\ Made(of).at = "sent"
    BY <1>2, CallTypes
  <1>4. /\ call' \in [Calls -> CallState] /\ call'[c] = Made(of)
        /\ \A d \in Calls \ {c} : call'[d] = call[d]
    BY <1>1, <1>3 DEF CallState, Typed
  <1>5. Typed'
    BY <1>1, <1>4 DEF Typed
  <1>6. ASSUME NEW e \in Entries
        PROVE  EntryMoves(e)
    <2>1. ASSUME NEW d \in InFlight(e)
          PROVE  d \in InFlight(e)'
      <3>1. d \in Calls /\ call[d].of = e /\ call[d].live
        BY DEF InFlight
      <3>2. d # c
        BY <3>1, <1>1, CallTypes
      <3>3. QED
        BY <3>1, <3>2, <1>4 DEF InFlight
    <2>2. QED
      BY <2>1, <1>1, EntryKept
  <1>7. \A d \in Calls : CallMoves(d)
    BY <1>2, <1>3, <1>4 DEF CallMoves
  <1>8. QED
    BY <1>1, <1>5, <1>6, <1>7 DEF Moves

\* The service answers a call.
LEMMA ServeStep ==
    ASSUME Typed, NEW c \in Calls, Serve(c)
    PROVE  Typed' /\ Moves
  <1> DEFINE of == call[c].of
  <1>1. /\ call[c] \in CallOn /\ call[c].at = "sent" /\ of \in Purposes
        /\ UNCHANGED <<query, told, active>>
    <2>1. call[c].at = "sent" /\ UNCHANGED <<query, told, active>>
      BY DEF Serve, pageVars
    <2>2. call[c] \in CallOn
      BY <2>1, CallTypes DEF Typed, CallState
    <2>3. QED
      BY <2>1, <2>2 DEF CallOn
  <1>2. PICK r \in Reply :
           /\ call' = [call EXCEPT ![c].at = "served", ![c].result = r]
           /\ r.error = "no" =>
                /\ of \in Entries => r = Read(of)
                /\ of[1] = "revoke" /\ of[2] \in Wallets => cred'[of[2]] = "revoked"
    <2>1. CASE \E verdict \in Refusals(of) :
                  call' = [call EXCEPT ![c].at = "served", ![c].result = Fails(verdict)]
      <3>1. PICK verdict \in Refusals(of) :
                  call' = [call EXCEPT ![c].at = "served", ![c].result = Fails(verdict)]
        BY <2>1
      <3>2. verdict \in Errors /\ verdict # "no"
        BY <3>1 DEF Refusals, Errors
      <3>3. Fails(verdict) \in Reply /\ Fails(verdict).error # "no"
        BY <3>2, ReplyTypes
      <3>4. QED
        BY <3>1, <3>3
    <2>2. CASE /\ of \in Entries
               /\ call' = [call EXCEPT ![c].at = "served", ![c].result = Read(of)]
      <3>1. Read(of) \in Reply
        BY <2>2, ReadTypes DEF Typed
      <3>2. of[1] # "revoke"
        BY <2>2, Purpose DEF Writes
      <3>3. QED
        BY <2>2, <3>1, <3>2
    <2>3. CASE call' = [call EXCEPT ![c].at = "served", ![c].result = Fails("other")]
      <3>1. Fails("other") \in Reply /\ Fails("other").error # "no"
        BY ReplyTypes DEF Errors
      <3>2. QED
        BY <2>3, <3>1
    <2>4. CASE /\ of[1] \in Writes
               /\ call' = [call EXCEPT ![c].at = "served", ![c].result = Holds(of[1])]
               /\ cred' = CASE of[1] = "publish" -> cred
                            [] of[1] = "revoke" -> [cred EXCEPT ![of[2]] = "revoked"]
                            [] OTHER -> [cred EXCEPT ![of[2]] = "active"]
      <3>1. Holds(of[1]) \in Reply
        BY <2>4, ReplyTypes DEF Data
      <3>2. of \notin Entries
        BY <2>4, <1>1, Purpose
      <3>3. of[1] = "revoke" /\ of[2] \in Wallets => cred'[of[2]] = "revoked"
        BY <2>4 DEF Typed
      <3>4. QED
        BY <2>4, <3>1, <3>2, <3>3
    <2>5. QED
      BY <2>1, <2>2, <2>3, <2>4 DEF Serve
  <1>3. /\ cred' \in [Wallets -> States]
        /\ \A w \in Wallets : cred[w] = "revoked" => cred'[w] = "revoked"
    <2>1. CASE UNCHANGED cred
      BY <2>1 DEF Typed
    <2>2. CASE of[1] = "revoke" /\ cred' = [cred EXCEPT ![of[2]] = "revoked"]
      BY <2>2 DEF Typed, States
    <2>3. CASE cred[of[2]] = "none" /\ cred' = [cred EXCEPT ![of[2]] = "active"]
      BY <2>3 DEF Typed, States
    <2>4. \/ UNCHANGED cred
          \/ of[1] = "revoke" /\ cred' = [cred EXCEPT ![of[2]] = "revoked"]
          \/ cred[of[2]] = "none" /\ cred' = [cred EXCEPT ![of[2]] = "active"]
      <3>1. CASE UNCHANGED cred
        BY <3>1
      <3>2. CASE /\ Allowed(of)
                 /\ cred' = CASE of[1] = "publish" -> cred
                              [] of[1] = "revoke" -> [cred EXCEPT ![of[2]] = "revoked"]
                              [] OTHER -> [cred EXCEPT ![of[2]] = "active"]
        BY <3>2 DEF Allowed
      <3>3. QED
        BY <3>1, <3>2 DEF Serve
    <2>5. QED
      BY <2>1, <2>2, <2>3, <2>4
  <1>4. /\ call'[c] = [call[c] EXCEPT !.at = "served", !.result = r]
        /\ \A d \in Calls \ {c} : call'[d] = call[d]
        /\ call' = [d \in Calls |-> call'[d]]
    BY <1>2 DEF Typed
  <1>5. /\ call'[c] \in CallOn /\ call'[c].of = of /\ call'[c].at = "served"
        /\ call'[c].result = r /\ (call'[c].live <=> call[c].live)
    BY <1>1, <1>4 DEF CallOn
  <1>6. Typed'
    <2>1. \A d \in Calls : call'[d] \in CallState
      BY <1>4, <1>5 DEF CallState, Typed
    <2>2. QED
      BY <1>1, <1>3, <1>4, <2>1 DEF Typed
  <1>7. ASSUME NEW e \in Entries
        PROVE  EntryMoves(e)
    <2>1. InFlight(e) \subseteq InFlight(e)'
      BY <1>4, <1>5 DEF InFlight
    <2>2. QED
      BY <2>1, <1>1, EntryKept
  <1>8. \A d \in Calls : CallMoves(d)
    BY <1>1, <1>2, <1>4, <1>5 DEF CallMoves
  <1>9. QED
    BY <1>1, <1>3, <1>6, <1>7, <1>8 DEF Moves

\* A call ends and leaves the cache alone.
LEMMA EndStep ==
    ASSUME Typed, NEW c \in Calls, call' = [call EXCEPT ![c] = NoCall],
           UNCHANGED <<cred, query, told>>, active' \in Lookups \cup {None},
           call[c].of \notin Entries \/ ~call[c].live
    PROVE  Typed' /\ Moves
  <1>1. /\ call' \in [Calls -> CallState] /\ call'[c] = NoCall
        /\ \A d \in Calls \ {c} : call'[d] = call[d]
    BY DEF Typed, CallState
  <1>2. Typed'
    BY <1>1 DEF Typed
  <1>3. ASSUME NEW e \in Entries
        PROVE  EntryMoves(e)
    <2>1. InFlight(e) \subseteq InFlight(e)'
      BY <1>1 DEF InFlight
    <2>2. QED
      BY <2>1, EntryKept
  <1>4. \A d \in Calls : CallMoves(d)
    BY <1>1 DEF CallMoves
  <1>5. QED
    BY <1>2, <1>3, <1>4 DEF Moves

\* A read ends with reply r.
LEMMA SettleStep ==
    ASSUME Typed, NEW c \in Calls, call' = [call EXCEPT ![c] = NoCall],
           UNCHANGED <<cred, told>>, call[c].of \in Entries, call[c].live,
           NEW r \in Reply, Settle(call[c].of, r),
           r.error = "no" => call[c].at = "served" /\ r = call[c].result
    PROVE  Typed' /\ Moves
  <1> DEFINE e == call[c].of
  <1>0. e \in Entries
    OBVIOUS
  <1>1. /\ call' \in [Calls -> CallState] /\ call'[c] = NoCall
        /\ \A d \in Calls \ {c} : call'[d] = call[d]
    BY DEF Typed, CallState
  <1>2. query' = [query EXCEPT ![e] =
                     IF r.error = "no" THEN r ELSE [@ EXCEPT !.error = r.error]]
    BY DEF Settle
  <1>3. active' \in Lookups \cup {None}
    BY DEF Settle, Looking, Typed
  <1>4. /\ \A f \in Entries \ {e} : query'[f] = query[f]
        /\ query' = [f \in Entries |-> query'[f]]
        /\ r.error = "no" => query'[e] = r
        /\ r.error # "no" => query'[e] = [query[e] EXCEPT !.error = r.error]
    BY <1>0, <1>2 DEF Typed
  <1>5. query[e] \in Reply /\ r.error \in Errors
    BY <1>0 DEF Typed, Reply
  <1>6. r.error # "no" => /\ query'[e] \in Reply /\ query'[e].data = query[e].data
                          /\ query'[e].error # "no"
    BY <1>4, <1>5 DEF Reply
  <1>7. Typed'
    <2>1. \A f \in Entries : query'[f] \in Reply
      BY <1>4, <1>6 DEF Typed
    <2>2. QED
      BY <1>1, <1>3, <1>4, <2>1 DEF Typed
  <1>8. EntryMoves(e)
    <2>1. CASE r.error = "no"
      <3>1. Answered(c, e)
        BY <2>1 DEF Answered, InFlight
      <3>2. QED
        BY <2>1, <3>1, <1>4 DEF EntryMoves
    <2>2. CASE r.error # "no"
      BY <2>2, <1>6 DEF EntryMoves
    <2>3. QED
      BY <2>1, <2>2
  <1>9. ASSUME NEW f \in Entries \ {e}
        PROVE  EntryMoves(f)
    <2>1. InFlight(f) \subseteq InFlight(f)'
      BY <1>1 DEF InFlight
    <2>2. QED
      BY <2>1, <1>4, EntryKept
  <1>10. \A d \in Calls : CallMoves(d)
    BY <1>1 DEF CallMoves
  <1>11. QED
    BY <1>0, <1>7, <1>8, <1>9, <1>10 DEF Moves

\* The answer to a write that was done.
LEMMA DoneStep ==
    ASSUME Typed, NEW c \in Calls, ArriveDone(c), call[c].at = "served", UNCHANGED cred
    PROVE  Typed' /\ Moves
  <1> DEFINE of == call[c].of
             again == Invalidated(of) \cap Observed
             dropped == UNION {Dropped(e) : e \in again}
             kept == Forgotten(dropped)
             fetched == {e \in again : InFlight(e) \subseteq Dropped(e)}
  <1>1. /\ of[1] \in Writes /\ call[c].result.error = "no"
        /\ \/ call' = [kept EXCEPT ![c] = NoCall]
           \/ \E e \in fetched : call' = [kept EXCEPT ![c] = Made(e)]
        /\ query' = [e \in Entries |->
                       IF e \in fetched /\ query[e].data = None THEN Empty
                       ELSE [query[e] EXCEPT !.stale = @ \/ e \in Invalidated(of)]]
        /\ told' = IF of[1] = "revoke" /\ CredentialOf(of[2]) \in again
                   THEN told \cup {of[2]} ELSE told
        /\ UNCHANGED active
    BY DEF ArriveDone, CredentialOf
  <1>2. of \notin Entries /\ of = <<of[1], of[2]>>
    <2>1. call[c] \in CallOn
      BY CallTypes DEF Typed, CallState
    <2>2. of \in Purposes
      BY <2>1 DEF CallOn
    <2>3. QED
      BY <1>1, <2>2, Purpose
  <1>3. /\ again \subseteq Entries /\ again \subseteq Invalidated(of)
        /\ fetched \subseteq again
    BY Purpose DEF Observed, ObservedOn
  <1>4. /\ kept \in [Calls -> CallState]
        /\ \A d \in Calls : /\ kept[d].of = call[d].of /\ kept[d].at = call[d].at
                            /\ kept[d].result = call[d].result
                            /\ kept[d].live <=> call[d].live /\ d \notin dropped
    BY ForgottenTypes DEF Typed
  <1>5. /\ \A e \in again : Dropped(e) \subseteq dropped
        /\ \A d \in dropped : call[d].of \in again
    BY DEF Dropped, InFlight
  <1> HIDE DEF again, kept, dropped, fetched
  <1>6. /\ call' \in [Calls -> CallState]
        /\ call'[c] = NoCall \/ \E e \in Entries : call'[c] = Made(e)
        /\ \A d \in Calls \ {c} : call'[d] = kept[d]
    <2>1. CASE call' = [kept EXCEPT ![c] = NoCall]
      BY <2>1, <1>4 DEF CallState
    <2>2. ASSUME NEW e \in fetched, call' = [kept EXCEPT ![c] = Made(e)]
          PROVE  /\ call' \in [Calls -> CallState] /\ call'[c] = Made(e) /\ e \in Entries
                 /\ \A d \in Calls \ {c} : call'[d] = kept[d]
      <3>1. e \in Entries /\ Made(e) \in CallOn
        BY <1>3, CallTypes DEF Purposes
      <3>2. QED
        BY <2>2, <3>1, <1>4 DEF CallState
    <2>3. QED
      BY <2>1, <2>2, <1>1
  <1>7. ASSUME NEW e \in Entries
        PROVE  /\ query'[e] \in Reply
               /\ e \in fetched /\ query[e].data = None => query'[e] = Empty
               /\ ~(e \in fetched /\ query[e].data = None) =>
                    /\ query'[e].data = query[e].data /\ query'[e].error = query[e].error
                    /\ query'[e].stale <=> query[e].stale \/ e \in Invalidated(of)
    <2>1. query[e] \in Reply /\ (query[e].stale \/ e \in Invalidated(of)) \in BOOLEAN
      BY DEF Typed
    <2>2. query'[e] = IF e \in fetched /\ query[e].data = None THEN Empty
                      ELSE [query[e] EXCEPT !.stale = @ \/ e \in Invalidated(of)]
      BY <1>1
    <2>3. CASE e \in fetched /\ query[e].data = None
      BY <2>2, <2>3, ReplyTypes
    <2>4. CASE ~(e \in fetched /\ query[e].data = None)
      <3>1. query'[e] = [query[e] EXCEPT !.stale = query[e].stale \/ e \in Invalidated(of)]
        BY <2>2, <2>4
      <3>2. QED
        BY <2>1, <2>4, <3>1 DEF Reply
    <2>5. QED
      BY <2>3, <2>4
  <1>8. Typed'
    <2>1. query' \in [Entries -> Reply]
      BY <1>1, <1>7
    <2>2. told' \subseteq Lookups
      BY <1>1, <1>3, Purpose DEF Typed
    <2>3. QED
      BY <1>1, <1>6, <2>1, <2>2 DEF Typed
  <1>9. ASSUME NEW e \in Entries
        PROVE  EntryMoves(e)
    <2>1. CASE e \in fetched /\ query[e].data = None
      BY <2>1, <1>7 DEF EntryMoves
    <2>2. CASE ~(e \in fetched /\ query[e].data = None)
      <3>1. CASE e \in Invalidated(of)
        BY <2>2, <3>1, <1>7 DEF EntryMoves
      <3>2. CASE e \notin Invalidated(of)
        <4>1. ASSUME NEW d \in InFlight(e)
              PROVE  d \in InFlight(e)'
          <5>1. d \in Calls /\ call[d].of = e /\ call[d].live /\ d # c
            BY <1>2 DEF InFlight
          <5>2. d \notin dropped
            BY <3>2, <5>1, <1>3, <1>5
          <5>3. QED
            BY <5>1, <5>2, <1>4, <1>6 DEF InFlight
        <4>2. QED
          BY <4>1, <2>2, <1>7 DEF EntryMoves
      <3>3. QED
        BY <3>1, <3>2
    <2>3. QED
      BY <2>1, <2>2
  <1>10. ASSUME NEW d \in Calls
         PROVE  CallMoves(d)
    <2>1. CASE d # c
      BY <2>1, <1>4, <1>6 DEF CallMoves
    <2>2. ASSUME NEW e \in Entries, call'[c] = Made(e)
          PROVE  CallMoves(c)
      <3>1. Made(e).at = "sent" /\ Made(e).of = e /\ e[1] # "revoke"
        BY CallTypes, Purpose DEF Purposes, Writes
      <3>2. QED
        BY <2>2, <3>1 DEF CallMoves, FromAPage
    <2>3. QED
      BY <2>1, <2>2, <1>6 DEF CallMoves
  <1>11. ASSUME NEW w \in told', w \notin told
         PROVE  NewlyTold(w)
    <2> DEFINE e == CredentialOf(w)
    <2>1. of = <<"revoke", w>> /\ e \in again
      BY <1>1, <1>2, <1>11
    <2>2. e \in Entries /\ e \in Invalidated(of)
      BY <2>1, <1>3
    <2>3. ASSUME query[e].data # None, NEW d \in InFlight(e)'
          PROVE  call'[d].at = "sent"
      <3>1. d \in Calls /\ call'[d].of = e /\ call'[d].live
        BY DEF InFlight
      <3>2. CASE d = c
        <4>1. PICK f \in Entries : call'[c] = Made(f)
          BY <3>1, <3>2, <1>6, CallTypes
        <4>2. QED
          BY <3>2, <4>1, CallTypes DEF Purposes
      <3>3. CASE d # c
        <4>1. call[d].of = e /\ call[d].live /\ d \notin dropped
          BY <3>1, <3>3, <1>4, <1>6
        <4>2. d \in Dropped(e)
          BY <2>3, <4>1 DEF Dropped, InFlight
        <4>3. QED
          BY <4>1, <4>2, <2>1, <1>5
      <3>4. QED
        BY <3>2, <3>3
    <2>4. query[e].data # None => query'[e].stale
      BY <2>2, <1>7
    <2>5. QED
      BY <2>1, <2>3, <2>4, <1>1 DEF NewlyTold
  <1>12. QED
    BY <1>8, <1>9, <1>10, <1>11 DEF Moves

\* Every step moves so.
LEMMA NextMoves ==
    ASSUME Typed, [Next]_vars
    PROVE  Typed' /\ Moves
  <1>1. CASE UNCHANGED vars
    BY <1>1, QuietStep DEF vars, pageVars, Typed
  <1>2. ASSUME NEW p \in Pages, OpenPage(p)
        PROVE  Typed' /\ Moves
    BY <1>2, QuietStep DEF OpenPage
  <1>3. ASSUME NEW w \in Lookups, LookUp(w)
        PROVE  Typed' /\ Moves
    BY <1>3, QuietStep DEF LookUp, Looking
  <1>4. ASSUME NEW c \in Calls, NEW e \in Entries, Fetch(c, e)
        PROVE  Typed' /\ Moves
    BY <1>4, FetchStep
  <1>5. ASSUME NEW c \in Calls, NEW w \in Wallets, OnRegister(c, w)
        PROVE  Typed' /\ Moves
    <2>1. FromAPage(<<"register", w>>)
      BY DEF FromAPage
    <2>2. QED
      BY <1>5, <2>1, WriteStep DEF OnRegister, Writes
  <1>6. ASSUME NEW c \in Calls, OnIssue(c)
        PROVE  Typed' /\ Moves
    <2>1. FromAPage(<<"issue", active>>) /\ active \in Wallets
      BY <1>6, ConsoleAssumption DEF FromAPage, OnIssue, Typed
    <2>2. QED
      BY <1>6, <2>1, WriteStep DEF OnIssue, Writes
  <1>7. ASSUME NEW c \in Calls, OnRevoke(c)
        PROVE  Typed' /\ Moves
    <2>1. active \in Lookups /\ active \in Wallets
      BY <1>7, ConsoleAssumption DEF OnRevoke, Typed
    <2>2. query[CredentialOf(active)].data # None
      BY <1>7, ConsoleAssumption DEF OnRevoke, OffersRevoke, CredentialOf
    <2>3. FromAPage(<<"revoke", active>>)
      BY <2>1, <2>2 DEF FromAPage
    <2>4. QED
      BY <1>7, <2>1, <2>3, WriteStep DEF OnRevoke, Writes
  <1>8. ASSUME NEW c \in Calls, OnPublish(c)
        PROVE  Typed' /\ Moves
    <2>1. FromAPage(<<"publish", None>>)
      BY DEF FromAPage
    <2>2. QED
      BY <1>8, <2>1, WriteStep DEF OnPublish, Writes
  <1>9. ASSUME NEW c \in Calls, Serve(c)
        PROVE  Typed' /\ Moves
    BY <1>9, ServeStep
  <1>10. ASSUME NEW c \in Calls, Arrive(c)
         PROVE  Typed' /\ Moves
    <2>1. call[c].at = "served" /\ UNCHANGED cred /\ call[c] \in CallOn
      BY <1>10, CallTypes DEF Arrive, Typed, CallState
    <2>2. CASE ArriveRead(c) /\ call[c].live
      BY <2>1, <2>2, SettleStep DEF ArriveRead, CallOn
    <2>3. CASE ArriveRead(c) /\ ~call[c].live
      BY <2>1, <2>3, EndStep DEF ArriveRead, Typed
    <2>4. CASE ArriveFailed(c)
      <3>1. call[c].of \notin Entries
        BY <2>4, Purpose DEF ArriveFailed
      <3>2. active' \in Lookups \cup {None}
        BY <2>4 DEF ArriveFailed, Looking, Typed
      <3>3. QED
        BY <2>1, <2>4, <3>1, <3>2, EndStep DEF ArriveFailed
    <2>5. CASE ArriveDone(c)
      BY <2>1, <2>5, DoneStep
    <2>6. QED
      BY <1>10, <2>2, <2>3, <2>4, <2>5 DEF Arrive
  <1>11. ASSUME NEW c \in Calls, Lose(c)
         PROVE  Typed' /\ Moves
    <2>1. /\ call' = [call EXCEPT ![c] = NoCall] /\ UNCHANGED <<cred, told>>
          /\ IF call[c].live /\ call[c].of \in Entries
             THEN Settle(call[c].of, Fails("other"))
             ELSE UNCHANGED <<query, key, active>>
      BY <1>11 DEF Lose
    <2>2. CASE call[c].live /\ call[c].of \in Entries
      <3>1. Fails("other") \in Reply /\ Fails("other").error # "no"
        BY ReplyTypes DEF Errors
      <3>2. QED
        BY <2>1, <2>2, <3>1, SettleStep
    <2>3. CASE ~(call[c].live /\ call[c].of \in Entries)
      BY <2>1, <2>3, EndStep DEF Typed
    <2>4. QED
      BY <2>2, <2>3
  <1>12. CASE Reauthenticate
    BY <1>12, QuietStep DEF Reauthenticate, pageVars, Typed
  <1>13. QED
    BY <1>1, <1>2, <1>3, <1>4, <1>5, <1>6, <1>7, <1>8, <1>9, <1>10, <1>11, <1>12 DEF Next

-----------------------------------------------------------------------------
(***************************************************************************)
(* The inductive invariant.                                                *)
(***************************************************************************)
\* The proof of a wallet is of a root under which it was active.
ProofsAreOfActive ==
    \A w \in Lookups :
      /\ LET data == query[MembershipOf(w)].data IN data # None => data[w] = "active"
      /\ \A c \in Calls :
           Answered(c, MembershipOf(w)) /\ call[c].result.data # None
           => call[c].result.data[w] = "active"

\* A credential that was read is something.
ReadsFound ==
    \A w \in Lookups : \A c \in Calls :
      Answered(c, CredentialOf(w)) => call[c].result.data # None

\* A revocation is of a wallet that was read.  One that was answered is done.
RevokesKnown ==
    \A w \in Wallets \cup {None} : \A c \in Calls :
      call[c].of = <<"revoke", w>> /\ call[c].at # "idle" =>
        /\ w \in Lookups /\ query[CredentialOf(w)].data # None
        /\ call[c].at = "served" /\ call[c].result.error = "no" => cred[w] = "revoked"

\* A wallet whose revocation was told is revoked, its live reads will find
\* it so, and what is shown of it otherwise is to be read again.
ToldIsRevoked ==
    \A w \in told :
      LET e == CredentialOf(w) IN
      /\ cred[w] = "revoked"
      /\ \A c \in Calls : Answered(c, e) => call[c].result.data = "revoked"
      /\ query[e].error = "no" /\ query[e].data \notin {None, "revoked"}
         => query[e].stale \/ InFlight(e) # {}

PagesInv == Typed /\ ProofsAreOfActive /\ ReadsFound /\ RevokesKnown /\ ToldIsRevoked

\* Where an answered read comes from.
LEMMA AnsweredBefore ==
    ASSUME Typed, Moves, NEW e \in Entries, NEW c \in Calls, Answered(c, e)'
    PROVE  \/ Answered(c, e) /\ call'[c].result = call[c].result
           \/ call'[c].result = Read(e)
  <1>1. /\ call'[c].of = e /\ call'[c].live /\ call'[c].at = "served"
        /\ call'[c].result.error = "no"
    BY DEF Answered, InFlight
  <1>2. CallMoves(c)
    BY DEF Moves
  <1>3. call'[c] # NoCall
    BY <1>1, CallTypes
  <1>4. QED
    BY <1>1, <1>2, <1>3 DEF CallMoves, Answered, InFlight

\* What was read stays read.
LEMMA DataStays ==
    ASSUME Typed, ReadsFound, Moves, NEW w \in Lookups,
           query[CredentialOf(w)].data # None
    PROVE  query'[CredentialOf(w)].data # None
  <1>1. EntryMoves(CredentialOf(w))
    BY Purpose DEF Moves
  <1>2. QED
    BY <1>1 DEF EntryMoves, ReadsFound

LEMMA ProofsStep ==
    ASSUME Typed, ProofsAreOfActive, Moves
    PROVE  ProofsAreOfActive'
  <1> SUFFICES ASSUME NEW w \in Lookups
               PROVE  /\ LET data == query'[MembershipOf(w)].data
                         IN  data # None => data[w] = "active"
                      /\ \A c \in Calls :
                           Answered(c, MembershipOf(w))' /\ call'[c].result.data # None
                           => call'[c].result.data[w] = "active"
    BY DEF ProofsAreOfActive, MembershipOf
  <1> DEFINE e == MembershipOf(w)
  <1>1. /\ e \in Entries /\ e # Roots /\ e[1] = "membership" /\ e[2] = w /\ w \in Wallets
    BY Purpose, ConsoleAssumption
  <1>2. EntryMoves(e)
    BY <1>1 DEF Moves
  <1>3. query'[e].data # None => query'[e].data[w] = "active"
    BY <1>2, ReplyTypes DEF EntryMoves, ProofsAreOfActive
  <1>4. Read(e).data # None => Read(e).data[w] = "active"
    <2>1. Read(e) = Lookup("membership", w)
      BY <1>1 DEF Read
    <2>2. /\ Fails("notFound").data = None /\ Fails("denied").data = None
          /\ Holds(cred).data = cred /\ cred[w] \in States
      BY <1>1, ReplyTypes DEF Errors, Data, Typed
    <2>3. QED
      BY <2>1, <2>2 DEF Lookup, Root, States
  <1>5. ASSUME NEW c \in Calls, Answered(c, e)', call'[c].result.data # None
        PROVE  call'[c].result.data[w] = "active"
    BY <1>1, <1>4, <1>5, AnsweredBefore DEF ProofsAreOfActive
  <1>6. QED
    BY <1>3, <1>5

\* What a read of a credential answers.
LEMMA CredentialRead ==
    ASSUME Typed, NEW w \in Lookups, Read(CredentialOf(w)).error = "no"
    PROVE  /\ Read(CredentialOf(w)).data = cred[w]
           /\ cred[w] # None
  <1>1. w \in Wallets /\ cred[w] \in States
    BY ConsoleAssumption DEF Typed
  <1>2. Read(CredentialOf(w)) = Lookup("credential", w)
    BY Purpose DEF Read
  <1>3. cred[w] # "none"
    BY <1>2, ReplyTypes DEF Lookup, Errors
  <1>4. Lookup("credential", w) = Holds(cred[w]) /\ cred[w] \in Data
    BY <1>1, <1>3 DEF Lookup, States, Data
  <1>5. QED
    BY <1>1, <1>2, <1>3, <1>4, ReplyTypes, ConsoleAssumption DEF States

LEMMA ReadsStep ==
    ASSUME Typed, ReadsFound, Moves
    PROVE  ReadsFound'
  <1> SUFFICES ASSUME NEW w \in Lookups, NEW c \in Calls, Answered(c, CredentialOf(w))'
               PROVE  call'[c].result.data # None
    BY DEF ReadsFound, CredentialOf
  <1>1. CredentialOf(w) \in Entries /\ call'[c].result.error = "no"
    BY Purpose DEF Answered
  <1>2. CASE Answered(c, CredentialOf(w)) /\ call'[c].result = call[c].result
    BY <1>2 DEF ReadsFound
  <1>3. CASE call'[c].result = Read(CredentialOf(w))
    BY <1>1, <1>3, CredentialRead
  <1>4. QED
    BY <1>1, <1>2, <1>3, AnsweredBefore

LEMMA RevokesStep ==
    ASSUME Typed, ReadsFound, RevokesKnown, Moves
    PROVE  RevokesKnown'
  <1> SUFFICES ASSUME NEW w \in Wallets \cup {None}, NEW c \in Calls,
                      call'[c].of = <<"revoke", w>>, call'[c].at # "idle"
               PROVE  /\ w \in Lookups /\ query'[CredentialOf(w)].data # None
                      /\ call'[c].at = "served" /\ call'[c].result.error = "no"
                         => cred'[w] = "revoked"
    BY DEF RevokesKnown, CredentialOf
  <1> DEFINE of == <<"revoke", w>>
  <1>1. /\ of \in Purposes /\ of[1] = "revoke" /\ of[2] = w
    BY Purpose DEF Writes
  <1>2. CallMoves(c) /\ call'[c] # NoCall
    BY <1>1, CallTypes DEF Moves
  <1>3. CASE call'[c].at = "sent" /\ FromAPage(call'[c].of)
    <2>1. w \in Lookups /\ query[CredentialOf(w)].data # None
      BY <1>1, <1>3 DEF FromAPage
    <2>2. QED
      BY <1>3, <2>1, DataStays
  <1>4. CASE call[c].of = of /\ call[c].at # "idle"
    <2>1. /\ w \in Lookups /\ query[CredentialOf(w)].data # None
          /\ call[c].at = "served" /\ call[c].result.error = "no" => cred[w] = "revoked"
      BY <1>4 DEF RevokesKnown
    <2>2. w \in Wallets /\ query'[CredentialOf(w)].data # None
      BY <2>1, DataStays, ConsoleAssumption
    <2>3. cred[w] = "revoked" => cred'[w] = "revoked"
      BY <2>2 DEF Moves
    <2>4. CASE call'[c].at = call[c].at /\ call'[c].result = call[c].result
      BY <2>1, <2>2, <2>3, <2>4
    <2>5. CASE call'[c].result.error = "no" => cred'[w] = "revoked"
      BY <2>1, <2>2, <2>5
    <2>6. CASE call'[c].at = "sent"
      BY <2>1, <2>2, <2>6
    <2>7. QED
      BY <1>1, <1>2, <1>4, <2>2, <2>4, <2>5, <2>6 DEF CallMoves
  <1>5. QED
    BY <1>1, <1>2, <1>3, <1>4 DEF CallMoves

LEMMA ToldStep ==
    ASSUME Typed, ReadsFound, RevokesKnown, ToldIsRevoked, Moves, Typed'
    PROVE  ToldIsRevoked'
  <1> SUFFICES ASSUME NEW w \in told'
               PROVE  LET e == CredentialOf(w) IN
                      /\ cred'[w] = "revoked"
                      /\ \A c \in Calls : Answered(c, e)' => call'[c].result.data = "revoked"
                      /\ query'[e].error = "no" /\ query'[e].data \notin {None, "revoked"}
                         => query'[e].stale \/ InFlight(e)' # {}
    BY DEF ToldIsRevoked, CredentialOf
  <1> DEFINE e == CredentialOf(w)
  <1>1. w \in Lookups /\ w \in Wallets /\ e \in Entries
    BY Purpose, ConsoleAssumption DEF Typed
  <1>2. CASE w \in told
    <2>1. cred[w] = "revoked" /\ cred'[w] = "revoked"
      BY <1>1, <1>2 DEF ToldIsRevoked, Moves
    <2>2. ASSUME NEW c \in Calls, Answered(c, e)'
          PROVE  call'[c].result.data = "revoked"
      <3>1. call'[c].result.error = "no"
        BY <2>2 DEF Answered
      <3>2. CASE call'[c].result = Read(e)
        BY <1>1, <2>1, <3>1, <3>2, CredentialRead
      <3>3. CASE Answered(c, e) /\ call'[c].result = call[c].result
        BY <1>2, <3>3 DEF ToldIsRevoked
      <3>4. QED
        BY <1>1, <2>2, <3>2, <3>3, AnsweredBefore
    <2>3. ASSUME query'[e].error = "no", query'[e].data \notin {None, "revoked"}
          PROVE  query'[e].stale \/ InFlight(e)' # {}
      <3>1. EntryMoves(e)
        BY <1>1 DEF Moves
      <3>2. CASE query[e].data = None /\ query'[e] = Empty
        BY <2>3, <3>2, ReplyTypes
      <3>3. CASE \E c \in Calls : Answered(c, e) /\ query'[e] = call[c].result
        BY <1>2, <2>3, <3>3 DEF ToldIsRevoked
      <3>4. CASE /\ query'[e].data = query[e].data /\ query'[e].error = query[e].error
                 /\ query[e].stale => query'[e].stale
                 /\ InFlight(e) # {} => InFlight(e)' # {} \/ query'[e].stale
        <4>1. query[e].stale \/ InFlight(e) # {}
          BY <1>2, <2>3, <3>4 DEF ToldIsRevoked
        <4>2. QED
          BY <3>4, <4>1
      <3>5. QED
        BY <2>3, <3>1, <3>2, <3>3, <3>4 DEF EntryMoves
    <2>4. QED
      BY <2>1, <2>2, <2>3
  <1>3. CASE NewlyTold(w)
    <2>1. PICK c \in Calls : /\ call[c].of = <<"revoke", w>> /\ call[c].at = "served"
                             /\ call[c].result.error = "no"
      BY <1>3 DEF NewlyTold
    <2>2. cred[w] = "revoked" /\ query[e].data # None
      BY <1>1, <2>1 DEF RevokesKnown
    <2>3. cred'[w] = "revoked"
      BY <1>1, <2>2 DEF Moves
    <2>4. query'[e].stale /\ \A d \in InFlight(e)' : call'[d].at = "sent"
      BY <1>3, <2>2 DEF NewlyTold
    <2>5. \A d \in Calls : ~Answered(d, e)'
      BY <2>4 DEF Answered
    <2>6. QED
      BY <2>3, <2>4, <2>5
  <1>4. QED
    BY <1>2, <1>3 DEF Moves

\* Specification => invariant: for any wallets, calls and bounds.
THEOREM PagesInvariant == Spec => []PagesInv
  <1>1. Init => PagesInv
    <2> SUFFICES ASSUME Init
                 PROVE  PagesInv
      OBVIOUS
    <2>1. /\ \A e \in Entries : query[e] = Empty
          /\ \A c \in Calls : call[c] = NoCall
          /\ told = {} /\ active = None
      BY DEF Init
    <2>2. Typed
      BY ReplyTypes DEF Init, Typed, CallState, States
    <2>3. \A c \in Calls : call[c].at = "idle" /\ call[c].of = None
      BY <2>1, CallTypes
    <2>4. \A w \in Lookups : MembershipOf(w) \in Entries
      BY Purpose
    <2>5. ProofsAreOfActive /\ ReadsFound
      BY <2>1, <2>3, <2>4, ReplyTypes DEF ProofsAreOfActive, ReadsFound, Answered
    <2>6. RevokesKnown /\ ToldIsRevoked
      BY <2>1, <2>3 DEF RevokesKnown, ToldIsRevoked
    <2>7. QED
      BY <2>2, <2>5, <2>6 DEF PagesInv
  <1>2. PagesInv /\ [Next]_vars => PagesInv'
    BY NextMoves, ProofsStep, ReadsStep, RevokesStep, ToldStep DEF PagesInv
  <1>3. QED
    BY <1>1, <1>2, PTL DEF Spec

\* For the credentials page: what is shown active of a wallet whose
\* revocation was answered there is marked stale or being read again.
THEOREM RevocationShows == Spec => []RevokedIsShown
  <1>1. PagesInv => RevokedIsShown
    <2> SUFFICES ASSUME PagesInv, NEW w \in told, Pill(w) = "Active"
                 PROVE  LET e == <<"credential", w>>
                        IN  query[e].stale \/ InFlight(e) # {}
      BY DEF RevokedIsShown
    <2> DEFINE e == CredentialOf(w)
    <2>1. query[e] \in Reply
      BY Purpose DEF PagesInv, Typed
    <2>2. query[e].error = "no" /\ query[e].data \notin {None, "revoked"}
      BY <2>1 DEF Pill, IsLoading, Failed, Reply, Errors, CredentialOf
    <2>3. QED
      BY <2>2 DEF PagesInv, ToldIsRevoked, CredentialOf
  <1>2. QED
    BY <1>1, PagesInvariant, PTL

\* For the explorer: what it calls compliant, with no warning and against the
\* current roots, is not revoked.
THEOREM CompliantMeansActive == Spec => []CompliantIsActive
  <1>1. PagesInv => CompliantIsActive
    <2> SUFFICES ASSUME PagesInv, NEW w \in Lookups, RootsMatch(w), query[Roots].data = Root
                 PROVE  cred[w] = "active"
      BY DEF CompliantIsActive
    <2>1. /\ query[MembershipOf(w)].data # None
          /\ query[MembershipOf(w)].data = cred
      BY DEF RootsMatch, Root, MembershipOf
    <2>2. QED
      BY <2>1 DEF PagesInv, ProofsAreOfActive
  <1>2. QED
    BY <1>1, PagesInvariant, PTL

-----------------------------------------------------------------------------
(***************************************************************************)
(* The wallet signatures: WalletAuth.                                      *)
(***************************************************************************)

\* The prompt that calls may share is open, was opened for the wallet it is
\* shared under, and signs no body.
SharedPrompt ==
    inflight # Null =>
        /\ inflight \in Prompts
        /\ prompt[inflight] # Null
        /\ prompt[inflight].wallet = inflightWallet
        /\ prompt[inflight].body = Null

\* The cached signature signs no body.
CachedPlain == cached # Null => cached.body = Null

\* A call k in order: the prompt it waits for is open and asks for what it
\* needs; headers it has are its own; and a reused signature was young when it
\* was taken.
InOrder(k, prompts, now) ==
    /\ k.on # Null =>
          /\ prompts[k.on] # Null
          /\ prompts[k.on].wallet = k.asker
          /\ prompts[k.on].body = k.body
    /\ k.headers # Null =>
          k.on = Null /\ k.headers.wallet = k.asker /\ k.headers.body = k.body
    /\ k.reusedAt # Null =>
          /\ k.headers # Null
          /\ k.reusedAt <= now
          /\ k.reusedAt < k.headers.timestamp + REPLAY_WINDOW

CallsInOrder == \A c \in Requests : request[c] # Null => InOrder(request[c], prompt, clock)

\* The inductive invariant.
AuthInv == AuthTypeOK /\ SharedPrompt /\ CachedPlain /\ CallsInOrder

\* AuthTypeOK for every step.
LEMMA TypeStep == AuthTypeOK /\ [AuthNext]_authVars => AuthTypeOK'
<1> SUFFICES ASSUME AuthTypeOK, [AuthNext]_authVars PROVE AuthTypeOK'
    OBVIOUS
<1> USE WalletAuthAssumption
<1>1. ASSUME NEW w \in Signers \cup {Null}, Sync(w) PROVE AuthTypeOK'
    BY <1>1 DEF Sync, AuthTypeOK
<1>2. ASSUME NEW c \in Requests, ApiFetch(c) PROVE AuthTypeOK'
    <2>1. CASE signer = Null /\ request' = [request EXCEPT ![c] = Sent(Null, Null)]
                 /\ UNCHANGED <<cacheVars, prompt>>
        <3>1. Sent(Null, Null) \in Request
            BY <2>1 DEF Sent, Request, AuthTypeOK
        <3> QED BY <1>2, <2>1, <3>1 DEF ApiFetch, cacheVars, AuthTypeOK
    <2>2. CASE signer # Null /\ Reusable /\ request' = [request EXCEPT ![c] = Sent(cached, clock)]
                 /\ UNCHANGED <<cacheVars, prompt>>
        <3>1. Sent(cached, clock) \in Request
            BY <2>2 DEF Sent, Request, AuthTypeOK
        <3> QED BY <1>2, <2>2, <3>1 DEF ApiFetch, cacheVars, AuthTypeOK
    <2>3. CASE signer # Null /\ Sharable /\ request' = [request EXCEPT ![c] = Waiting(inflight, Null)]
                 /\ UNCHANGED <<cacheVars, prompt>>
        <3>1. Waiting(inflight, Null) \in Request
            BY <2>3 DEF Waiting, Request, Sharable, AuthTypeOK
        <3> QED BY <1>2, <2>3, <3>1 DEF ApiFetch, cacheVars, AuthTypeOK
    <2>4. ASSUME signer # Null, NEW p \in Prompts, OpenPrompt(p, Null),
                 request' = [request EXCEPT ![c] = Waiting(p, Null)], inflight' = p,
                 inflightWallet' = signer, UNCHANGED <<signer, cached>>
          PROVE AuthTypeOK'
        <3>1. Waiting(p, Null) \in Request
            BY <2>4 DEF Waiting, Request, AuthTypeOK
        <3>2. [wallet |-> signer, timestamp |-> clock, body |-> Null] \in Message
            BY <2>4 DEF Message, AuthTypeOK
        <3> QED BY <1>2, <2>4, <3>1, <3>2 DEF ApiFetch, OpenPrompt, AuthTypeOK
    <2> QED BY <1>2, <2>1, <2>2, <2>3, <2>4 DEF ApiFetch
<1>3. ASSUME NEW c \in Requests, ApiFetchBinary(c) PROVE AuthTypeOK'
    <2>1. CASE signer = Null /\ request' = [request EXCEPT ![c] = [Sent(Null, Null) EXCEPT !.body = c]]
                 /\ UNCHANGED prompt
        <3>1. [Sent(Null, Null) EXCEPT !.body = c] \in Request
            BY <2>1 DEF Sent, Request, AuthTypeOK
        <3> QED BY <1>3, <2>1, <3>1 DEF ApiFetchBinary, cacheVars, AuthTypeOK
    <2>2. ASSUME signer # Null, NEW p \in Prompts, OpenPrompt(p, c),
                 request' = [request EXCEPT ![c] = Waiting(p, c)]
          PROVE AuthTypeOK'
        <3>1. Waiting(p, c) \in Request
            BY <2>2 DEF Waiting, Request, AuthTypeOK
        <3>2. [wallet |-> signer, timestamp |-> clock, body |-> c] \in Message
            BY <2>2 DEF Message, AuthTypeOK
        <3> QED BY <1>3, <2>2, <3>1, <3>2 DEF ApiFetchBinary, OpenPrompt, cacheVars, AuthTypeOK
    <2> QED BY <1>3, <2>1, <2>2 DEF ApiFetchBinary
<1>4. ASSUME NEW c \in Requests, Served(c) PROVE AuthTypeOK'
    BY <1>4 DEF Served, cacheVars, AuthTypeOK
<1>5. ASSUME NEW p \in Prompts, Signed(p) PROVE AuthTypeOK'
    <2>1. prompt[p] \in Message
        BY <1>5 DEF Signed, AuthTypeOK
    <2>2. request' \in [Requests -> Request \cup {Null}]
        <3>1. SUFFICES ASSUME NEW c \in Requests, request[c] # Null
              PROVE [request[c] EXCEPT !.at = "sent", !.on = Null, !.headers = prompt[p]] \in Request
            BY <1>5 DEF Signed, Leave, AuthTypeOK
        <3>2. request[c] \in Request
            BY <3>1 DEF AuthTypeOK
        <3> QED BY <2>1, <3>2 DEF Request
    <2> QED BY <1>5, <2>1, <2>2 DEF Signed, AuthTypeOK
<1>6. ASSUME NEW p \in Prompts, Declined(p) PROVE AuthTypeOK'
    BY <1>6 DEF Declined, AuthTypeOK
<1>7. CASE Tick
    BY <1>7 DEF Tick, cacheVars, AuthTypeOK
<1>8. CASE UNCHANGED authVars
    BY <1>8 DEF authVars, cacheVars, AuthTypeOK
<1> QED BY <1>1, <1>2, <1>3, <1>4, <1>5, <1>6, <1>7, <1>8 DEF AuthNext

\* Prompts that are opened, signed or declined are not the shared one, or are
\* no longer shared (inflight of getWalletAuthHeaders).
LEMMA SharedStep == AuthInv /\ [AuthNext]_authVars => SharedPrompt'
<1> SUFFICES ASSUME AuthInv, [AuthNext]_authVars PROVE SharedPrompt'
    OBVIOUS
<1> USE WalletAuthAssumption, NullIsNoMessage
<1>0. AuthTypeOK /\ SharedPrompt
    BY DEF AuthInv
<1>1. ASSUME NEW w \in Signers \cup {Null}, Sync(w) PROVE SharedPrompt'
    BY <1>1 DEF Sync, SharedPrompt
<1>2. ASSUME NEW c \in Requests, ApiFetch(c) PROVE SharedPrompt'
    <2>1. CASE UNCHANGED <<cacheVars, prompt>>
        BY <1>0, <2>1 DEF cacheVars, SharedPrompt
    <2>2. ASSUME NEW p \in Prompts, OpenPrompt(p, Null), inflight' = p,
                 inflightWallet' = signer
          PROVE SharedPrompt'
        <3>1. prompt'[p] = [wallet |-> signer, timestamp |-> clock, body |-> Null]
            BY <1>0, <2>2 DEF OpenPrompt, AuthTypeOK
        <3>2. signer # Null => prompt'[p] \in Message
            BY <1>0, <3>1 DEF Message, AuthTypeOK
        <3>3. signer # Null \/ UNCHANGED <<cacheVars, prompt>>
            BY <1>2 DEF ApiFetch
        <3> QED BY <1>0, <2>2, <3>1, <3>2, <3>3 DEF cacheVars, SharedPrompt
    <2> QED BY <1>2, <2>1, <2>2 DEF ApiFetch
<1>3. ASSUME NEW c \in Requests, ApiFetchBinary(c) PROVE SharedPrompt'
    <2>1. CASE UNCHANGED prompt
        BY <1>0, <1>3, <2>1 DEF ApiFetchBinary, cacheVars, SharedPrompt
    <2>2. ASSUME NEW p \in Prompts, OpenPrompt(p, c) PROVE SharedPrompt'
        <3>1. inflight # Null => inflight # p /\ prompt'[inflight] = prompt[inflight]
            BY <1>0, <2>2 DEF OpenPrompt, SharedPrompt, AuthTypeOK
        <3> QED BY <1>0, <1>3, <3>1 DEF ApiFetchBinary, cacheVars, SharedPrompt
    <2> QED BY <1>3, <2>1, <2>2 DEF ApiFetchBinary
<1>4. ASSUME NEW c \in Requests, Served(c) PROVE SharedPrompt'
    BY <1>0, <1>4 DEF Served, cacheVars, SharedPrompt
<1>5. ASSUME NEW p \in Prompts, Signed(p) \/ Declined(p) PROVE SharedPrompt'
    <2>1. CASE prompt[p].body = Null
        BY <1>5, <2>1 DEF Signed, Declined, SharedPrompt
    <2>2. CASE prompt[p].body # Null
        <3>1. inflight # Null => inflight # p /\ prompt'[inflight] = prompt[inflight]
            BY <1>0, <1>5, <2>2 DEF Signed, Declined, SharedPrompt, AuthTypeOK
        <3> QED BY <1>0, <1>5, <2>2, <3>1 DEF Signed, Declined, SharedPrompt
    <2> QED BY <2>1, <2>2
<1>6. CASE Tick \/ UNCHANGED authVars
    BY <1>0, <1>6 DEF Tick, authVars, cacheVars, SharedPrompt
<1> QED BY <1>1, <1>2, <1>3, <1>4, <1>5, <1>6 DEF AuthNext

\* The cache is filled only by a prompt without a body.
LEMMA CachedStep == AuthInv /\ [AuthNext]_authVars => CachedPlain'
<1> SUFFICES ASSUME AuthInv, [AuthNext]_authVars PROVE CachedPlain'
    OBVIOUS
<1> USE WalletAuthAssumption
<1>0. AuthTypeOK /\ CachedPlain
    BY DEF AuthInv
<1>1. ASSUME NEW p \in Prompts, Signed(p) PROVE CachedPlain'
    BY <1>0, <1>1 DEF Signed, CachedPlain
<1>2. ASSUME NEW w \in Signers \cup {Null}, Sync(w) PROVE CachedPlain'
    BY <1>2 DEF Sync, CachedPlain
<1>3. ASSUME cached' = cached PROVE CachedPlain'
    BY <1>0, <1>3 DEF CachedPlain
<1>4. ASSUME NEW c \in Requests, ApiFetch(c) \/ ApiFetchBinary(c) \/ Served(c)
      PROVE cached' = cached
    BY <1>4 DEF ApiFetch, ApiFetchBinary, Served, cacheVars
<1>5. ASSUME NEW p \in Prompts, Declined(p) PROVE cached' = cached
    BY <1>5 DEF Declined
<1>6. CASE Tick \/ UNCHANGED authVars
    BY <1>3, <1>6 DEF Tick, authVars, cacheVars
<1> QED BY <1>1, <1>2, <1>3, <1>4, <1>5, <1>6 DEF AuthNext

\* A call stays in order while the prompt it waits for stays as it is.
LEMMA StaysInOrder ==
    ASSUME AuthTypeOK, AuthTypeOK', NEW k \in Request, InOrder(k, prompt, clock), clock <= clock',
           k.on # Null => prompt'[k.on] = prompt[k.on]
    PROVE  InOrder(k, prompt', clock')
<1>1. clock \in Int /\ clock' \in Int
    BY WalletAuthAssumption DEF AuthTypeOK
<1>2. k.reusedAt # Null => k.reusedAt \in Int
    BY WalletAuthAssumption DEF Request
<1> QED BY <1>1, <1>2 DEF InOrder

\* Opening a prompt leaves those that somebody waits for alone.
LEMMA OpenInOrder ==
    ASSUME AuthTypeOK, NEW k \in Request, InOrder(k, prompt, clock),
           NEW p \in Prompts, NEW body, OpenPrompt(p, body)
    PROVE  k.on # Null => prompt'[k.on] = prompt[k.on]
<1> USE WalletAuthAssumption
<1>1. k.on # Null => k.on \in Prompts
    BY DEF Request
<1> QED BY <1>1 DEF InOrder, OpenPrompt, AuthTypeOK

\* Every step leaves every call in order: one that is made starts so, and one
\* that leaves takes the signature of the prompt it waited for.
LEMMA CallsStep == AuthInv /\ AuthTypeOK' /\ [AuthNext]_authVars => CallsInOrder'
<1> SUFFICES ASSUME AuthInv, AuthTypeOK', [AuthNext]_authVars, NEW d \in Requests, request'[d] # Null
             PROVE  InOrder(request'[d], prompt', clock')
    BY DEF CallsInOrder
<1> USE WalletAuthAssumption, NullIsNoMessage
<1>0. AuthTypeOK /\ SharedPrompt /\ CachedPlain
    BY DEF AuthInv
<1>k. request[d] # Null => request[d] \in Request /\ InOrder(request[d], prompt, clock)
    BY DEF AuthInv, CallsInOrder, AuthTypeOK
<1>t. clock \in Int /\ clock' \in Int
    BY <1>0 DEF AuthTypeOK
\* What most actions do to a call: nothing, and nothing to the prompts.
<1>s. ASSUME request'[d] = request[d], prompt' = prompt, clock <= clock'
      PROVE  InOrder(request'[d], prompt', clock')
    BY <1>0, <1>k, <1>s, StaysInOrder
<1>1. ASSUME NEW w \in Signers \cup {Null}, Sync(w)
      PROVE  InOrder(request'[d], prompt', clock')
    BY <1>1, <1>s, <1>t DEF Sync
<1>2. ASSUME NEW c \in Requests, ApiFetch(c) PROVE InOrder(request'[d], prompt', clock')
    <2>1. clock' = clock
        BY <1>2 DEF ApiFetch
    <2>2. CASE signer = Null /\ request' = [request EXCEPT ![c] = Sent(Null, Null)]
                 /\ UNCHANGED <<cacheVars, prompt>>
        <3>1. CASE d = c
            BY <1>0, <2>2, <3>1 DEF Sent, InOrder, AuthTypeOK
        <3>2. CASE d # c
            BY <1>0, <1>s, <1>t, <2>1, <2>2, <3>2 DEF AuthTypeOK
        <3> QED BY <3>1, <3>2
    <2>3. CASE signer # Null /\ Reusable /\ request' = [request EXCEPT ![c] = Sent(cached, clock)]
                 /\ UNCHANGED <<cacheVars, prompt>>
        <3>1. CASE d = c
            <4>1. request'[d] = Sent(cached, clock)
                BY <1>0, <2>3, <3>1 DEF AuthTypeOK
            <4> QED BY <1>0, <1>t, <2>1, <2>3, <4>1 DEF Sent, InOrder, Reusable, CachedPlain
        <3>2. CASE d # c
            BY <1>0, <1>s, <1>t, <2>1, <2>3, <3>2 DEF AuthTypeOK
        <3> QED BY <3>1, <3>2
    <2>4. CASE signer # Null /\ Sharable /\ request' = [request EXCEPT ![c] = Waiting(inflight, Null)]
                 /\ UNCHANGED <<cacheVars, prompt>>
        <3>1. CASE d = c
            <4>1. request'[d] = Waiting(inflight, Null)
                BY <1>0, <2>4, <3>1 DEF AuthTypeOK
            <4> QED BY <1>0, <2>4, <4>1 DEF Waiting, InOrder, Sharable, SharedPrompt
        <3>2. CASE d # c
            BY <1>0, <1>s, <1>t, <2>1, <2>4, <3>2 DEF AuthTypeOK
        <3> QED BY <3>1, <3>2
    <2>5. ASSUME signer # Null, NEW p \in Prompts, OpenPrompt(p, Null),
                 request' = [request EXCEPT ![c] = Waiting(p, Null)]
          PROVE  InOrder(request'[d], prompt', clock')
        <3>1. prompt'[p] = [wallet |-> signer, timestamp |-> clock, body |-> Null]
            BY <1>0, <2>5 DEF OpenPrompt, AuthTypeOK
        <3>2. prompt'[p] \in Message
            BY <1>0, <2>5, <3>1 DEF Message, AuthTypeOK
        <3>3. CASE d = c
            <4>1. request'[d] = Waiting(p, Null)
                BY <1>0, <2>5, <3>3 DEF AuthTypeOK
            <4> QED BY <3>1, <3>2, <4>1 DEF Waiting, InOrder
        <3>4. CASE d # c
            <4>1. request'[d] = request[d]
                BY <1>0, <2>5, <3>4 DEF AuthTypeOK
            <4> QED BY <1>0, <1>k, <1>t, <2>1, <2>5, <4>1, OpenInOrder, StaysInOrder
        <3> QED BY <3>3, <3>4
    <2> QED BY <1>2, <2>2, <2>3, <2>4, <2>5 DEF ApiFetch
<1>3. ASSUME NEW c \in Requests, ApiFetchBinary(c)
      PROVE  InOrder(request'[d], prompt', clock')
    <2>1. clock' = clock
        BY <1>3 DEF ApiFetchBinary
    <2>2. CASE signer = Null /\ request' = [request EXCEPT ![c] = [Sent(Null, Null) EXCEPT !.body = c]]
                 /\ UNCHANGED prompt
        <3>1. CASE d = c
            <4>1. request'[d] = [Sent(Null, Null) EXCEPT !.body = c]
                BY <1>0, <2>2, <3>1 DEF AuthTypeOK
            <4>2. request'[d].on = Null /\ request'[d].headers = Null /\ request'[d].reusedAt = Null
                BY <4>1 DEF Sent
            <4> QED BY <4>2 DEF InOrder
        <3>2. CASE d # c
            BY <1>0, <1>s, <1>t, <2>1, <2>2, <3>2 DEF AuthTypeOK
        <3> QED BY <3>1, <3>2
    <2>3. ASSUME signer # Null, NEW p \in Prompts, OpenPrompt(p, c),
                 request' = [request EXCEPT ![c] = Waiting(p, c)]
          PROVE  InOrder(request'[d], prompt', clock')
        <3>1. prompt'[p] = [wallet |-> signer, timestamp |-> clock, body |-> c]
            BY <1>0, <2>3 DEF OpenPrompt, AuthTypeOK
        <3>2. prompt'[p] \in Message
            BY <1>0, <2>3, <3>1 DEF Message, AuthTypeOK
        <3>3. CASE d = c
            <4>1. request'[d] = Waiting(p, c)
                BY <1>0, <2>3, <3>3 DEF AuthTypeOK
            <4> QED BY <3>1, <3>2, <4>1 DEF Waiting, InOrder
        <3>4. CASE d # c
            <4>1. request'[d] = request[d]
                BY <1>0, <2>3, <3>4 DEF AuthTypeOK
            <4> QED BY <1>0, <1>k, <1>t, <2>1, <2>3, <4>1, OpenInOrder, StaysInOrder
        <3> QED BY <3>3, <3>4
    <2> QED BY <1>3, <2>2, <2>3 DEF ApiFetchBinary
<1>4. ASSUME NEW c \in Requests, Served(c) PROVE InOrder(request'[d], prompt', clock')
    <2>1. request'[d] = request[d]
        BY <1>0, <1>4 DEF Served, AuthTypeOK
    <2> QED BY <1>4, <1>s, <1>t, <2>1 DEF Served
<1>5. ASSUME NEW p \in Prompts, Signed(p) PROVE InOrder(request'[d], prompt', clock')
    <2>1. clock' = clock /\ request[d] # Null
        BY <1>0, <1>5 DEF Signed, Leave, AuthTypeOK
    <2>2. CASE request[d].on = p
        <3>1. request'[d] = [request[d] EXCEPT !.at = "sent", !.on = Null, !.headers = prompt[p]]
            BY <1>5, <2>1, <2>2 DEF Signed, Leave
        <3>2. /\ request'[d].on = Null /\ request'[d].headers = prompt[p]
              /\ request'[d].asker = request[d].asker /\ request'[d].body = request[d].body
              /\ request'[d].reusedAt = request[d].reusedAt
            BY <1>k, <2>1, <3>1 DEF Request
        <3>3. request[d].reusedAt = Null
            BY <1>k, <2>1, <2>2 DEF InOrder
        <3> QED BY <1>k, <2>1, <2>2, <3>2, <3>3 DEF InOrder
    <2>3. CASE request[d].on # p
        <3>1. request'[d] = request[d]
            BY <1>5, <2>3 DEF Signed, Leave
        <3>2. request[d].on # Null => prompt'[request[d].on] = prompt[request[d].on]
            BY <1>0, <1>5, <1>k, <2>1, <2>3 DEF Signed, AuthTypeOK, Request
        <3> QED BY <1>0, <1>k, <1>t, <2>1, <3>1, <3>2, StaysInOrder
    <2> QED BY <2>2, <2>3
<1>6. ASSUME NEW p \in Prompts, Declined(p) PROVE InOrder(request'[d], prompt', clock')
    <2>1. clock' = clock /\ request[d] # Null /\ request[d].on # p /\ request'[d] = request[d]
        BY <1>6 DEF Declined
    <2>2. request[d].on # Null => prompt'[request[d].on] = prompt[request[d].on]
        BY <1>0, <1>6, <1>k, <2>1 DEF Declined, AuthTypeOK, Request
    <2> QED BY <1>0, <1>k, <1>t, <2>1, <2>2, StaysInOrder
<1>7. CASE Tick \/ UNCHANGED authVars
    BY <1>7, <1>s, <1>t DEF Tick, authVars
<1> QED BY <1>1, <1>2, <1>3, <1>4, <1>5, <1>6, <1>7 DEF AuthNext

\* The invariant holds in every state of every behaviour.
THEOREM Invariance == AuthSpec => []AuthInv
<1>1. AuthInit => AuthInv
    BY WalletAuthAssumption
       DEF AuthInit, AuthInv, AuthTypeOK, SharedPrompt, CachedPlain, CallsInOrder
<1>2. AuthInv /\ [AuthNext]_authVars => AuthInv'
    <2> SUFFICES ASSUME AuthInv, [AuthNext]_authVars PROVE AuthInv'
        OBVIOUS
    <2>1. AuthTypeOK'
        BY TypeStep DEF AuthInv
    <2>2. SharedPrompt' /\ CachedPlain' /\ CallsInOrder'
        BY <2>1, SharedStep, CachedStep, CallsStep
    <2> QED BY <2>1, <2>2 DEF AuthInv
<1> QED BY <1>1, <1>2, PTL DEF AuthSpec

\* No call leaves with a signature of another wallet or over another body,
\* for any number of wallets, prompts and calls (getWalletAuthHeaders).
THEOREM SignaturesFit == AuthSpec => []SignatureFits
<1>1. AuthInv => SignatureFits
    BY DEF AuthInv, CallsInOrder, InOrder, SignatureFits
<1> QED BY <1>1, Invariance, PTL

\* A reused signature is taken by the service whenever the trip of its call is
\* shorter than the difference of the two windows, whatever they are
\* (REPLAY_WINDOW_MS against REPLAY_WINDOW_SECS).
THEOREM ReuseInTime == AuthSpec => []ReuseLeavesTime
<1>1. AuthInv => ReuseLeavesTime
    <2> SUFFICES ASSUME AuthInv, NEW c \in Requests, request[c] # Null, request[c].reusedAt # Null,
                        clock - request[c].reusedAt <= REPLAY_WINDOW_SECS - REPLAY_WINDOW
                 PROVE  Verdict(request[c].headers, request[c].body, request[c].asker) = "ok"
        BY DEF ReuseLeavesTime
    <2> USE WalletAuthAssumption, NullIsNoMessage
    <2>1. request[c] \in Request /\ InOrder(request[c], prompt, clock) /\ clock \in Int
        BY DEF AuthInv, CallsInOrder, AuthTypeOK
    <2>2. request[c].headers \in Message /\ request[c].headers # Null
        BY <2>1 DEF InOrder, Request
    <2>3. request[c].headers.timestamp \in Int /\ request[c].reusedAt \in Int
        BY <2>1, <2>2 DEF Request, Message
    <2>4. clock - request[c].headers.timestamp <= REPLAY_WINDOW_SECS
        BY <2>1, <2>3 DEF InOrder
    <2>5. request[c].headers.wallet = request[c].asker /\ request[c].headers.body = request[c].body
        BY <2>1, <2>2 DEF InOrder
    <2> QED BY <2>1, <2>2, <2>3, <2>4, <2>5 DEF Verdict
<1> QED BY <1>1, Invariance, PTL
=============================================================================

------------------------- MODULE DashboardSession -------------------------
(***************************************************************************)
(* Who is signed in to the dashboard and which API key it uses.            *)
(*                                                                         *)
(* The gateway issues nonces, trades a signed nonce for a session cookie   *)
(* and keeps the API keys of each tenant.  The browser holds two HttpOnly  *)
(* cookies: the gateway's session, and the active key, which the dashboard *)
(* server sets and clear and turns into the Bearer token of every        *)
(* proxied call.  Neither knows of the other, and nothing orders the calls *)
(* of the sign-in, the sign-out, the key panel and the key gate that read  *)
(* and write them.  A call carries the cookies of the moment it is sent;   *)
(* its effect on them is the moment its answer arrives.  Each cookie runs  *)
(* out by itself, the session after a day and the key after a week, and    *)
(* nothing in the page notices.  The model is of one tab.                  *)
(***************************************************************************)
EXTENDS Integers, FiniteSets

CONSTANTS
    Wallets,    \* tenants: one per wallet
    Keys,       \* API keys the gateway may mint
    Nonces,     \* nonces it may issue: bounds the sign-ins
    Slots,      \* bounds the calls of the gate and its pages in flight at a time
    None,       \* no cookie, no tenant
    Revoked,    \* a key that was deleted from api_keys
    MaxFaults   \* bound on calls that fail

VARIABLES
    nonce,      \* gateway: "new", "pending" in the NonceStore, or "gone"
    logins,     \* gateway, history: sessions issued against each nonce
    owner,      \* gateway: tenant of each minted key, None when not minted
    session,    \* browser: the session cookie
    ended,      \* history: whose session ran out, if nobody signed in or out since
    cookie,     \* browser: the active-key cookie
    me,         \* browser: the cached answer of /auth/me
    signIn,     \* the sign-in mutation
    clear,      \* the sign-out's DELETE of the active key, in flight or not
    gate,       \* RequireApiKey: "away" when its page is not mounted
    refresh,    \* the gate's refreshes in flight, and its pages' DELETEs
    panel,      \* the key handler of the panel or of the closed gate
    prefixes,   \* localStorage: keys whose prefix this browser remembers
    faults,     \* failures so far
    races       \* history: which unguarded orders of events have happened

ASSUME SessionAssumption ==
    /\ MaxFaults \in Nat
    /\ None \notin Wallets \cup Keys /\ None # Revoked

gatewayVars == <<nonce, logins, owner>>
sessionVars == <<session, ended>>
signVars == <<signIn, clear>>
vars == <<gatewayVars, sessionVars, cookie, me, signVars,
          gate, refresh, panel, prefixes, faults, races>>

\* What a call that is in flight carried: of the active key, its presence is
\* all that the dashboard server's routes look at, and the key itself is what
\* the gateway sees.
NoKey == "empty"
HasKey == "set"
Presence(k) == IF k = None THEN NoKey ELSE HasKey
Carried == Keys \cup {NoKey, HasKey, None}

Cookie == Keys \cup {None}
Tenant == Wallets \cup {None}
Idle == [at |-> "idle", key |-> None, live |-> FALSE]
Resting == [at |-> "idle", wallet |-> None, nonce |-> None, key |-> None]
Closed == [at |-> "idle", key |-> None]

TypeOK ==
    /\ nonce \in [Nonces -> {"new", "pending", "gone"}]
    /\ logins \in [Nonces -> Nat]
    /\ owner \in [Keys -> Wallets \cup {None, Revoked}]
    /\ session \in Tenant /\ ended \in Tenant
    /\ cookie \in Cookie
    /\ me \in Tenant
    /\ signIn \in [at : {"idle", "login", "status", "activate"},
                   wallet : Tenant, nonce : Nonces \cup {None}, key : Carried]
    /\ clear \in {"none", NoKey, HasKey}
    /\ gate \in {"away", "unknown", "open", "closed"}
    /\ refresh \in [Slots -> [at : {"idle", "status", "probe", "clear"}, key : Carried, live : BOOLEAN]]
    /\ panel \in [at : {"idle", "revealed", "activate", "clear"}, key : Cookie]
    /\ prefixes \in SUBSET Keys
    /\ faults \in 0 .. MaxFaults
    /\ races \in SUBSET {"overlap", "lapsed", "mixed"}

Init ==
    /\ nonce = [n \in Nonces |-> "new"]
    /\ logins = [n \in Nonces |-> 0]
    /\ owner = [k \in Keys |-> None]
    /\ session = None /\ ended = None
    /\ cookie = None
    /\ me = None
    /\ signIn = Resting
    /\ clear = "none"
    /\ gate = "away"
    /\ refresh = [s \in Slots |-> Idle]
    /\ panel = Closed
    /\ prefixes = {}
    /\ faults = 0
    /\ races = {}

Authenticated == me # None

\* RequireAuth sends everyone else to the login page.
PagesShown == Authenticated

Mounted == gate # "away"

\* A secret that is shown goes with its page; a call already made goes on.
PanelLeft == IF panel.at = "revealed" THEN Closed ELSE panel

\* A call fails, or its answer is an error.
Fault == faults < MaxFaults /\ faults' = faults + 1
FaultUnless(expected) == IF expected THEN UNCHANGED faults ELSE Fault

(***************************************************************************)
(* The gate's refresh: read the status, probe the key, drop a dead one.    *)
(***************************************************************************)
Started(now) == [at |-> "status", key |-> Presence(now), live |-> TRUE]

\* A refresh that starts alone makes up for what happened before.
RacesAtStart(slots) ==
    (races \ {"overlap", "lapsed"})
        \cup IF \E t \in Slots : slots[t].at # "idle" THEN {"overlap"} ELSE {}

KeyChangedUnheard(slots, now) == refresh' = slots /\ UNCHANGED races

\* The active-key-changed event: a mounted gate starts another refresh, whose
\* status request carries the cookie as it is now.
KeyChanged(slots, now) ==
    IF Mounted
    THEN \E s \in Slots :
            /\ slots[s].at = "idle"
            /\ refresh' = [slots EXCEPT ![s] = Started(now)]
            /\ races' = RacesAtStart(slots)
    ELSE refresh' = slots /\ UNCHANGED races

\* The dashboard server's DELETE: a request that carried no cookie changes
\* nothing, another empties whatever cookie there is when its answer comes.
CookieAfterDelete(carried) == IF carried = HasKey THEN None ELSE cookie

SetStatus(s, status) == gate' = IF refresh[s].live THEN status ELSE gate

\* fetchActiveKeyStatus: an answer that is not ok counts as no key; a call that
\* throws closes the gate.
RefreshStatus(s) ==
    /\ refresh[s].at = "status"
    /\ \/ /\ refresh[s].key = HasKey
          /\ refresh' = [refresh EXCEPT ![s].at = "probe", ![s].key = cookie]
          /\ UNCHANGED <<gate, faults>>
       \/ /\ FaultUnless(refresh[s].key = NoKey)
          /\ refresh' = [refresh EXCEPT ![s] = Idle]
          /\ SetStatus(s, "closed")
    /\ UNCHANGED <<gatewayVars, signVars, sessionVars, cookie, me, panel, prefixes, races>>

\* GET /usage with the key of the cookie as Bearer.  401 for no key and for a
\* deleted one; any other answer, an unreachable gateway's 502 included, lets
\* the pages through; a call that throws closes the gate.
Accepted(k) == k # None /\ owner[k] \in Wallets

RefreshProbe(s) ==
    /\ refresh[s].at = "probe"
    /\ \/ /\ ~Accepted(refresh[s].key)
          /\ refresh' = [refresh EXCEPT ![s].at = "clear", ![s].key = Presence(cookie)]
          /\ UNCHANGED <<gate, faults>>
       \/ /\ FaultUnless(Accepted(refresh[s].key))
          /\ SetStatus(s, "open")
          /\ refresh' = [refresh EXCEPT ![s] = Idle]
       \/ /\ Fault
          /\ SetStatus(s, "closed")
          /\ refresh' = [refresh EXCEPT ![s] = Idle]
    /\ UNCHANGED <<gatewayVars, signVars, sessionVars, cookie, me, panel, prefixes, races>>

\* The DELETE of a key the probe, or a page, found dead, done even when the gate
\* is gone.
RefreshClear(s) ==
    /\ refresh[s].at = "clear"
    /\ LET done == [refresh EXCEPT ![s] = Idle] IN
       \/ /\ cookie' = CookieAfterDelete(refresh[s].key)
          /\ KeyChanged(done, cookie')
          /\ UNCHANGED faults
       \/ Fault /\ refresh' = done /\ UNCHANGED <<cookie, races>>
    /\ SetStatus(s, "closed")
    /\ UNCHANGED <<gatewayVars, signVars, sessionVars, me, panel, prefixes>>

\* A page behind the gate is opened ...
MountGate ==
    /\ PagesShown /\ ~Mounted
    /\ gate' = "unknown"
    /\ \E s \in Slots :
          /\ refresh[s].at = "idle"
          /\ refresh' = [refresh EXCEPT ![s] = Started(cookie)]
    /\ races' = RacesAtStart(refresh)
    /\ panel' = PanelLeft
    /\ UNCHANGED <<gatewayVars, signVars, sessionVars, cookie, me, prefixes, faults>>

Cancelled == [s \in Slots |-> [refresh[s] EXCEPT !.live = FALSE]]

\* ... and left: its refreshes go on, but set no status.
UnmountGate ==
    /\ Mounted
    /\ gate' = "away"
    /\ refresh' = Cancelled
    /\ panel' = PanelLeft
    /\ UNCHANGED <<gatewayVars, signVars, sessionVars, cookie, me, prefixes, faults, races>>

(***************************************************************************)
(* Signing in.                                                             *)
(***************************************************************************)
SignInRest == UNCHANGED <<owner, cookie, clear, gate, panel, prefixes>>

\* The button of the login page: GET /auth/challenge, whose nonce the store
\* keeps with its time of issue, and the wallet is asked to sign it.  The
\* mutation is pending until its onSuccess is through.
StartSignIn(w, n) ==
    /\ ~Authenticated /\ signIn.at = "idle" /\ nonce[n] = "new"
    /\ nonce' = [nonce EXCEPT ![n] = "pending"]
    /\ signIn' = [Resting EXCEPT !.at = "login", !.wallet = w, !.nonce = n]
    /\ UNCHANGED <<logins, sessionVars, me, refresh, faults, races>>
    /\ SignInRest

\* The user does not sign.
Reject ==
    /\ signIn.at = "login"
    /\ signIn' = Resting
    /\ UNCHANGED <<nonce, logins, sessionVars, me, refresh, faults, races>>
    /\ SignInRest

ConsumeLeaves(n) == nonce' = nonce

\* NonceStore::consume: one atomic removal, and the age of what was removed.
Consume(n) == nonce' = [nonce EXCEPT ![n] = "gone"]

\* 300 seconds pass, or evict_expired runs.
NonceExpires(n) ==
    /\ nonce[n] = "pending"
    /\ nonce' = [nonce EXCEPT ![n] = "gone"]
    /\ UNCHANGED <<logins, sessionVars, me, signIn, refresh, faults, races>>
    /\ SignInRest

\* POST /auth/login: the nonce is consumed, then the message is checked.  The
\* answer sets the session cookie; onSuccess refetches /auth/me and asks for
\* the status of the active key, whose cookie may be another tenant's: that of
\* the session it replaces, or that of one that ran out.
Login ==
    /\ signIn.at = "login"
    /\ Consume(signIn.nonce)
    /\ IF nonce[signIn.nonce] = "pending"
       THEN /\ logins' = [logins EXCEPT ![signIn.nonce] = @ + 1]
            /\ session' = signIn.wallet /\ ended' = None
            /\ signIn' = [Resting EXCEPT !.at = "status", !.key = Presence(cookie)]
            /\ races' = IF clear # "none" \/ \E t \in {session, ended} : t \notin {None, signIn.wallet}
                        THEN races \cup {"mixed"} ELSE races
       ELSE signIn' = Resting /\ UNCHANGED <<logins, sessionVars, races>>
    /\ UNCHANGED <<me, refresh, faults>>
    /\ SignInRest

\* A signed login reaches the gateway once more: its answer was lost and the
\* call is sent again, so that the browser sees only the second answer.
LoginAgain(n) ==
    /\ (signIn.at = "login" /\ signIn.nonce = n) \/ logins[n] > 0
    /\ nonce[n] = "pending"
    /\ Consume(n)
    /\ logins' = [logins EXCEPT ![n] = @ + 1]
    /\ UNCHANGED <<sessionVars, me, signIn, refresh, faults, races>>
    /\ SignInRest

\* POST /api-keys under a session mints a key for its tenant; without one the
\* gateway wants the administrator's key and refuses.
Mint(k, tenant) == owner[k] = None /\ owner' = [owner EXCEPT ![k] = tenant]

\* Without an active key, onSuccess creates one for the tenant.  A status whose
\* answer is not ok counts as no key; a failure of either call ends the sign-in
\* silently, with or without a key minted.
SignInCreate ==
    /\ signIn.at = "status"
    /\ \/ /\ signIn.key = HasKey \/ session = None
          /\ signIn' = Resting
          /\ UNCHANGED <<owner, faults>>
       \/ /\ session # None
          /\ FaultUnless(signIn.key = NoKey)
          /\ \E k \in Keys :
                Mint(k, session) /\ signIn' = [Resting EXCEPT !.at = "activate", !.key = k]
       \/ /\ Fault
          /\ signIn' = Resting
          /\ \/ UNCHANGED owner
             \/ session # None /\ \E k \in Keys : Mint(k, session)
    /\ UNCHANGED <<nonce, logins, sessionVars, cookie, me, clear, gate, refresh, panel,
                   prefixes, races>>

\* POST /api/active-key answers with the cookie.
SignInActivate ==
    /\ signIn.at = "activate"
    /\ signIn' = Resting
    /\ \/ /\ cookie' = signIn.key
          /\ KeyChanged(refresh, cookie')
          /\ UNCHANGED faults
       \/ Fault /\ UNCHANGED <<cookie, refresh, races>>
    /\ UNCHANGED <<gatewayVars, sessionVars, me, clear, gate, panel, prefixes>>

\* /auth/me under a session; an error, the 401 of a session that has run out
\* included, keeps the answer the cache has.
FetchMe ==
    /\ session # None /\ me # session
    /\ me' = session
    /\ UNCHANGED <<gatewayVars, signVars, sessionVars, cookie, gate, refresh, panel,
                   prefixes, faults, races>>

(***************************************************************************)
(* Signing out.                                                            *)
(***************************************************************************)
SignOutKeepsKey ==
    /\ Authenticated /\ clear = "none"
    /\ \/ session' = None /\ UNCHANGED faults
       \/ Fault /\ UNCHANGED session
    /\ ended' = None
    /\ me' = None
    /\ gate' = "away"
    /\ refresh' = Cancelled
    /\ clear' = "none"
    /\ panel' = PanelLeft
    /\ races' = IF signIn.at # "idle" \/ panel'.at # "idle"
                THEN races \cup {"mixed"} ELSE races
    /\ UNCHANGED <<gatewayVars, cookie, signIn, prefixes>>

\* The answer of /auth/logout, then onSettled, whatever it was: the query cache is emptied, the
\* wallet disconnected, the pages left, and the DELETE of the active key is
\* sent and not waited for.
SignOut ==
    /\ Authenticated /\ clear = "none"
    /\ \/ session' = None /\ UNCHANGED faults
       \/ Fault /\ UNCHANGED session
    /\ ended' = None
    /\ me' = None
    /\ gate' = "away"
    /\ refresh' = Cancelled
    /\ clear' = Presence(cookie)
    /\ panel' = PanelLeft
    /\ races' = IF signIn.at # "idle" \/ panel'.at # "idle"
                THEN races \cup {"mixed"} ELSE races
    /\ UNCHANGED <<gatewayVars, cookie, signIn, prefixes>>

\* The sign-out's DELETE is answered, or fails and is forgotten.
Cleared ==
    /\ clear # "none"
    /\ clear' = "none"
    /\ \/ /\ cookie' = CookieAfterDelete(clear)
          /\ KeyChanged(refresh, cookie')
          /\ UNCHANGED faults
       \/ /\ Fault
          /\ races' = races \cup {"mixed"}
          /\ UNCHANGED <<cookie, refresh>>
    /\ UNCHANGED <<gatewayVars, sessionVars, me, signIn, gate, panel, prefixes>>

(***************************************************************************)
(* The key panel, and the gate while it is closed.                         *)
(***************************************************************************)
PanelRest == UNCHANGED <<nonce, logins, sessionVars, me, signVars, gate>>

\* localStorage keeps the prefixes of the keys this browser created, except for
\* those the sign-in created.
Remember(k) == prefixes \cup {k}
Forget(k) == prefixes \ {k}

\* The keys the panel's table offers for revocation: the list may be as old as
\* an earlier session.
Listed == {k \in Keys : owner[k] \in Wallets}

PanelIdle == PagesShown /\ panel.at = "idle" /\ gate \in {"away", "closed"}

\* useCreateApiKey, which is refused without a session: the key is minted, its prefix remembered and the secret
\* shown, until the user confirms that it is saved.
CreateKey ==
    /\ \/ \E k \in Keys :
             /\ session # None /\ Mint(k, session)
             /\ \/ /\ panel' = [at |-> "revealed", key |-> k]
                   /\ prefixes' = Remember(k)
                   /\ UNCHANGED faults
                \/ Fault /\ UNCHANGED <<panel, prefixes>>
       \/ FaultUnless(session = None) /\ UNCHANGED <<owner, panel, prefixes>>
    /\ UNCHANGED <<cookie, refresh, races>>
    /\ PanelRest

RunCreate == PanelIdle /\ gate = "away" /\ CreateKey

HandleCreate == PanelIdle /\ gate = "closed" /\ CreateKey

\* The secret is put away and its key activated: the panel closes its dialog,
\* the gate goes on showing it until it is let through.
PutAway ==
    /\ panel.at = "revealed"
    /\ panel' = [panel EXCEPT !.at = "activate"]
    /\ UNCHANGED <<owner, cookie, refresh, prefixes, faults, races>>
    /\ PanelRest

DismissReveal == gate = "away" /\ PutAway

HandleConfirmReveal == gate = "closed" /\ PutAway

\* In the closed gate a key the user has may be pasted instead.
Paste(k) ==
    /\ PanelIdle /\ gate = "closed" /\ owner[k] # None
    /\ panel' = [at |-> "activate", key |-> k]
    /\ races' = races \cup {"mixed"}
    /\ UNCHANGED <<owner, cookie, refresh, prefixes, faults>>
    /\ PanelRest

\* The confirmed or pasted key is posted to the dashboard server; a gate that
\* could not keeps the key and says so.
KeyActivated ==
    /\ panel.at = "activate"
    /\ \/ /\ cookie' = panel.key
          /\ KeyChanged(refresh, cookie')
          /\ panel' = Closed
          /\ UNCHANGED faults
       \/ /\ Fault
          /\ panel' = IF gate = "closed" THEN [panel EXCEPT !.at = "revealed"] ELSE Closed
          /\ UNCHANGED <<cookie, refresh, races>>
    /\ UNCHANGED <<owner, prefixes>>
    /\ PanelRest

\* A listed key is revoked: DELETE /api-keys/{hash} removes a key of the session's
\* tenant, and is 404 for another.  When the prefix remembered of the key is the
\* active prefix as the panel last read it, a cookie is then deleted; what the
\* panel read may be stale either way.
Revoke(k) ==
    /\ PanelIdle /\ k \in Listed
    /\ \/ /\ owner[k] = session
          /\ owner' = [owner EXCEPT ![k] = Revoked]
          /\ prefixes' = Forget(k)
          /\ \/ k \in prefixes /\ panel' = [at |-> "clear", key |-> None]
             \/ UNCHANGED panel
          /\ UNCHANGED faults
       \/ FaultUnless(owner[k] # session) /\ UNCHANGED <<owner, panel, prefixes>>
    /\ UNCHANGED <<cookie, refresh, races>>
    /\ PanelRest

\* The panel's DELETE of the active key: it may have been sent without one.
RevokedCleared ==
    /\ panel.at = "clear"
    /\ panel' = Closed
    /\ \/ /\ \E carried \in {NoKey, HasKey} : cookie' = CookieAfterDelete(carried)
          /\ KeyChanged(refresh, cookie')
          /\ UNCHANGED faults
       \/ Fault /\ UNCHANGED <<cookie, refresh, races>>
    /\ UNCHANGED <<owner, prefixes>>
    /\ PanelRest

(***************************************************************************)
(* The pages behind the gate, and what happens to the browser.             *)
(***************************************************************************)
\* describeError of the audit log and of the issuer pages: a call of theirs was
\* answered 401 or 403, for a dead key or, which counts as a fault, for another
\* wallet's signature, and they send a DELETE of the active key.  It ends as
\* that of a refresh whose gate is gone: RefreshClear.
PageRefused ==
    /\ gate = "open"
    /\ FaultUnless(~Accepted(cookie))
    /\ \E s \in Slots :
          /\ refresh[s].at = "idle"
          /\ refresh' = [refresh EXCEPT ![s] =
                            [at |-> "clear", key |-> Presence(cookie), live |-> FALSE]]
    /\ UNCHANGED <<gatewayVars, sessionVars, cookie, me, signVars, gate, panel, prefixes, races>>

BrowserRest == UNCHANGED <<gatewayVars, prefixes, faults>>

\* The session cookie is jwt_ttl_secs old.  The cached answer of /auth/me stays.
SessionExpires ==
    /\ session # None
    /\ session' = None /\ ended' = session
    /\ UNCHANGED <<cookie, me, signVars, gate, refresh, panel, races>>
    /\ BrowserRest

\* The active-key cookie is SEVEN_DAYS_SECONDS old.  Nothing renews it, and a
\* gate that is open does not look again.
KeyExpires ==
    /\ cookie # None /\ cookie' = None
    /\ races' = IF Mounted THEN races \cup {"lapsed"} ELSE races
    /\ UNCHANGED <<sessionVars, me, signVars, gate, refresh, panel>>
    /\ BrowserRest

\* The page is loaded anew: what it had cached is gone, and so are the answers
\* of the calls it had made.  A sign-out's DELETE may be among them.
Reload ==
    /\ me' = None
    /\ signIn' = Resting /\ clear' = "none"
    /\ gate' = "away" /\ refresh' = [s \in Slots |-> Idle]
    /\ panel' = Closed
    /\ races' = (races \ {"overlap", "lapsed"})
                    \cup IF clear = "none" THEN {} ELSE {"mixed"}
    /\ UNCHANGED <<sessionVars, cookie>>
    /\ BrowserRest

Next ==
    \/ \E s \in Slots : RefreshStatus(s) \/ RefreshProbe(s) \/ RefreshClear(s)
    \/ MountGate \/ UnmountGate
    \/ \E w \in Wallets, n \in Nonces : StartSignIn(w, n)
    \/ \E n \in Nonces : NonceExpires(n) \/ LoginAgain(n)
    \/ Reject \/ Login \/ SignInCreate \/ SignInActivate
    \/ FetchMe
    \/ SignOut \/ Cleared
    \/ RunCreate \/ HandleCreate \/ DismissReveal \/ HandleConfirmReveal
    \/ KeyActivated
    \/ \E k \in Keys : Paste(k) \/ Revoke(k)
    \/ RevokedCleared
    \/ PageRefused
    \/ SessionExpires \/ KeyExpires \/ Reload

Spec == Init /\ [][Next]_vars

(***************************************************************************)
(* Properties.                                                             *)
(***************************************************************************)

\* A nonce is traded for one session at most, however often and in whatever
\* order the signed login that names it reaches the gateway.
OneLoginPerNonce == \A n \in Nonces : logins[n] <= 1

\* A gate that has not made up its mind waits for a refresh in flight that will
\* decide, whichever calls fail and however often the page is left and opened
\* again; and once its refreshes have ended, the pages behind it are shown only
\* while there is an active key, unless the last of them started while another,
\* or a page's DELETE, was in flight, or the key ran out since it started: no
\* timer and no event closes the gate then, only a page that is refused.
GateTellsTheTruth ==
    /\ gate = "unknown" => \E s \in Slots : refresh[s].at # "idle" /\ refresh[s].live
    /\ {"overlap", "lapsed"} \cap races = {} /\ (\A s \in Slots : refresh[s].at = "idle")
       => (gate = "open" => cookie # None)

\* A tenant never works under another tenant's key, unless a key was pasted, a
\* sign-out's DELETE was late or lost, a key was on its way to the cookie when
\* the tenant signed out, or a tenant signed in over the session of another, or
\* after that session had run out without a sign-out, which leaves its key for
\* up to a week: nothing else lets the two cookies differ.  The expiry of the
\* cookies, reloads and refused pages are in the model.
KeyIsTheTenants ==
    ("mixed" \notin races
     /\ Authenticated /\ cookie # None)
    => owner[cookie] \in {me, Revoked}

=============================================================================

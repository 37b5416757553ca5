--------------------------- MODULE IssuerConsole ---------------------------
(***************************************************************************)
(* The dashboard's pages over the issuer service: the credentials of a     *)
(* wallet (look up, register, issue, revoke), the attestation explorer     *)
(* (its proofs and whether it is compliant) and the issuer status (roots,  *)
(* publish).                                                               *)
(*                                                                         *)
(* A read is filed in the query cache under its kind and wallet, whatever  *)
(* the page shows by the time it arrives.  One fetch per entry is alive at *)
(* a time: an invalidation drops it and starts another, unless the entry   *)
(* holds no data yet, when it is joined.  Every call has three moments:    *)
(* it is made, the service executes it, the answer arrives or is lost.     *)
(* Which wallet signature a read of a wallet carries is the matter of      *)
(* WalletAuth; here the service may find any fault with it.                *)
(***************************************************************************)
EXTENDS Integers, FiniteSets, TLC

CONSTANTS
    Wallets,
    Lookups,        \* bounds the wallets that are looked up
    None,           \* null
    Calls,          \* bounds the calls on their way at a time
    MaxReads, MaxWrites, MaxFaults   \* bounds: reads and writes made, faults

ASSUME ConsoleAssumption ==
    /\ None \notin Wallets \cup {"active", "revoked"}
    /\ Lookups \subseteq Wallets
    /\ MaxReads \in Nat /\ MaxWrites \in Nat /\ MaxFaults \in Nat

VARIABLES
    cred,       \* service: "none", "active" or "revoked", per wallet
    key,        \* there is an active API key
    page,       \* the page that is open
    active,     \* activeWallet of its panel, or None
    query,      \* the query cache: [data, error, stale] of each entry
    call,       \* the calls on their way
    reads, writes, faults,
    told        \* history: wallets whose revocation was answered on their page

pageVars == <<page, active>>
bounds == <<reads, writes, faults>>
vars == <<cred, key, pageVars, query, call, bounds, told>>

WalletReads == {"credential", "membership", "sanctions"}
Writes == {"register", "issue", "revoke", "publish"}

\* The entries of the query cache: one per kind and wallet, and the roots.
Roots == <<"roots", None>>
Entries == (WalletReads \X Lookups) \cup {Roots}

\* Hashes do not collide, and no change is ever undone: the membership root
\* is what it was computed from.
Root == cred

Empty == [data |-> None, error |-> "no", stale |-> FALSE]

\* A call that was made: what it is for, how far it is, whether its answer is
\* still wanted, and its answer.
Made(of) == [of |-> of, at |-> "sent", live |-> TRUE, result |-> Empty]
NoCall == [of |-> None, at |-> "idle", live |-> FALSE, result |-> Empty]

InFlight(of) == {c \in Calls : call[c].of = of /\ call[c].live}

-----------------------------------------------------------------------------
(***************************************************************************)
(* What the pages show.                                                    *)
(***************************************************************************)
\* The entries that page p observes when it looks at wallet w.
ObservedOn(p, w) ==
    CASE p = "credentials" -> {<<"credential", w>>} \cap Entries
      [] p = "explorer" ->
            ({<<"membership", w>>, <<"sanctions", w>>} \cap Entries) \cup {Roots}
      [] OTHER -> {Roots}

Observed == IF key THEN ObservedOn(page, active) ELSE {}

Failed(e) == query[e].error # "no"
IsLoading(e) == query[e].data = None /\ ~Failed(e)

\* deriveStatus.  The sanctions tree of the service is empty, so a sanctions
\* proof always has an empty leaf.
Status(w) ==
    LET membership == <<"membership", w>>  sanctions == <<"sanctions", w>>
    IN  IF IsLoading(membership) \/ IsLoading(sanctions) THEN "loading"
        ELSE IF Failed(membership) /\ ~Failed(sanctions) THEN "unknown"
        ELSE IF Failed(sanctions) THEN "error"
        ELSE "compliant"

\* membershipRootMatch: no warning is shown.
RootsMatch(w) ==
    LET proof == query[<<"membership", w>>].data  roots == query[Roots].data
    IN  proof # None /\ roots # None /\ proof = roots

\* CredentialStatus: the label beside the credential of w.
Pill(w) ==
    LET q == query[<<"credential", w>>]
    IN  IF IsLoading(<<"credential", w>>) THEN "Loading"
        ELSE CASE q.error = "notFound" -> "Not found"
               [] q.error \in {"refused", "denied"} -> "Unauthorized"
               [] q.error = "other" -> "Error"
               [] OTHER -> IF q.data = "revoked" THEN "Revoked" ELSE "Active"

OffersIssue(w) ==
    LET q == query[<<"credential", w>>] IN q.data = None /\ q.error = "notFound"

OffersRevoke(w) == query[<<"credential", w>>].data = "active"

\* The errors after which a page drops the active key.  describeError takes
\* any 401 or 403 for a refused key; describeProofError spares those whose
\* text has "signature" or "wallet" in it ("denied": another wallet's
\* signature, a revoked wallet).  The explorer does not look at an error of
\* the roots.
DropsKey(p, e, error) ==
    IF p = "explorer" THEN e # Roots /\ error = "refused"
    ELSE error \in {"refused", "denied"}

\* What is shown is described, and may cost the key: an entry that holds data
\* keeps its error while it is fetched again.
KeyShown(p, w) ==
    \A e \in ObservedOn(p, w) : query[e].data # None => ~DropsKey(p, e, query[e].error)

\* The gate replaces the page when the key is gone, and the panel's state
\* goes with it.
Looking(k, w) == IF k THEN w ELSE None

-----------------------------------------------------------------------------
(***************************************************************************)
(* The person at the browser.                                              *)
(***************************************************************************)
OpenPage(p) ==
    /\ key /\ p # page
    /\ page' = p /\ active' = None
    /\ key' = KeyShown(p, None)
    /\ UNCHANGED <<cred, query, call, bounds, told>>

\* lookup, pickRecent and useMyWallet.
LookUp(w) ==
    /\ key /\ page \in {"credentials", "explorer"}
    /\ active # w
    /\ key' = KeyShown(page, w)
    /\ active' = Looking(key', w)
    /\ UNCHANGED <<cred, page, query, call, bounds, told>>

\* Mutated form: a fetch that is under way is joined, data or no data.
DroppedNone(e) == {}

\* The fetches that are dropped when e is fetched anew.
Dropped(e) == IF query[e].data = None THEN {} ELSE InFlight(e)

Forgotten(dropped) ==
    [d \in Calls |-> IF d \in dropped THEN [call[d] EXCEPT !.live = FALSE] ELSE call[d]]

\* An observed entry is fetched: its page or its wallet was opened, it is
\* older than 30 s, the browser is online again, the person asked for it
\* (refetch, which alone drops a fetch under way).  An entry without data
\* forgets its error.
Fetch(c, e) ==
    /\ e \in Observed /\ InFlight(e) \subseteq Dropped(e) /\ call[c] = NoCall
    /\ reads < MaxReads /\ reads' = reads + 1
    /\ call' = [Forgotten(Dropped(e)) EXCEPT ![c] = Made(e)]
    /\ query' = IF query[e].data = None THEN [query EXCEPT ![e] = Empty] ELSE query
    /\ UNCHANGED <<cred, key, pageVars, writes, faults, told>>

\* isPending of a mutation.
Pending(kind) == {c \in Calls : call[c] # NoCall /\ call[c].of[1] = kind}

\* useMutation: one of a kind at a time.
Write(c, kind, w) ==
    /\ call[c] = NoCall
    /\ writes < MaxWrites /\ writes' = writes + 1
    /\ Pending(kind) = {}
    /\ call' = [call EXCEPT ![c] = Made(<<kind, w>>)]
    /\ UNCHANGED <<cred, key, pageVars, query, reads, faults, told>>

OnRegister(c, w) == key /\ page = "credentials" /\ Write(c, "register", w)

OnIssue(c) ==
    /\ key /\ page = "credentials" /\ active # None /\ OffersIssue(active)
    /\ Write(c, "issue", active)

OnRevoke(c) ==
    /\ key /\ page = "credentials" /\ active # None /\ OffersRevoke(active)
    /\ Write(c, "revoke", active)

\* The button needs roots that could be read; the dialog it opens stays when
\* they no longer can.
OnPublish(c) ==
    /\ key /\ page = "issuer" /\ query[Roots].data # None
    /\ Write(c, "publish", None)

\* The gate takes another key.
Reauthenticate ==
    /\ ~key /\ key' = TRUE
    /\ UNCHANGED <<cred, pageVars, query, call, bounds, told>>

-----------------------------------------------------------------------------
(***************************************************************************)
(* The gateway and the service execute a call.                             *)
(***************************************************************************)
Fails(error) == [Empty EXCEPT !.error = error]
Holds(data) == [Empty EXCEPT !.data = data]

\* Mutated form: a revoked wallet still gets a membership proof.
ProofOfAny(kind, w) ==
    IF cred[w] = "none" /\ kind # "sanctions" THEN Fails("notFound")
    ELSE Holds(CASE kind = "credential" -> cred[w]
                 [] kind = "membership" -> Root
                 [] OTHER -> "clear")

\* get_credential, get_proof, get_sanctions_proof: only the credential of a
\* revoked wallet can still be read.
Lookup(kind, w) ==
    IF cred[w] = "none" /\ kind # "sanctions" THEN Fails("notFound")
    ELSE IF cred[w] = "revoked" /\ kind # "credential" THEN Fails("denied")
    ELSE Holds(CASE kind = "credential" -> cred[w]
                 [] kind = "membership" -> Root
                 [] OTHER -> "clear")

\* How a call may be turned away: by the gateway because of its key, and a
\* read of a wallet because of its signature, "refused" when there is none or
\* it is too old, "denied" when it is another wallet's (WalletAuth).
Refusals(of) ==
    {"refused"} \cup IF of[1] \in WalletReads THEN {"denied"} ELSE {}

Read(of) == IF of = Roots THEN Holds(Root) ELSE Lookup(of[1], of[2])

\* add_wallet and issue_credential, revoke_credential, publish: 409 when the
\* wallet has a credential, or no live one to revoke.
Allowed(of) ==
    CASE of[1] = "publish" -> TRUE
      [] of[1] = "revoke" -> cred[of[2]] = "active"
      [] OTHER -> cred[of[2]] = "none"

Serve(c) ==
    LET of == call[c].of
        Answers(r) == call' = [call EXCEPT ![c].at = "served", ![c].result = r]
    IN
    /\ call[c].at = "sent"
    /\ \/ /\ \E verdict \in Refusals(of) : Answers(Fails(verdict))
          /\ UNCHANGED cred
       \/ /\ of \in Entries
          /\ Answers(Read(of)) /\ UNCHANGED cred
       \/ /\ of[1] \in Writes /\ ~Allowed(of)
          /\ Answers(Fails("other")) /\ UNCHANGED cred
       \/ /\ of[1] \in Writes /\ Allowed(of)
          /\ Answers(Holds(of[1]))
          /\ cred' = CASE of[1] = "publish" -> cred
                       [] of[1] = "revoke" -> [cred EXCEPT ![of[2]] = "revoked"]
                       [] OTHER -> [cred EXCEPT ![of[2]] = "active"]
    /\ UNCHANGED <<key, pageVars, query, bounds, told>>

-----------------------------------------------------------------------------
(***************************************************************************)
(* The answer arrives.                                                     *)
(***************************************************************************)
\* What the cache and the key become when the fetch of e ends with r.
Settle(e, r) ==
    /\ query' = [query EXCEPT ![e] =
                    IF r.error = "no" THEN r ELSE [@ EXCEPT !.error = r.error]]
    /\ key' = (key /\ ~(e \in Observed /\ DropsKey(page, e, r.error)))
    /\ active' = Looking(key', active)

\* The entries a write invalidates: the credential of its wallet and the
\* roots, or the roots alone.
Invalidated(of) ==
    IF of[1] = "publish" THEN {Roots} ELSE {<<"credential", of[2]>>, Roots}

ArriveRead(c) ==
    /\ call[c].of \in Entries
    /\ call' = [call EXCEPT ![c] = NoCall]
    /\ IF call[c].live
       THEN Settle(call[c].of, call[c].result)
       ELSE UNCHANGED <<query, key, active>>
    /\ UNCHANGED <<told>>

\* A write that failed is only told; a refused key is dropped.
ArriveFailed(c) ==
    /\ call[c].of[1] \in Writes /\ call[c].result.error # "no"
    /\ call' = [call EXCEPT ![c] = NoCall]
    /\ key' = (key /\ call[c].result.error # "refused")
    /\ active' = Looking(key', active)
    /\ UNCHANGED <<query, told>>

\* One that succeeded invalidates; what the page observes of it is fetched
\* again, in the slot of the write.
ArriveDone(c) ==
    LET of == call[c].of
        again == Invalidated(of) \cap Observed
        calls == Forgotten(UNION {Dropped(e) : e \in again})
        fetched == {e \in again : InFlight(e) \subseteq Dropped(e)}
    IN
    /\ of[1] \in Writes /\ call[c].result.error = "no"
    /\ \/ /\ fetched = {}
          /\ call' = [calls EXCEPT ![c] = NoCall]
       \/ \E e \in fetched : call' = [calls EXCEPT ![c] = Made(e)]
    /\ query' = [e \in Entries |->
                   IF e \in fetched /\ query[e].data = None THEN Empty
                   ELSE [query[e] EXCEPT !.stale = @ \/ e \in Invalidated(of)]]
    /\ told' = IF of[1] = "revoke" /\ <<"credential", of[2]>> \in again THEN told \cup {of[2]} ELSE told
    /\ UNCHANGED <<key, active>>

Arrive(c) ==
    /\ call[c].at = "served"
    /\ ArriveRead(c) \/ ArriveFailed(c) \/ ArriveDone(c)
    /\ UNCHANGED <<cred, page, bounds>>

\* The owner of the wallet declines to sign, or the connection breaks before
\* the service saw the call or after.
Lose(c) ==
    /\ call[c].at \in {"sent", "served"}
    /\ faults < MaxFaults /\ faults' = faults + 1
    /\ call' = [call EXCEPT ![c] = NoCall]
    /\ IF call[c].live /\ call[c].of \in Entries
       THEN Settle(call[c].of, Fails("other"))
       ELSE UNCHANGED <<query, key, active>>
    /\ UNCHANGED <<cred, page, reads, writes, told>>

-----------------------------------------------------------------------------
States == {"none", "active", "revoked"}
Pages == {"credentials", "explorer", "issuer"}

Init ==
    /\ \E s \in States : cred = [w \in Wallets |-> s]
    /\ key = TRUE
    /\ page \in Pages /\ active = None
    /\ query = [e \in Entries |-> Empty]
    /\ call = [c \in Calls |-> NoCall]
    /\ reads = 0 /\ writes = 0 /\ faults = 0
    /\ told = {}

Next ==
    \/ \E p \in Pages : OpenPage(p)
    \/ \E w \in Lookups : LookUp(w)
    \/ \E c \in Calls :
         \/ \E e \in Entries : Fetch(c, e)
         \/ \E w \in Wallets : OnRegister(c, w)
         \/ OnIssue(c) \/ OnRevoke(c) \/ OnPublish(c)
         \/ Serve(c) \/ Arrive(c) \/ Lose(c)
    \/ Reauthenticate

Spec == Init /\ [][Next]_vars

-----------------------------------------------------------------------------
(***************************************************************************)
(* What holds.                                                             *)
(***************************************************************************)
Errors == {"no", "notFound", "refused", "denied", "other"}
\* What a call of a kind may be answered.
Answer(kind) ==
    [data : {None} \cup CASE kind \in {"membership", "roots"} -> [Wallets -> States]
                          [] kind = "credential" -> {"active", "revoked"}
                          [] OTHER -> {"clear"} \cup Writes,
     error : Errors, stale : BOOLEAN]

\* Every variable has its type; no read holds a credential that was never issued.
TypeOK ==
    /\ cred \in [Wallets -> States]
    /\ key \in BOOLEAN
    /\ page \in Pages /\ active \in Lookups \cup {None}
    /\ \A e \in Entries : query[e] \in Answer(e[1])
    /\ \A c \in Calls :
         /\ call[c].of \in Entries \cup (Writes \X (Wallets \cup {None})) \cup {None}
         /\ call[c].at \in {"idle", "sent", "served"} /\ call[c].live \in BOOLEAN
         /\ call[c] # NoCall => call[c].result \in Answer(call[c].of[1])
    /\ reads \in 0..MaxReads /\ writes \in 0..MaxWrites /\ faults \in 0..MaxFaults
    /\ told \subseteq Wallets

\* Once a revocation was answered on the page that shows the wallet, the
\* credential is not shown active again from a read that was under way when
\* it was revoked: what is shown active is marked stale or being read again.
RevokedIsShown ==
    \A w \in told :
        LET e == <<"credential", w>>
        IN  Pill(w) = "Active" => query[e].stale \/ InFlight(e) # {}

\* The explorer puts three reads of different moments side by side.  When it
\* says compliant and warns of no root mismatch, and the roots it compares
\* with are the service's current ones, the wallet is not revoked.
CompliantIsActive ==
    \A w \in Lookups :
        Status(w) = "compliant" /\ RootsMatch(w) /\ query[Roots].data = Root
        => cred[w] = "active"
=============================================================================

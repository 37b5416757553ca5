----------------------------- MODULE WalletAuth -----------------------------
(***************************************************************************)
(* The wallet signatures that the dashboard puts on its calls to the       *)
(* issuer service (frontend/src/lib/api/wallet-auth.ts, client.ts) and the *)
(* service's check of them (auth.rs, prove_groth16.rs).                    *)
(*                                                                         *)
(* One signature serves every read for a while: it is cached for its       *)
(* wallet, and calls that come while the wallet asks its owner share the   *)
(* prompt.  The prompt stays open as long as the owner likes, and the      *)
(* wallet may be switched or disconnected meanwhile.  A call with a body   *)
(* has a signature of its own.  The signed message carries the time at     *)
(* which the prompt was opened.                                            *)
(***************************************************************************)
EXTENDS Integers, FiniteSets

CONSTANTS
    Signers,
    Null,               \* null
    Prompts,            \* bounds the prompts open at a time
    Requests,           \* bounds the calls under way at a time
    REPLAY_WINDOW,      \* how long a signature is reused, in ticks
    REPLAY_WINDOW_SECS, \* how old the service lets it be, in ticks
    MaxTime             \* bound on the clock

ASSUME WalletAuthAssumption ==
    /\ Null \notin Signers \cup Prompts \cup Requests \cup Nat
    /\ REPLAY_WINDOW \in Nat /\ REPLAY_WINDOW_SECS \in Nat /\ MaxTime \in Nat
    /\ REPLAY_WINDOW <= REPLAY_WINDOW_SECS

VARIABLES
    clock,
    signer,         \* registeredSigner: its wallet, or Null
    cached,         \* the CachedSignature, or Null
    inflight,       \* the prompt that calls may share, or Null
    inflightWallet,
    prompt,         \* the open prompts of the wallet: their message, or Null
    request         \* the calls under way, or Null

cacheVars == <<signer, cached, inflight, inflightWallet>>
authVars == <<clock, cacheVars, prompt, request>>

\* The signed message; a signature stands for it.  The body is named by the
\* call it is the body of.
Message == [wallet : Signers, timestamp : 0..MaxTime, body : Requests \cup {Null}]

\* A call: the prompt it waits for, and once it has left, its headers.
\* asker is the wallet that was connected when it asked for them, reusedAt
\* when it took a cached signature.
Request == [at : {"waiting", "sent"}, on : Prompts \cup {Null}, body : Requests \cup {Null},
            asker : Signers \cup {Null}, headers : Message \cup {Null},
            reusedAt : 0..MaxTime \cup {Null}]

ASSUME NullIsNoMessage == Null \notin Message

\* Every variable has its type.
AuthTypeOK ==
    /\ clock \in 0..MaxTime
    /\ signer \in Signers \cup {Null}
    /\ cached \in Message \cup {Null}
    /\ inflight \in Prompts \cup {Null}
    /\ inflightWallet \in Signers \cup {Null}
    /\ prompt \in [Prompts -> Message \cup {Null}]
    /\ request \in [Requests -> Request \cup {Null}]

AuthInit ==
    /\ clock = 0
    /\ signer = Null /\ cached = Null
    /\ inflight = Null /\ inflightWallet = Null
    /\ prompt = [p \in Prompts |-> Null]
    /\ request = [c \in Requests |-> Null]

-----------------------------------------------------------------------------
(***************************************************************************)
(* useWalletAuthSync.  The cleanup of the old effect unregisters, and the  *)
(* new one registers what is connected now, which may be the same wallet   *)
(* with another signMessage; inflightWallet stays.                         *)
(***************************************************************************)
Sync(w) ==
    /\ signer' = w
    /\ cached' = Null
    /\ inflight' = Null
    /\ UNCHANGED <<clock, inflightWallet, prompt, request>>

-----------------------------------------------------------------------------
(***************************************************************************)
(* getWalletAuthHeaders.  It answers at once (no headers without a signer, *)
(* a cached signature), or the caller waits for the prompt that is open,   *)
(* or for one of its own.                                                  *)
(***************************************************************************)
\* Mutated form: a signature is reused as long as the service would take it
\* if the call came at once.
ReusableToTheEnd ==
    /\ cached # Null /\ cached.wallet = signer
    /\ clock <= cached.timestamp + REPLAY_WINDOW_SECS

\* Mutated form: whoever signed last.
ReusableByAnyone ==
    cached # Null /\ clock < cached.timestamp + REPLAY_WINDOW

\* The cached signature is this wallet's and young enough.
Reusable ==
    /\ cached # Null /\ cached.wallet = signer
    /\ clock < cached.timestamp + REPLAY_WINDOW

Sharable == inflight # Null /\ inflightWallet = signer

Sent(headers, reusedAt) ==
    [at |-> "sent", on |-> Null, body |-> Null, asker |-> signer,
     headers |-> headers, reusedAt |-> reusedAt]

Waiting(p, body) ==
    [at |-> "waiting", on |-> p, body |-> body, asker |-> signer,
     headers |-> Null, reusedAt |-> Null]

\* signAndCache opens its prompt.
OpenPrompt(p, body) ==
    /\ prompt[p] = Null
    /\ prompt' = [prompt EXCEPT ![p] =
                    [wallet |-> signer, timestamp |-> clock, body |-> body]]

\* apiFetch of a wallet-scoped path, up to fetch().
ApiFetch(c) ==
    /\ request[c] = Null
    /\ \/ /\ signer = Null
          /\ request' = [request EXCEPT ![c] = Sent(Null, Null)]
          /\ UNCHANGED <<cacheVars, prompt>>
       \/ /\ signer # Null /\ Reusable
          /\ request' = [request EXCEPT ![c] = Sent(cached, clock)]
          /\ UNCHANGED <<cacheVars, prompt>>
       \/ /\ signer # Null /\ ~Reusable /\ Sharable
          /\ request' = [request EXCEPT ![c] = Waiting(inflight, Null)]
          /\ UNCHANGED <<cacheVars, prompt>>
       \/ /\ signer # Null /\ ~Reusable /\ ~Sharable
          /\ \E p \in Prompts :
               /\ OpenPrompt(p, Null)
               /\ request' = [request EXCEPT ![c] = Waiting(p, Null)]
               /\ inflight' = p
          /\ inflightWallet' = signer
          /\ UNCHANGED <<signer, cached>>
    /\ UNCHANGED clock

\* apiFetchBinary of a body: a prompt of its own, neither cached nor shared.
ApiFetchBinary(c) ==
    /\ request[c] = Null
    /\ \/ /\ signer = Null
          /\ request' = [request EXCEPT ![c] = [Sent(Null, Null) EXCEPT !.body = c]]
          /\ UNCHANGED prompt
       \/ /\ signer # Null
          /\ \E p \in Prompts :
               /\ OpenPrompt(p, c)
               /\ request' = [request EXCEPT ![c] = Waiting(p, c)]
    /\ UNCHANGED <<clock, cacheVars>>

\* The callers that wait for p leave with its signature.
Leave(p) ==
    request' = [c \in Requests |->
               IF request[c] # Null /\ request[c].on = p
               THEN [request[c] EXCEPT !.at = "sent", !.on = Null, !.headers = prompt[p]]
               ELSE request[c]]

\* The owner signs.  `finally` forgets whatever prompt is shared by now, this
\* one or a later one.
Signed(p) ==
    /\ prompt[p] # Null
    /\ IF prompt[p].body = Null
       THEN cached' = prompt[p] /\ inflight' = Null /\ inflightWallet' = Null
       ELSE UNCHANGED <<cached, inflight, inflightWallet>>
    /\ prompt' = [prompt EXCEPT ![p] = Null]
    /\ Leave(p)
    /\ UNCHANGED <<clock, signer>>

\* The owner declines: the callers that waited throw.
Declined(p) ==
    /\ prompt[p] # Null
    /\ IF prompt[p].body = Null
       THEN inflight' = Null /\ inflightWallet' = Null
       ELSE UNCHANGED <<inflight, inflightWallet>>
    /\ prompt' = [prompt EXCEPT ![p] = Null]
    /\ request' = [c \in Requests |->
                  IF request[c] # Null /\ request[c].on = p THEN Null ELSE request[c]]
    /\ UNCHANGED <<clock, signer, cached>>

-----------------------------------------------------------------------------
(***************************************************************************)
(* The service.                                                            *)
(***************************************************************************)
\* WalletAuth and verify_wallet_headers: the verdict on a call about wallet w
\* with this body.
Verdict(headers, body, w) ==
    IF headers = Null THEN "unsigned"
    ELSE IF clock - headers.timestamp > REPLAY_WINDOW_SECS THEN "late"
    ELSE IF headers.wallet # w \/ headers.body # body THEN "foreign"
    ELSE "ok"

\* The call comes to an end, whatever the verdict.
Served(c) ==
    /\ request[c] # Null /\ request[c].at = "sent"
    /\ request' = [request EXCEPT ![c] = Null]
    /\ UNCHANGED <<clock, cacheVars, prompt>>

Tick ==
    /\ clock < MaxTime
    /\ clock' = clock + 1
    /\ UNCHANGED <<cacheVars, prompt, request>>

AuthNext ==
    \/ \E w \in Signers \cup {Null} : Sync(w)
    \/ \E c \in Requests : ApiFetch(c) \/ ApiFetchBinary(c) \/ Served(c)
    \/ \E p \in Prompts : Signed(p) \/ Declined(p)
    \/ Tick

AuthSpec == AuthInit /\ [][AuthNext]_authVars

-----------------------------------------------------------------------------
\* A call leaves with a signature that fits it: of the wallet that was
\* connected when it asked, and over its own body or over none.  A prompt of
\* the previous wallet that is signed after the switch fills the cache with
\* that wallet's signature (getWalletAuthHeaders, signAndCache).
SignatureFits ==
    \A c \in Requests :
        request[c] # Null /\ request[c].headers # Null =>
            request[c].headers.wallet = request[c].asker /\ request[c].headers.body = request[c].body

\* A signature is reused for less time than the service takes it: a call that
\* left with a cached one is taken as long as its trip is no longer than the
\* difference, however long the owner took over the prompt (REPLAY_WINDOW_MS,
\* "refresh 60s before the 300s server window").
ReuseLeavesTime ==
    \A c \in Requests :
        /\ request[c] # Null /\ request[c].reusedAt # Null
        /\ clock - request[c].reusedAt <= REPLAY_WINDOW_SECS - REPLAY_WINDOW
        => Verdict(request[c].headers, request[c].body, request[c].asker) = "ok"
=============================================================================

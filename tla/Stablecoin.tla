----------------------------- MODULE Stablecoin -----------------------------
(***************************************************************************)
(* The stablecoin program (backend/programs/stablecoin): one Treasury, the *)
(* Token-2022 accounts of its mint and the open RedemptionRequests.        *)
(*                                                                         *)
(* Every instruction is a Solana transaction: it is atomic, and when a     *)
(* constraint, a require! or a CPI fails nothing it did is kept.  So one   *)
(* instruction is one action, and each failing check is a conjunct of its  *)
(* guard.  initialize_mint runs once per mint and before anything else can *)
(* succeed, hence it is Init.                                              *)
(*                                                                         *)
(* Token-2022 itself is external.  Its accounts are modelled by what the   *)
(* program's CPIs need of them, and their owners may act on them directly, *)
(* between any two instructions of the program.                            *)
(***************************************************************************)
EXTENDS Integers, FiniteSets

CONSTANTS
    Keys,           \* the public keys that sign transactions
    DefaultKey,     \* Pubkey::default(), which nobody can sign for
    NoKey,          \* None, in an Option<Pubkey>
    EscrowKey,      \* the escrow-authority PDA of the treasury
    Deployer,       \* the signer of initialize_mint
    Accounts,       \* the Token-2022 accounts of the mint
    FirstOwner,     \* their owners when the mint is created
    FixedOwner,     \* the accounts with the ImmutableOwner extension
    Spenders,       \* the keys a holder may approve directly as delegate
    Amounts,        \* the u64 amounts that callers pass
    Caps,           \* the mint caps the admin may set
    MaxU64,         \* the largest u64
    REDEMPTION_EXPIRY_SECS,
    MaxTime         \* bound on the clock

ASSUME KeyAssumption ==
    /\ Deployer \in Keys
    /\ FirstOwner \in [Accounts -> Keys]
    /\ FixedOwner \subseteq Accounts
    /\ DefaultKey \notin Keys /\ NoKey \notin Keys /\ EscrowKey \notin Keys
    /\ EscrowKey # NoKey
    /\ Spenders \subseteq Keys \cup {EscrowKey}

ASSUME NumberAssumption ==
    /\ MaxU64 \in Nat /\ MaxTime \in Nat /\ REDEMPTION_EXPIRY_SECS \in Nat
    /\ Amounts \subseteq 0 .. MaxU64
    /\ Caps \subseteq 0 .. MaxU64

VARIABLES
    treasury,   \* the Treasury account
    token,      \* Token-2022: the token accounts of the mint
    supply,     \* Token-2022: the supply of the mint
    requests,   \* the RedemptionRequest accounts that exist
    now,        \* Clock::unix_timestamp
    released,   \* history: nonces of requests whose account was thawed
                \* while the request stayed open
    selfBurned  \* history: what was burned without the program

vars == <<treasury, token, supply, requests, now, released, selfBurned>>

U64 == 0 .. MaxU64

Treasury ==
    [admin : Keys, operator : Keys, total_minted : U64, total_burned : U64,
     paused : BOOLEAN, pending_admin : Keys \cup {NoKey}, mint_cap : U64,
     redemption_nonce : U64]

RedemptionRequest ==
    [holder : Keys, token_account : Accounts, amount : U64, nonce : U64,
     requested_at : Nat]

TokenAccount ==
    [owner : Keys, amount : U64, frozen : BOOLEAN,
     delegate : Keys \cup {EscrowKey, NoKey}, delegated_amount : U64]

-----------------------------------------------------------------------------
(* Token-2022, as far as the program and the holders use it.               *)

\* spend: authority k may move or burn n out of account a.
CanSpend(k, a, n) ==
    /\ ~token[a].frozen
    /\ token[a].amount >= n
    /\ \/ token[a].delegate = k /\ token[a].delegated_amount >= n
       \/ token[a].delegate # k /\ token[a].owner = k

\* The account after it: a delegate uses up what was delegated to it.
Spent(k, a, n) ==
    LET left == token[a].delegated_amount - n
    IN  IF token[a].delegate = k
        THEN [token[a] EXCEPT !.amount = @ - n, !.delegated_amount = left,
                              !.delegate = IF left = 0 THEN NoKey ELSE @]
        ELSE [token[a] EXCEPT !.amount = @ - n]

Delegated(acc, d, n) == [acc EXCEPT !.delegate = d, !.delegated_amount = n]

Revoked(acc) == Delegated(acc, NoKey, 0)

-----------------------------------------------------------------------------
(* The program's instructions.                                             *)

Init ==
    /\ treasury = [admin |-> Deployer, operator |-> Deployer,
                   total_minted |-> 0, total_burned |-> 0, paused |-> FALSE,
                   pending_admin |-> NoKey, mint_cap |-> 0,
                   redemption_nonce |-> 0]
    /\ token = [a \in Accounts |->
                  [owner |-> FirstOwner[a], amount |-> 0, frozen |-> FALSE,
                   delegate |-> NoKey, delegated_amount |-> 0]]
    /\ supply = 0
    /\ requests = {}
    /\ now = 0
    /\ released = {}
    /\ selfBurned = 0

\* Mutated: the counter is not advanced.
MintUncounted(operator, a, n) ==
    /\ operator = treasury.operator
    /\ ~treasury.paused
    /\ n > 0 /\ supply + n <= MaxU64
    /\ ~token[a].frozen
    /\ token' = [token EXCEPT ![a].amount = @ + n]
    /\ supply' = supply + n
    /\ UNCHANGED <<treasury, requests, now, released, selfBurned>>

MintTokens(operator, a, n) ==
    /\ operator = treasury.operator
    /\ ~treasury.paused
    /\ n > 0
    /\ treasury.mint_cap > 0 => treasury.total_minted + n <= treasury.mint_cap
    /\ ~token[a].frozen
    /\ supply + n <= MaxU64
    /\ token[a].amount + n <= MaxU64
    /\ treasury.total_minted + n <= MaxU64
    /\ token' = [token EXCEPT ![a].amount = @ + n]
    /\ supply' = supply + n
    /\ treasury' = [treasury EXCEPT !.total_minted = @ + n]
    /\ UNCHANGED <<requests, now, released, selfBurned>>

\* The request that request_redemption records.
NewRequest(holder, a, n) ==
    [holder |-> holder, token_account |-> a, amount |-> n,
     nonce |-> treasury.redemption_nonce, requested_at |-> now]

\* Mutated: the nonce is not advanced.
RequestSameNonce(holder, a, n) ==
    /\ token[a].owner = holder
    /\ ~treasury.paused
    /\ n > 0 /\ token[a].amount >= n
    /\ ~token[a].frozen
    /\ token' = [token EXCEPT
                   ![a] = [Delegated(@, EscrowKey, n) EXCEPT !.frozen = TRUE]]
    /\ requests' = requests \cup {NewRequest(holder, a, n)}
    /\ UNCHANGED <<treasury, supply, now, released, selfBurned>>

\* Mutated: the account is delegated but not frozen.
RequestUnfrozen(holder, a, n) ==
    /\ token[a].owner = holder
    /\ ~treasury.paused
    /\ n > 0 /\ token[a].amount >= n
    /\ ~token[a].frozen
    /\ treasury.redemption_nonce + 1 <= MaxU64
    /\ token' = [token EXCEPT ![a] = Delegated(@, EscrowKey, n)]
    /\ requests' = requests \cup {NewRequest(holder, a, n)}
    /\ treasury' = [treasury EXCEPT !.redemption_nonce = @ + 1]
    /\ UNCHANGED <<supply, now, released, selfBurned>>

RequestRedemption(holder, a, n) ==
    /\ token[a].owner = holder
    /\ ~treasury.paused
    /\ n > 0
    /\ ~token[a].frozen
    /\ token[a].amount >= n
    \* `init` fails when the PDA of these seeds exists already
    /\ \A r \in requests :
          <<r.holder, r.nonce>> # <<holder, treasury.redemption_nonce>>
    /\ treasury.redemption_nonce + 1 <= MaxU64
    /\ token' = [token EXCEPT
                   ![a] = [Delegated(@, EscrowKey, n) EXCEPT !.frozen = TRUE]]
    /\ requests' = requests \cup {NewRequest(holder, a, n)}
    /\ treasury' = [treasury EXCEPT !.redemption_nonce = @ + 1]
    /\ UNCHANGED <<supply, now, released, selfBurned>>

\* The accounts that approve and cancel must be passed: the token account
\* named by the request, still owned by its holder; both handlers first
\* thaw it, which Token-2022 refuses for an account that is not frozen.
CanThawFor(r) ==
    /\ r \in requests
    /\ token[r.token_account].owner = r.holder
    /\ token[r.token_account].frozen

\* The requests among rs that lose their hold when account a is thawed.
HeldOn(a, rs) == {r.nonce : r \in {q \in rs : q.token_account = a}}

\* Mutated: the account is not left thawed.
ApproveStaysFrozen(operator, r) ==
    LET a == r.token_account IN
    /\ operator = treasury.operator
    /\ ~treasury.paused
    /\ CanThawFor(r)
    /\ token[a].delegate = EscrowKey /\ token[a].delegated_amount >= r.amount
    /\ token[a].amount >= r.amount
    /\ treasury.total_burned + r.amount <= MaxU64
    /\ token' = [token EXCEPT ![a] = Spent(EscrowKey, a, r.amount)]
    /\ supply' = supply - r.amount
    /\ treasury' = [treasury EXCEPT !.total_burned = @ + r.amount]
    /\ requests' = requests \ {r}
    /\ released' = released \cup HeldOn(a, requests \ {r})
    /\ UNCHANGED <<now, selfBurned>>

\* Mutated: the request is not closed.
ApproveLeavesOpen(operator, r) ==
    LET a == r.token_account IN
    /\ operator = treasury.operator
    /\ ~treasury.paused
    /\ CanThawFor(r)
    /\ token[a].delegate = EscrowKey /\ token[a].delegated_amount >= r.amount
    /\ token[a].amount >= r.amount
    /\ treasury.total_burned + r.amount <= MaxU64
    /\ token' = [token EXCEPT
                   ![a] = [Spent(EscrowKey, a, r.amount) EXCEPT !.frozen = FALSE]]
    /\ supply' = supply - r.amount
    /\ treasury' = [treasury EXCEPT !.total_burned = @ + r.amount]
    /\ released' = released \cup HeldOn(a, requests)
    /\ UNCHANGED <<requests, now, selfBurned>>

ApproveRedemption(operator, r) ==
    LET a == r.token_account IN
    /\ operator = treasury.operator
    /\ ~treasury.paused
    /\ CanThawFor(r)
    \* burn by the escrow authority, after the thaw
    /\ token[a].delegate = EscrowKey
    /\ token[a].delegated_amount >= r.amount
    /\ token[a].amount >= r.amount
    /\ supply >= r.amount
    /\ treasury.total_burned + r.amount <= MaxU64
    /\ token' = [token EXCEPT
                   ![a] = [Spent(EscrowKey, a, r.amount) EXCEPT !.frozen = FALSE]]
    /\ supply' = supply - r.amount
    /\ treasury' = [treasury EXCEPT !.total_burned = @ + r.amount]
    /\ requests' = requests \ {r}
    /\ released' = released \cup HeldOn(a, requests \ {r})
    /\ UNCHANGED <<now, selfBurned>>

IsExpired(r) == now - r.requested_at >= REDEMPTION_EXPIRY_SECS

\* Mutated: the pause stops cancelling too.
CancelUnlessPaused(canceller, r) ==
    LET a == r.token_account IN
    /\ ~treasury.paused
    /\ canceller \in {r.holder, treasury.admin} \/ IsExpired(r)
    /\ CanThawFor(r)
    /\ token' = [token EXCEPT
                   ![a] = [(IF canceller = r.holder THEN Revoked(@) ELSE @)
                              EXCEPT !.frozen = FALSE]]
    /\ requests' = requests \ {r}
    /\ released' = released \cup HeldOn(a, requests \ {r})
    /\ UNCHANGED <<treasury, supply, now, selfBurned>>

\* Not subject to the pause.  Only a cancelling holder can sign the revoke.
CancelRedemption(canceller, r) ==
    LET a == r.token_account IN
    /\ \/ canceller = r.holder
       \/ canceller = treasury.admin
       \/ IsExpired(r)
    /\ CanThawFor(r)
    /\ token' = [token EXCEPT
                   ![a] = [(IF canceller = r.holder THEN Revoked(@) ELSE @)
                              EXCEPT !.frozen = FALSE]]
    /\ requests' = requests \ {r}
    /\ released' = released \cup HeldOn(a, requests \ {r})
    /\ UNCHANGED <<treasury, supply, now, selfBurned>>

FreezeAccount(admin, a) ==
    /\ admin = treasury.admin
    /\ ~treasury.paused
    /\ ~token[a].frozen
    /\ token' = [token EXCEPT ![a].frozen = TRUE]
    /\ UNCHANGED <<treasury, supply, requests, now, released, selfBurned>>

ThawAccount(admin, a) ==
    /\ admin = treasury.admin
    /\ token[a].frozen
    /\ token' = [token EXCEPT ![a].frozen = FALSE]
    /\ released' = released \cup HeldOn(a, requests)
    /\ UNCHANGED <<treasury, supply, requests, now, selfBurned>>

Pause(admin) ==
    /\ admin = treasury.admin
    /\ ~treasury.paused
    /\ treasury' = [treasury EXCEPT !.paused = TRUE]
    /\ UNCHANGED <<token, supply, requests, now, released, selfBurned>>

Unpause(admin) ==
    /\ admin = treasury.admin
    /\ treasury.paused
    /\ treasury' = [treasury EXCEPT !.paused = FALSE]
    /\ UNCHANGED <<token, supply, requests, now, released, selfBurned>>

\* Mutated: the default key is accepted.
ProposeAnyKey(admin, new_admin) ==
    /\ admin = treasury.admin
    /\ new_admin # treasury.admin
    /\ treasury' = [treasury EXCEPT !.pending_admin = new_admin]
    /\ UNCHANGED <<token, supply, requests, now, released, selfBurned>>

ProposeAdmin(admin, new_admin) ==
    /\ admin = treasury.admin
    /\ new_admin # DefaultKey
    /\ new_admin # treasury.admin
    /\ treasury' = [treasury EXCEPT !.pending_admin = new_admin]
    /\ UNCHANGED <<token, supply, requests, now, released, selfBurned>>

AcceptAdmin(new_admin) ==
    /\ treasury.pending_admin = new_admin
    /\ treasury' = [treasury EXCEPT !.admin = new_admin,
                                    !.pending_admin = NoKey]
    /\ UNCHANGED <<token, supply, requests, now, released, selfBurned>>

CancelPendingAdmin(admin) ==
    /\ admin = treasury.admin
    /\ treasury.pending_admin # NoKey
    /\ treasury' = [treasury EXCEPT !.pending_admin = NoKey]
    /\ UNCHANGED <<token, supply, requests, now, released, selfBurned>>

SetOperator(admin, new_operator) ==
    /\ admin = treasury.admin
    /\ new_operator # DefaultKey
    /\ new_operator # treasury.operator
    /\ treasury' = [treasury EXCEPT !.operator = new_operator]
    /\ UNCHANGED <<token, supply, requests, now, released, selfBurned>>

UpdateMintCap(admin, new_cap) ==
    /\ admin = treasury.admin
    /\ new_cap # treasury.mint_cap
    /\ treasury' = [treasury EXCEPT !.mint_cap = new_cap]
    /\ UNCHANGED <<token, supply, requests, now, released, selfBurned>>

-----------------------------------------------------------------------------
(* What holders do with their accounts directly, and the passing of time.  *)

Transfer(k, from, to, n) ==
    /\ from # to
    /\ n > 0
    /\ CanSpend(k, from, n)
    /\ ~token[to].frozen
    /\ token[to].amount + n <= MaxU64
    /\ token' = [token EXCEPT ![from] = Spent(k, from, n), ![to].amount = @ + n]
    /\ UNCHANGED <<treasury, supply, requests, now, released, selfBurned>>

Burn(k, a, n) ==
    /\ n > 0
    /\ CanSpend(k, a, n)
    /\ supply >= n
    /\ token' = [token EXCEPT ![a] = Spent(k, a, n)]
    /\ supply' = supply - n
    /\ selfBurned' = selfBurned + n
    /\ UNCHANGED <<treasury, requests, now, released>>

Approve(a, d, n) ==
    /\ ~token[a].frozen
    /\ token' = [token EXCEPT ![a] = Delegated(@, d, n)]
    /\ UNCHANGED <<treasury, supply, requests, now, released, selfBurned>>

Revoke(a) ==
    /\ ~token[a].frozen
    /\ token' = [token EXCEPT ![a] = Revoked(@)]
    /\ UNCHANGED <<treasury, supply, requests, now, released, selfBurned>>

SetAccountOwner(a, new_owner) ==
    /\ a \notin FixedOwner
    /\ ~token[a].frozen
    /\ token' = [token EXCEPT ![a] = [Revoked(@) EXCEPT !.owner = new_owner]]
    /\ UNCHANGED <<treasury, supply, requests, now, released, selfBurned>>

Tick ==
    /\ now < MaxTime
    /\ now' = now + 1
    /\ UNCHANGED <<treasury, token, supply, requests, released, selfBurned>>

-----------------------------------------------------------------------------

HolderStep ==
    \/ \E k \in Keys, a, b \in Accounts, n \in Amounts : Transfer(k, a, b, n)
    \/ \E k \in Keys, a \in Accounts, n \in Amounts : Burn(k, a, n)
    \/ \E a \in Accounts, d \in Spenders, n \in Amounts : Approve(a, d, n)
    \/ \E a \in Accounts : Revoke(a)
    \/ \E a \in Accounts, k \in Keys : SetAccountOwner(a, k)

RedemptionStep ==
    \/ \E k \in Keys, a \in Accounts, n \in Amounts : RequestRedemption(k, a, n)
    \/ \E k \in Keys, r \in requests : ApproveRedemption(k, r)
    \/ \E k \in Keys, r \in requests : CancelRedemption(k, r)

AdminStep ==
    \/ \E k \in Keys, a \in Accounts : FreezeAccount(k, a)
    \/ \E k \in Keys, a \in Accounts : ThawAccount(k, a)
    \/ \E k \in Keys : Pause(k)
    \/ \E k \in Keys : Unpause(k)
    \/ \E k \in Keys, new \in Keys \cup {DefaultKey} : ProposeAdmin(k, new)
    \/ \E k \in Keys : AcceptAdmin(k)
    \/ \E k \in Keys : CancelPendingAdmin(k)
    \/ \E k \in Keys, new \in Keys \cup {DefaultKey} : SetOperator(k, new)
    \/ \E k \in Keys, c \in Caps : UpdateMintCap(k, c)

Next ==
    \/ \E k \in Keys, a \in Accounts, n \in Amounts : MintTokens(k, a, n)
    \/ RedemptionStep
    \/ AdminStep
    \/ HolderStep
    \/ Tick

Spec == Init /\ [][Next]_vars

-----------------------------------------------------------------------------
(* Properties.                                                             *)

\* Every account holds values of its Rust type: no counter ever leaves u64.
TypeOK ==
    /\ treasury \in Treasury
    /\ token \in [Accounts -> TokenAccount]
    /\ supply \in U64
    /\ requests \subseteq RedemptionRequest
    /\ now \in Nat
    /\ released \subseteq U64
    /\ selfBurned \in Nat

\* The treasury's two counters account for every token that exists: what was
\* minted and not burned, by the program or by a holder on his own, is the
\* supply of the mint (mint_tokens_handler, approve_redemption_handler).
SupplyAccounted ==
    treasury.total_minted = supply + treasury.total_burned + selfBurned

\* Redemption requests are told apart by their nonce alone, also after any
\* number were closed: a nonce is issued once (request_redemption_handler).
NoncesIssuedOnce ==
    /\ \A r \in requests : r.nonce < treasury.redemption_nonce
    /\ \A r, q \in requests : r.nonce = q.nonce => r = q

\* The tokens of request r are set aside in its holder's account: frozen
\* there, delegated to the escrow authority, and not yet spent.
Escrowed(r) ==
    LET acc == token[r.token_account] IN
    /\ acc.frozen
    /\ acc.owner = r.holder
    /\ acc.delegate = EscrowKey
    /\ acc.delegated_amount = r.amount
    /\ acc.amount >= r.amount

\* A request keeps its tokens in escrow for as long as it is open, whatever
\* its holder, the operator and the admin do, unless somebody who may thaw
\* its account does (request_redemption_handler and the burn it prepares).
HoldIntact == \A r \in requests : r.nonce \notin released => Escrowed(r)

\* Two requests whose holds are intact are never on the same account: the
\* tokens that one burns were not promised to another.
OneHoldPerAccount ==
    \A r, q \in requests :
        r.nonce \notin released /\ q.nonce \notin released
           /\ r.token_account = q.token_account => r = q

\* The admin is never its own successor: an accepted or superseded proposal
\* leaves nothing behind that could be accepted again.
PendingAdminIsNew == treasury.pending_admin # treasury.admin

\* A request is closed in one of two ways only: its exact amount is burned
\* from the account it names and counted in total_burned, or the account
\* keeps all its tokens.  Either way the account is usable again.
ClosedByBurnOrReturn ==
    [][\A r \in requests \ requests' :
          LET acc == token[r.token_account]
              acc2 == token'[r.token_account]
          IN  /\ ~acc2.frozen
              /\ \/ /\ acc2.amount = acc.amount
                    /\ treasury'.total_burned = treasury.total_burned
                    /\ supply' = supply
                 \/ /\ acc2.amount = acc.amount - r.amount
                    /\ treasury'.total_burned = treasury.total_burned + r.amount
                    /\ supply' = supply - r.amount]_vars

\* The ledger that the treasury and its requests implement.
Ledger == INSTANCE RedemptionLedger WITH
    Limit <- MaxU64,
    open <- {[nonce |-> r.nonce, amount |-> r.amount] : r \in requests},
    nonce <- treasury.redemption_nonce,
    minted <- treasury.total_minted,
    burned <- treasury.total_burned

\* Every run of the program is a run of the redemption ledger: a token is
\* counted as burned only by consuming one open request, whole, and once.
ImplementsLedger == Ledger!LedgerSpec
=============================================================================

# ZKSettle in TLA+

ZKSettle gates transfers of Token-2022 assets by zero-knowledge compliance
proofs. An issuer keeps credentials in a Merkle tree and publishes the tree's
roots on chain; a holder proves, without showing the credential, that it is in
the tree, not sanctioned, of an allowed jurisdiction and not expired; the
program verifies the proof against the published roots, burns a nullifier and
records an attestation; a stablecoin program manages a mint and its redemptions;
off-chain services index the attestations, meter the API and refresh the
sanctions list; a dashboard and an SDK drive all of it.

This directory holds TLA+ modules translated from the source, TLC
configurations that check them on small instances and proofs that TLAPS checks.
`PROJECT.json` maps every definition to the lines it models.

## Inventory

| Component | State | Operations | What is hard | What makes it correct |
|---|---|---|---|---|
| `backend/programs/stablecoin` | one Treasury (admin, operator, counters, pause, cap, nonce); RedemptionRequest accounts; Token-2022 accounts and supply (external) | initialize, mint, request / approve / cancel redemption, freeze / thaw, pause, two-step admin, operator, cap | holders, operator and admin interleave on the same token account; a request lives for days; u64 counters | counters account for the supply; a request's tokens stay set aside; each request is burned once or returned once |
| `backend/programs/zksettle` | Issuer (roots, slot), HookPayload per authority, compressed nullifiers and attestations (Light), attestation tree registry | register / update roots, init / resize / write / finalize / close payload, settle_hook, execute, verify_proof, check_attestation | a proof is staged over several transactions while roots, clock and tree change; Execute leaves the payload in place | a nullifier settles once; what settles was verified against roots that were current and fresh |
| `backend/crates/issuer-service` | credentials, membership and sanctions trees, roots_dirty, registered; JSON file on disk | issue, revoke, add wallet, publish, rotate, prove, read | network calls between snapshot and update, restarts, transactions that land but report an error | a change that was answered lasts; the chain gets the roots of the tree and older ones never land last |
| `backend/crates/sanctions-updater` | whether it thinks the issuer registered | fetch, build, publish | read-modify-write of roots that the issuer service also writes | no update of another root is lost |
| `backend/crates/indexer`, `sdk/src/audit` | dedup store, events table, Irys | webhook, list, audit | upload, insert and mark are three steps; deliveries are repeated, concurrent and cut off | an event is stored, once, unless a step for it failed |
| `backend/crates/api-gateway` | keys, usage per period, nonces, sessions | login, key management, metered proxy | reserve and release around an upstream call; period roll-over; a nonce used once | usage keeps to the tier's limit; a request that was turned away is not charged |
| dashboard: session and keys | two cookies, the query cache, the key gate | sign in and out, create, paste, activate, revoke a key | nothing orders the calls that read and write the cookies | a tenant works under its own key; the gate decides and tells the truth |
| dashboard: prove flow, `sdk/src/wrap` | reducer, runningRef; one HookPayload account per wallet | six steps; register, close, init, resize, write, finalize | several transactions in flight, confirmations that do not confirm, a page that is left, a second client | the proof that is staged is the flow's own; a retry helps; a flow ends |
| dashboard: stablecoin console, SDK client | two cached reads, a dialog, transactions in the wallet | every instruction of the stablecoin program | the chain moves while a dialog is open | what is confirmed is what was shown, to whom it was shown |
| dashboard: issuer pages, wallet signatures | query cache; cached signature, shared prompt | look up, register, issue, revoke, publish; sign | reads under way when something changes; a wallet switched during a prompt | a revocation is shown; a signature fits its call |
| dashboard: audit log | pages per filter | filter, load more, refresh, export | rows are inserted between two pages | no row is hidden or shown twice |
| `scripts` | `devnet-state.json`, one payload account | set up, transfer, benchmark, stress | stopped anywhere, run twice at once | the file names accounts that belong together; the report adds up |
| `zksettle-crypto`, `circuits`, `zksettle-types`, `zksettle-config` | none | hashing, trees, proofs, layouts | field arithmetic | out of TLC's reach |

## How the parts interact

The issuer service and the sanctions updater share one key and write one
account, the Issuer PDA of the zksettle program. The program checks proofs
against the roots in that account. A holder's client (the dashboard's prove
page, the SDK, a script) stages the proof in the wallet's HookPayload account
and settles it, directly or inside a Token-2022 transfer, with a Light validity proof
that is good for as long as Light keeps the root of the address tree it was made
against. The events of a
settlement reach the indexer by webhook, whose table the audit log pages
through. The gateway stands in front of the issuer service and the indexer,
meters calls by API key, and issues the sessions and keys that the dashboard
keeps in cookies. The stablecoin program shares no account with zksettle; the
dashboard's console drives it through the SDK.

On chain, one transaction is one atomic step and a failed one leaves no trace,
so an instruction is one action and every constraint, `require!` and failing CPI
is a conjunct of its guard. Off chain this is not so: a handler that holds the
state's lock throughout is one action, and one that awaits between reading and
writing is split where it awaits. In the browser a step is what runs between two
awaits, or one render's click.

## Modules

| Module | Models | Kind |
|---|---|---|
| `Stablecoin` | the stablecoin program and the Token-2022 accounts of its mint | detailed specification |
| `RedemptionLedger` | what the program promises about redemptions | abstract specification |
| `HookSettlement` | the zksettle program | detailed specification |
| `ProofStaging` | what a HookPayload account promises whoever stages a proof in it | abstract specification |
| `AttestationRegistry` | what the program promises those who rely on attestations | abstract specification |
| `RootPublication` | issuer service, sanctions updater, `zksettle-rpc`, the Issuer account | composition |
| `ProofUpload` | the submit step of the prove page and `uploadProofChunked`, on one HookPayload account | component |
| `ProveFlow` | the prove page (reducer, steps, panel) over `ProofUpload` | composition |
| `GatewayQuota` | metering around a proxied request | component |
| `DashboardSession` | the gateway's nonces, sessions and keys, the dashboard's cookies, sign-in and out, key panel and key gate | composition |
| `Indexer` | webhook, dedup store, archive, events table, the SDK's `audit()` | component |
| `AuditTrail` | `GET /events` and the audit log over `Indexer` | composition |
| `StablecoinConsole` | the admin page over `Stablecoin` | composition |
| `IssuerConsole` | the three issuer pages over the query cache and the issuer service | composition |
| `WalletAuth` | wallet signatures: cache, shared prompt, the service's check | component |
| `DevnetScripts` | set-up, transfer, benchmarks, stress test | component |
| `MC*` | instances, symmetry, properties with ENABLED; `MCGateway` and `MCIssuerPages` run two components that share no variable, either by itself | for TLC |
| `*Proofs`: of `Stablecoin` with `StablecoinConsole`, `HookSettlement`, `RootPublication`, `ProveFlow`, `GatewayQuota` and `DashboardSession` (`GatewayProofs`), `AuditTrail` with `Indexer`, `IssuerConsole` and `WalletAuth` (`IssuerPagesProofs`), `DevnetScripts` | the theorems | for TLAPS |

A definition that a comment calls "Mutated" is not part of any specification. It
is a form of its neighbour with a plausible bug in it, kept to show that some
property notices: replacing the neighbour's body by it makes TLC report a
violation (`mutants` in `PROJECT.json`). `TypeOK` documents the state of each
module; it is an invariant of the run where it says most, `Stablecoin`, where it
contains that no u64 counter overflows, and a theorem where there are proofs.

### Stablecoin

`treasury`, `requests` and `now` are the Treasury account, the RedemptionRequest
accounts and the clock; `token` and `supply` are Token-2022's, external, with
the owner, amount, frozen flag, delegate and delegated amount that the program's
CPIs depend on. `initialize_mint` can only succeed once and before everything
else: it is `Init`. Each other instruction is the action of its name. The
actions `Transfer`, `Burn`, `Approve`, `Revoke` and `SetAccountOwner` are what
holders may do to their accounts without the program and between any two of its
instructions; this is what makes a hold hard to keep. `released` and
`selfBurned` are history: the requests whose account somebody thawed while they
stayed open, and the tokens burned outside the program.

A hold is the account frozen *and* delegated to the escrow PDA for the
requested amount. `HoldIntact` says that it lasts until the admin, or the
closing of another request on the account, thaws it; `HolderCanExit` that the
holder of an intact hold can cancel at once, even when paused, and anybody can
once it expired; `ClosedByBurnOrReturn` that a request disappears by burning
exactly its amount or by returning everything. `ImplementsLedger` is the
refinement: `open` is the requests without their accounts, `nonce`, `minted` and
`burned` are the treasury's counters.

### HookSettlement

An issuer and its payload are PDAs of the authority that signs, so `issuers` and
`payload` are functions of the authority. The proof vector is a sequence whose
elements say of which proof the byte is, or `NoByte`; Groth16 verification
(`VerifyBundle`) accepts a vector that is one proof throughout and whose public
inputs are the staged claim and the issuer's present roots. Light is the set
`addresses`: creating one that exists fails. Bubblegum is a counter of leaves
with a limit. What finalize stores for Light, a validity proof and the index of
the root it goes with, is one thing: the number of that root (`root` of
`StagedLightArgs`, negative if there is no proof). Others create addresses too, so
the tree moves on at any time (`TreeMovesOn`), and the proof holds as long as its
root is among the last `ROOT_HISTORY` (`ProofHolds`); `settle_hook`, Execute and
`verify_proof` are refused after that. `OthersDoNotBlock` and
`TransfersOutliveTheTree` are about payloads whose proof still holds, and say that
this, the staged roots and clocks, and room in the attestation tree are all that
such a payload depends on. Slots and seconds advance independently. `published` and `checked`
are history, and so are the fields `proof`, `tree` and `at` of a settlement.

Uniqueness of a nullifier is a fact about one Light address tree: the address is
derived from the tree that the caller passes, so `SettledOncePerTree` is the
strongest form that the program ensures by itself.

Two abstract specifications say what the program is for, and it implements both.
`ProofStaging` sees only the payload accounts: a proof is written front to back,
nothing written is written again, the claim comes last, and from then on the
account can only be closed. The mapping (`StagedAccount`, `AccountOf`) forgets
sizes, reallocation and offsets: the content of an account is what lies below its
high-water mark. `AttestationRegistry` sees no accounts, no staging and no Light:
an attestation is made in one step, from one whole proof of its claim, against
roots that its issuer has at that moment, once per nullifier in each tree, for an
epoch that is neither future nor long past, and vouched for only while young.

### RootPublication

`credentials`, `tree`, `roots_dirty`, `registered` and `lock` are the state of
the service and its `publish_lock`, `disk` its file: `NoPath` without a
`state_path`, when nothing is ever saved, `NoFile` before the first save. A
restart that finds a file and can read it loads it; any other starts from nothing
(`loaded` of `Restart`), whatever was answered before, and the next save
overwrites the file. `acked` is history: what clients were told since the service
last started from nothing; `AckedIsDurable` says that it still has all of it.
Hashes are taken to be free
of collisions, so a root is the sequence of leaves below it. Publishing is three
actions: `StartPublish` takes the lock, decides and reads the roots; the
transaction lands (`TxLands`), is refused (`TxRefused`) or its RPC call fails
(`RpcError`); `FinishPublish` updates the flags and releases the lock. The HTTP
handler and the rotation task take the same steps, as `Http` and `Rotation`. An
RPC error may leave the transaction in flight (`detached`), as do a client that
disconnects (`ClientGone`: the blocking task that sends is not cancelled) and a
restart. The updater reads the account and sends in one action, which is
generous to it; its transaction lands in another.

`overtaken` records that a credential changed while roots were on their way.
`CleanMeansPublished` and `RootsMoveForward` say what the lock and the dirty flag
achieve and name the only circumstances in which they do not; see Observations.

### ProofUpload and ProveFlow

`tx[f][n]` is the fate of each transaction of each attempt: unsent, in flight,
landed, failed on chain, or gone with its blockhash. Transactions in flight land
in any order and after their sender gave up. `flow` is the program counter of the
attempts, `kind` says whose: `live` and `demo` are the page's, `sdk` is
`uploadProofChunked`. `alone` is history: nobody else's transactions were in
flight when the attempt began its upload, and none were sent from then until its
finalize completed a payload (`staged`), or since, if it has not. A chunk is
named by the flow that wrote it, and a claim likewise, so that `OwnProofStaged`
can tell a mixture. The clause about `staged` came with the proof: an attempt
that was complete has nothing to fear from later ones, but one whose finalize is
still on its way has, and the third of three attempts may write into what the
second left.
`ProveFlow` adds `flowReducer`'s state, `runningRef` and the mounts of the page;
its `Submit` is a step of `ProofUpload` together with the dispatches it causes.
The account under it, which the page, the SDK and transactions of abandoned
attempts all write to, is again one that `ProofStaging` describes
(`ImplementsStaging`).

### GatewayQuota and DashboardSession

`GatewayQuota` is one key: `row` its `usage_records` row, `req` where each
handler stands, `late` the number of units that requests of an earlier period
gave back in this one. `QuotaHeld` bounds what a period lets through by the limit
plus `late`, and the count by the requests that went through. The comment on
`try_reserve` promises exactly the limit; the run `quota_comment` refutes that
(`AllowsExactlyLimit`).

`DashboardSession` has the gateway's nonces, sessions and keys and the browser's
two cookies; a call carries the cookies of the moment it was sent and changes
them when its answer arrives. Either cookie may run out at any moment, the session
after a day and the key after a week (`SessionExpires`, `KeyExpires`; the model has
no clock here, so the key may run out first, as it does when the tenant signs in
anew); a reload forgets the caches, the answers of the calls under way, and the
races that only they could have spoilt (`Reload`); a page that is refused sends a
DELETE of the key (`PageRefused`). The model is of one tab. `ended` is history:
whose session ran out, if nobody signed in or out since. `races` is history too:
`overlap`, a refresh of the gate started while another call of the gate or of its
pages was in flight; `lapsed`, the key ran out under a mounted gate; `mixed`, one of
the ways in which the two cookies may come to belong to different tenants, which
`KeyIsTheTenants` names, a session that ran out among them. The gate notices none
of this by itself: it is right again after its next refresh.

### Indexer and AuditTrail

A delivery goes through its events one by one: `is_uploaded`, upload, insert,
mark. A handler is the step it is in, the event it is at and the events it has
left, an event being the place of its transaction in the request and the line of
its log; `Proceed` goes on to the first that is left, or answers. Each step may
fail, and a failure is logged and skipped; a restart drops all open deliveries.
`faulty` is history: an upload or an insert of that nullifier failed.
`AuditTrail` extends it by the query cache of `useInfiniteQuery`, a list of pages
per filter. A page is the set of its rows, which are shown in the order of the
query; `skips` is history, the rows the cursors were made from. Those rows are on
no page: the code's test of pagination (`events.rs:267`) expects otherwise, and the
run `audit_pages` refutes it (`PagesHoldEveryRow`). `OnlyCursorsMissing` says that no
other row is lost, whatever is inserted between two pages. The table is taken to
be there: without a database the webhook stores nothing (`webhook.rs:47`).

### StablecoinConsole, IssuerConsole, WalletAuth, DevnetScripts

`StablecoinConsole` puts the page (`wallet`, `view`, `queue`, `dialog`, `sends`)
over the whole of `Stablecoin`: what other wallets do is `Elsewhere`, and a
transaction that was sent lands later as an action of `Stablecoin` or never. The
form of a mint takes any key (`Destinations`), and the program accepts what it was
offered only for one that is a token account (`OfferedIsAccepted`).
`IssuerConsole` is the query cache (`query`), with the rules of invalidation of
TanStack Query as external behaviour, and the calls under way. `WalletAuth` is
the module state of `wallet-auth.ts`; a signature stands for its message.
`DevnetScripts` has a program counter per run of a script; runs in two terminals
interleave, and each may be stopped anywhere. They share the wallet's payload
account, which they may close and finalize for each other; it stays an account of
`ProofStaging` whatever they do to it. `struck` is history: the runs that were
stopped, or whose close failed. `FinalizedIsClosed` says that these are the only
ones that leave a finalized payload behind. With these scripts no settlement
succeeds in the model, as in the code: `transfer.ts` makes up a nullifier that is
not the proof's, the benchmarks claim epoch 0, and neither stages a Light validity
proof; what is left of them is what they do when it fails.

## Runs

| Run | Bounds | Shows |
|---|---|---|
| `stablecoin` | 2 keys, 2 accounts (one may change hands), amount 1, caps 0 and 1, u64 of 0..2, one unit of time to expiry | types, supply, holds, exits, closing, refinement of `RedemptionLedger` |
| `hook_staging` | 2 issuers, proofs of 2 bytes, lengths 0, 2, 3, an attestation tree of 1 leaf, tails 0 and 8; 2 more roots of the address tree, of which 2 are kept, no validity proof or one of the first two roots | refinement of `ProofStaging`, what issuers can block each other by, a full tree |
| `hook_clocks` | 1 issuer, 3 slots, 5 seconds, epochs of 2 s, 2 publications, 3 roots; the address tree stands still | refinement of `AttestationRegistry`; roots current and fresh, timestamps recent, attestations expire |
| `publication` | 2 wallets, 2 changes, with and without a state path, 1 restart from the file or from nothing, 1 RPC error, 1 disconnect, late errors, updater on | tree and records agree, durability, what the lock and the flag ensure, publishing is confirmed |
| `prove` | 2 attempts of page or SDK, proofs of 3 chunks, 2 writes per transaction, 1 fault, 2 mounts | what the page shows, what is staged, retries, termination |
| `gateway` | metering: 3 requests, limit 1, periods of 1; session: 2 tenants, 1 key, 2 nonces, 2 calls of the gate at a time, 1 fault, cookies that run out and reloads at any time | quota at the boundary, late releases, aborted handlers; nonces, gate, whose key |
| `quota_comment` | 4 requests, limit 2, periods of 1 | **violated**: "exactly `limit` total requests per period" (`metering.rs:46`) |
| `audit_trail` | 3 transactions (one of two events, one unreadable), 2 deliveries, pages of 1 row, 2 filters | storage and paging |
| `audit_pages` | as above | **violated**: page two of the code's own test holds the row its cursor was made from (`events.rs:267`) |
| `stablecoin_console` | 2 wallets, 1 account, mints to it or to any other key, amounts and caps 0 and 1, 2 transactions, up to 2 decimals | dialogs, offers, amounts |
| `issuer_pages` | pages: 2 wallets, 1 looked up, 3 reads, 1 write, 1 fault, 2 calls at a time; signatures: 2 wallets, 2 prompts, 2 calls, windows of 1 and 2 | revocation shown, verdict of the explorer; signatures fit and are in time |
| `devnet_scripts` | 3 runs, 2 terminals, 3 transfers by 2 workers, 1 fault | state file, clean-up, report |

Why the bounds are enough for what they are asked. u64 is cut to 0..2 and
overflow is still an overflow: every counter reaches the limit. Two accounts and
two keys suffice for one party to interfere with another, as admin, operator,
holder or successor. A proof of two bytes with a resize step of one reaches every
order of growing, writing and allocating. The slot and time limits let every age
and lag be exactly at its limit and one beyond. Two changes are issue and revoke,
with a failed save anywhere, before, during and after a publication; one restart
can fall between any two steps. Two attempts at a payload are an attempt and what
the one before it, or the SDK beside it, left in flight; three chunks and two
writes per transaction give two write transactions that can overtake each other
and two resizes. Two further roots of the address tree, of which two are kept, take
a proof against the first root from good to stale and one against the second to the
end of its life; root -1 is a payload finalized without a proof. Against a limit of
one, three requests are one of the period before that is given back late, the one
that is due, and the one too many. One key is enough for two tenants to differ over
it; `KeyBelongs` is proved for any number. One row per page makes every row a
page's last, and the next one a cursor's. Symmetry is used over issuers, wallets,
keys, nonces, slots and deliveries, never in a run with a liveness property.

CHECK_DEADLOCK FALSE stands where a system may really stop: a service with
nothing to publish, a user who clicks no more, scripts that have ended; the bounds
end behaviours too. The on-chain runs check for deadlock: somebody can always take
a step.

### Fairness

`publication`: weak fairness of the rotation task's attempt (a `tokio` interval)
and of a publisher going on (`PublisherGoesOn`: its transaction is answered,
since `send_and_confirm` polls for a bounded time and then returns an error, and
its handler then runs to the end). Nothing is assumed of the updater or of HTTP
clients. Errors, restarts and disconnects are bounded, which stands for "they
stop".

`prove`: for each attempt, weak fairness of its own steps that need no user
(every HTTP call is answered or fails) and of the network (a transaction lands or
its blockhash expires). The wallet may stay unanswered for ever, and `FlowsEnd`
says so.

## Observations

Behaviour of the code that was met while modelling, and that no property claims
to be otherwise.

Publication
- `roots_dirty` is cleared after the confirmation though the roots were read
  before the transaction was sent (`rotation.rs:82`); a credential issued or
  revoked in between is not published until the next change. A restart between
  save and publish has the same effect, as the flag is not persisted
  (`main.rs:124`).
- A state file that cannot be read does not stop the service: it logs the error,
  starts from nothing, and its first save overwrites the file (`main.rs:110`). All
  credentials and revocations answered before are gone. Without a `STATE_PATH` this
  is every restart, as `IMPLEMENTATION_STATUS.md:37` says; the `STATE_PATH=` of
  `.env.example:44` is an empty path, with which every save fails instead.
- The service publishes the root of its own, always empty, sanctions tree over the
  updater's (`state.rs:55`); `persist.rs:18` says the tree is "re-populated from
  external source on startup", which no code does.
- The updater reads the merkle root and writes it back without a lock
  (`chain.rs:129`): a root published in between is overwritten by the older one.
  Started before the issuer is registered, it sends a registration with zero
  roots, which the program refuses, for ever.
- The rotation task does nothing when no credential changed (`rotation.rs:56`), so
  roots expire for the program after `MAX_ROOT_AGE_SLOTS`, where the ADR has them
  republished within 48 hours.
- A registration that lands while its RPC call fails leaves the service sending
  `register_issuer`, which is refused, until a restart probes the account
  (`Stranded`). After a disconnect, a restart or a late error an older root can
  land last.

Programs
- The admin may thaw an account that a request holds. Approve and cancel thaw
  unconditionally and Token-2022 refuses to thaw an account that is not frozen, so
  the request can be closed by nobody until the account is frozen again
  (`cancel_redemption.rs:96`, `freeze_thaw.rs:91`). Approve has no expiry check.
- A finalized payload is good for as long as Light keeps the root of its validity
  proof; addresses that anybody creates in the tree shorten that. After it only
  closing and staging again helps (`types.rs:18`).
- `src/README.md` speaks of the operator cancelling a redemption; the code lets the
  holder and the admin cancel at any time and anybody else only after expiry.

Prove flow and SDK
- The page says the proof was verified (`prove-flow-panel.tsx:326`) once finalize
  has landed, which verifies nothing; an issuer account that exists is never
  brought up to date (`use-prove-flow.ts:418`), and the epoch of the claim is read
  at submit (`:582`), that of the proof in step 3: settle_hook may refuse both.
- The SDK's `wrap` and `transfer.ts` finalize with no validity proof at all
  (`sdk/src/wrap/index.ts:45`, `scripts/devnet-hook/transfer.ts:198`): what they
  stage can be finalized and never settled.
- In `uploadProofChunked`, if init fails because a payload is there already, the
  baseline of the resize loop is the grown account and the loop does not end.

Gateway and dashboard
- `metering.rs:46` says that a period allows exactly `limit` requests; a request
  released after the roll-over frees a unit of the next period, which then lets
  through one too many (run `quota_comment`). A handler that is cut off keeps its
  unit.
- The session ends after a day and the active-key cookie a week after it was set
  (`active-key-cookie.ts:4`), and neither is noticed. A tenant who signs in after
  another's session ran out, where nobody signed out, works under the other's key;
  a gate that is open outlives the key until a page is refused.
- A failed `/auth/logout` leaves the session cookie; a key made by the sign-in is
  not remembered, so revoking it in the panel leaves a dead cookie.
- `next_cursor` is made from the row read beyond the limit (`events.rs:94`), so that
  row is on no page. The test of pagination expects the other two of five rows on
  its second page (`events.rs:267`); the code gives one (run `audit_pages`). The
  table stores issuer and recipient in base58, the page sends its filters as hex.
- An event whose upload or insert failed is answered 200; after a failed insert it
  is marked and never stored. One unreadable data line drops the whole transaction
  in the indexer and only the line in the SDK's `audit()`.
- The stablecoin console announces success when a transaction was sent, not when it
  landed. Its pause banner says only thaw remains available; cancelling does too.
- It asks for a "Destination wallet pubkey" to mint to (`operator-controls.tsx:109`)
  and enables Mint for any valid key, which `sdk-adapter.ts:172` passes on as the
  token account. The program refuses a wallet's key; a mint that is offered is
  accepted only if the key that was typed is a token account.
- On the issuer pages a 401 for a wallet that is not the signer's drops a good API
  key. A revocation answered while another wallet is shown may be followed by up to
  30 s of "Active" from a read that was under way.
- A signature carries the browser's time and is judged by the service's
  (`auth.rs:79`). `WalletAuth` has one clock, so `ReuseLeavesTime` is about browsers
  whose clock is right; one that is behind by more than the difference of the
  windows may be refused.
- A prompt of the old wallet that is answered after a switch clears the new
  wallet's shared prompt: its next call opens a second one. No call takes a wrong
  signature by it.

Scripts
- A set-up that is stopped after `init_attestation_tree` and before it saves its
  state loses the tree's key; the next finds the registry taken and says so.
- No settlement of these scripts succeeds: the nullifier of `transfer.ts` is random
  and not the proof's, the benchmarks claim the epoch 0, and no validity proof is
  staged. `transfer.ts` and the benchmarks report what the failed attempt used.
- An error before finalize leaves the payload account to `--close-only`.
- `uploadProof` of `benchmark-utils.ts` never resizes, so its write is refused,
  unless another script resized the account, and the payload stays. Failed
  simulations that consumed compute units are counted as successful. Both benchmarks
  write the same result file.
- With `--concurrency 0` the stress test starts no worker and its report, without a
  result, does not add up; `ScriptsAssumption` leaves it out.

## Proofs

TLAPS checks the theorems for every value of the constants that the named
assumptions allow, and TLC evaluates these in each run:

- numbers are natural, lengths, limits and periods positive, and the sets that
  are counted finite (`NumberAssumption`, `SettlementNumbers`, `UploadNumbers`,
  `QuotaAssumption`, `PublicationAssumption`, `IndexerAssumption`,
  `TableAssumption`, `SessionAssumption`, `WalletAuthAssumption`, `ConsoleAssumption`,
  `ScriptsAssumption`);
- a placeholder for what is absent is none of what may be there
  (`KeyAssumption`, `SettlementNames`, `PublicationNames`, `NoPayloadIsNone`,
  `NullIsNoMessage`, `NoneIsNoPayload`, and parts of the above);
- the deployer has a key; a proof is its roots and its claim (`ProofShape`); the
  transactions of the chain are in slot order (`IndexerAssumption`); a zero root
  is neither a list's nor the empty tree's; a signature is reused for no longer
  than the service takes it (`WalletAuthAssumption`); runs of the scripts are
  numbered from 1 (`ScriptsAssumption`);
- three theorems about sums and what they bound, `BalancesInSupply`,
  `HoldersCanExit` and `OffersAreAccepted`, assume that there are finitely many
  token accounts.

`StablecoinProofs`. Type correctness is inductive by itself (the checked
arithmetic appears in the guards). On top of it:

- `SupplyCorrect`: total_minted = supply + total_burned + selfBurned;
- `HoldCorrect`: each step either leaves the account of an open request alone,
  or closes the request, or thaws the account and so releases it. The action
  lemmas say which accounts an action thaws (`UnfrozenOnly`, `ThawReleases`);
- `OneHoldCorrect`, two intact holds are never on one account, because a request
  needs an account that is not frozen;
- `NoncesCorrect`: open nonces lie below the counter and are distinct;
- `ClosingCorrect`, an action property, and `PendingAdminCorrect`;
- `LedgerRefinement`: initial states map to initial states and every step to a
  step of the ledger or a stutter. Types, nonces (a redeemed request leaves
  nothing behind with its number) and supply (redeeming keeps burned <= minted)
  are needed;
- `SupplyIsHeld`: the supply is the sum of what the accounts hold. A sum over a
  set is a recursion, so it is stated by enumerating the accounts in some order
  and having partial sums (`AddsUp`): changing one account changes each partial
  sum from its place on (`TotalChanges`). That no account (`BalancesInSupply`)
  holds more than the total is induction on the partial sums, done as a search
  for the least counterexample (`LeastNumber`);
- `HoldersCanExit` and `OffersAreAccepted`, below.

TLAPS cannot reason about ENABLED, and the properties that need it
(`HolderCanExit`, `OfferedIsAccepted`, `OthersDoNotBlock`,
`TransfersOutliveTheTree`) stay with TLC. Their substance is proved in another
form. An instruction is its checks and then an assignment to every variable, so
it is enabled when the checks hold. Lemmas such as `CancelGuard`, `ApproveGuard`,
`AdminGuards` and `MintGuard` prove for each instruction concerned that it *is*
the conjunction of a state predicate, `CanCancelRedemption` and the like, and one
equation per variable. The theorems prove that the predicate holds when it
should: `HoldersCanExit` of an intact hold (needs `HoldIntact`, and, since burning
must not take more than there is, `SupplyAccounted` and `BalancesInSupply`),
`OffersAreAccepted` of what the admin page offers: accepting and cancelling an
admin's transfer, pausing, and minting, which is accepted exactly when the
destination is a token account that is not frozen (an account cannot overflow if
the total does not); and in `HookSettlementProofs` `ReadySettles` of a payload that
is ready, its validity proof not yet stale, whatever other issuers have settled.

`HookSettlementProofs`. `SettledOncePerTree` and `FinalizedIsComplete` are not
inductive: nothing in them relates attestations to addresses, or a payload that
is being staged to what it will hold. `IInv` adds that the vector is empty until
the account has its size, that the bytes below the high-water mark are written,
that a finalized payload has its claim and Light arguments, that a payload
belongs to a registered issuer (`PayloadsStaged`), and that the address of every
attestation is taken (`AddressesTaken`). One lemma per instruction shows that it
keeps `IInv`; `Invariance` combines them, and `TypeCorrect`, `SettledOnce`,
`Complete` and, with the guards of the modifying instructions, `Fixed` follow.
So do the refinements. For `StagingRefinement` a write appends to the content
because it may only start at the high-water mark, and a finalized account holds
all its bytes because finalize checks the mark. For `RegistryRefinement` a
settlement attests one whole proof (a vector that verifies is one proof
throughout), and it spends the nullifier for the first time because an address
that exists cannot be created, every attestation has its address
(`AddressesTaken`), and an address names its issuer, nullifier and tree.

`FreshInv`, on top of `IInv`, is for the properties of time. An account knows only
its present roots, and a settlement happened in the past, so the history has to
be tied to both: `PublishedLast` (the roots of an issuer account are the last
published, at the slot the account records), `SettledInPast` and `CheckedInTime`
(what passed `check_attestation` was a settlement of at most the allowed age).
`RootsCurrent` and `TimeBounded` are parts of it. `RootsExpire` combines the two
age limits: what `check_attestation` accepts rests on roots that were current, and
no older than the program allows, at some slot at most MAX_ATTESTATION_AGE_SLOTS
before the check.

`RootPublicationProofs` has two invariants.

- `StoreInv`: the leaf indices of the records are 0 .. n-1, each once
  (`Indexed`), in memory and on disk; the leaves of the tree are those of the
  records (`LeavesOf`); what was answered since the last start from nothing is on
  disk, if there is a file (`AckedOnDisk`). Without
  `Indexed` a restart, which sorts the records by index and inserts them one
  after the other, could put a leaf at another place; that it does not is
  `SortedByIndex`, by counting. `TreeRight` and `Durable` follow.
- `OrderInv`: only the holder of the lock has a transaction under way
  (`CallsLocked`), whoever believes that the account exists is right
  (`AccountKnown`), and, as long as nothing disturbed the publications, tree on
  chain, tree under way and present tree come in this order (`Ordered`) and agree
  if no credential changed meanwhile (`CaughtUp`). `CleanIsPublished` is the last
  with the lock free; `MovesForward`, an action property, compares the tree that
  lands with the one it replaces.

`ProveFlowProofs` builds `FlowInv` in six layers, each on top of those before.
`Typed` says which phases exist at each stage. `Page` ties the reducer to the flow
that runs under the present mount, of which there is at most one; `OneRunner`
follows. `Ordered` says which transactions a flow can have sent: none of a later
stage than its own. `Settled`: a finalize that executed completed a payload, and
the flow the page calls verified had one; `VerifiedMeansFinalized` follows. `Own`:
a flow that is alone finds nothing in flight but its own, and from init on only its
own chunks in the account; `OwnProofStaged` follows. `Smooth`: as long as such a
flow meets no fault, the chain is in the state its next transaction needs, namely
the batch of init executed in order and a prefix of the writes; `RetrySucceeds`
follows. `RetryHelps` is the reason for the last two layers: a retry by the page
finds what the attempt before it left, closes it, and fails only by a new fault.
`StagingRefinement`: every transaction that lands, of whichever attempt and in
whichever order, opens, appends to, claims or closes the abstract account, or
changes nothing it shows; a transaction of several writes appends as many chunks
(`WritesChunks`, `Appended`).

`GatewayProofs`, first part: `QuotaHeld` is about requests, the code looks at a
count. `QuotaInv` puts the requests that hold a unit of the period between the count
and the count plus the units given back late (`Meter`), and no reservation is of a
later period than the row's (`Periods`), so that a roll-over starts with nobody
charged. Second part, the dashboard's session. `NonceSpent`: a nonce that the store
still has has bought no session. `GateInv`: an undecided gate has a refresh in
flight that will decide it, and while the last refresh started alone and the key
did not run out since (`Calm`), the one in flight saw the cookie as it is
(`SawCookie`), or the open gate is being looked at again (`Reread`). `OwnInv`: keys
on their way to the cookie were minted, and while the cookies were not mixed up, by
the tenant who holds the pages (`Holder`): the session's, or the one whose session
ran out, until somebody signs in or out. `GateIsRight` and `KeyBelongs` follow.

`AuditTrailProofs`. `LossInv` says of each handler which of its events are safe, of
the one it is at whether it is archived and inserted, and the same of what is
marked or answered; `NothingLost` follows. `RowsUnique` rests on the insert looking
before it adds. `NoRowHidden` needs for every list of the cache, and for every
fetch under way, that its pages cover the table as it was when the first page was
read (`Covers`, `ListsInv`): a matching row of that table is on a page, or it is
what a cursor was made from, or it is still to come after the cursor. That what is
listed are rows of the table is part of it (`TypeCorrect`).

`IssuerPagesProofs`, first part, the three pages. Neither property speaks of what
is still on its way, and an answer on its way can undo either. `PagesInv` adds:

- `ProofsAreOfActive`: a membership proof, in the cache or under way, is of a tree
  in which its wallet was active; so what the explorer calls compliant against
  the current roots is active now (`CompliantMeansActive`);
- `ReadsFound` and `RevokesKnown`: a revocation is of a wallet whose credential the
  page has read, so its answer finds an entry to invalidate, which drops the reads
  under way and marks it stale;
- `ToldIsRevoked`: the reads that started after that and still count find the
  wallet revoked, and until one arrives the old data is stale or being read again
  (`RevocationShows`).

Each action is a few moves of the cache (a read starts, is answered, is dropped); the
lemmas are about the moves and the proofs of the actions only combine them.

Second part, the wallet's signatures. `SignatureFits` speaks of calls that have left;
its invariant has to say what those that wait will be given. `SharedPrompt`: the
prompt that may be shared is open, for the wallet it is shared under, and signs
no body. `CachedPlain`: neither does the cached signature. `CallsInOrder`: the
prompt a call waits for is open and asks for what the call needs, and a reused
signature was young when it was taken. A prompt that is opened is not one that
somebody waits for (`OpenInOrder`), so others stay in order (`StaysInOrder`).
`SignaturesFit` and `ReuseInTime` follow; the latter is arithmetic on the two
windows.

`DevnetScriptsProofs`. `ScriptsInv` says of each place in `setup.ts` what a run that
has come there has achieved (`SetupSoFar`), accounts that nobody closes again, so
that other runs cannot take it back; `RegistryHasTree` that the one registry of the
program names a tree that exists, whoever created it. `FileComplete` follows where
the file is written. `FinalizedIsClosed` is inductive beside them, step by step: a
payload is left alone, or closed, or finalized by the run that goes on to settle it
(`Leaves`), so the run it names is where the property wants it
(`FinalizedHasACloser`). `PoolInv` is for the stress test: every task below the cursor
is with one worker or has one result, and no task landed that is still with a
worker. `TasksShared` is what the report relies on: one result for each transfer,
no recipient paid twice, no success that did not land. `ReportIsTrue` is the
report itself. Its numbers are cardinalities of bags, which the standard module
adds up over a set by recursion: `SumIsCardinality` shows, by the smallest set for
which it fails, that a sum of ones is the cardinality of the set, and
`OnesCounted` that the bags of the pool, which hold one of each, are counted by
it. A result for each transfer makes the results as many as the transfers
(`GivenCounted`), and the index maps the successes into what landed
(`SuccessesLanded`). `TypeCorrect` and `StagingRefinement` are of all five
scripts; two runs that share the account may claim or close what the other wrote,
but a write needs an account that is unwritten and unclaimed.

Only model-checked, because TLAPS cannot:

- liveness: `PublishConfirmed`, `FlowsEnd`;
- ENABLED: `HolderCanExit`, `OthersDoNotBlock`, `TransfersOutliveTheTree`,
  `OfferedIsAccepted`; what they rest on is proved, see above;
- `AmountsRoundTrip`, about the digits of an amount: powers of ten and a fold over
  a sequence, which the provers have no theory of. The induction theorems of the
  library, which take an operator, cannot be used either; where an induction is
  over numbers alone, the proofs take a least counterexample instead.

## Not modelled

- `zksettle-crypto` and the circuits: field arithmetic and hashing out of TLC's
  reach. A root is what was hashed, a proof its public inputs.
- Groth16, Light, Bubblegum, Token-2022, TanStack Query, Irys and the wallets
  beyond what they accept, refuse or return.
- The issuer service's Groth16 prover (a semaphore around an external process),
  the gateway's rate limiter, Phantom's fallback in `wallet-auth.ts`.
- `proveHighLevel` of the SDK: parallel reads whose mixture the circuit refuses.
- Rent, compute units, events, logging, encodings, generated code (the IDL),
  landing and docs pages, mock data, build and deployment files.

## Plan

Modelled so far, in this order: Stablecoin and its ledger, HookSettlement,
RootPublication; then the gateway, the session, the indexer with the audit log,
the prove flow, the two consoles, the wallet signatures and the scripts; then
`ProofStaging` and `AttestationRegistry` as what the zksettle program promises.
Proved: every safety property of the runs that TLAPS can state, the five
refinements, and the guards under the properties with ENABLED. What could be
added:

1. the type invariants of the consoles and of the wallet signatures, now parts of
   larger invariants or implied by what is proved of them, as theorems of their
   own;
2. a register of roots that only moves forward, as the abstract specification of
   `RootPublication` while nothing disturbs the publications.

--------------------------- MODULE RootPublication ---------------------------
(***************************************************************************)
(* How the roots of the issuer's trees get on chain: the issuer service    *)
(* (backend/crates/issuer-service), which issues and revokes credentials   *)
(* and publishes roots from an HTTP handler and from a rotation task, the  *)
(* sanctions updater (backend/crates/sanctions-updater), which replaces    *)
(* the sanctions root with the same key, and the issuer account they both  *)
(* write (programs/zksettle, register_issuer.rs).                          *)
(*                                                                         *)
(* A handler that holds the state's write lock is one action.  Publishing  *)
(* is not: the roots are read under a lock that is released before the     *)
(* transaction is sent, and the flags are updated after it is confirmed.   *)
(***************************************************************************)
EXTENDS Integers, Sequences, FiniteSets, Functions

CONSTANTS
    Wallets,
    Http, Rotation, Updater,    \* who sends transactions
    NoCall, NoIssuer, NoOne,
    NoFile, NoPath,     \* nothing saved yet; no state_path to save it at
    ZeroLeaf,           \* Fr::ZERO, the leaf of a revoked credential
    ZeroRoot,           \* [0u8; 32]
    NoSanctions,        \* the root of an empty sanctions tree
    Lists,              \* the roots that OFAC lists have
    LateErrors,         \* may an RPC call fail after its transaction landed?
    MaxChanges, MaxRestarts, MaxErrors, MaxDisconnects   \* bounds

Publishers == {Http, Rotation}

Senders == Publishers \cup {Updater}

ASSUME PublicationAssumption ==
    /\ LateErrors \in BOOLEAN
    /\ MaxChanges \in Nat /\ MaxRestarts \in Nat
    /\ MaxErrors \in Nat /\ MaxDisconnects \in Nat
    /\ ZeroLeaf \notin Wallets
    /\ NoSanctions # ZeroRoot /\ ZeroRoot \notin Lists

VARIABLES
    credentials,    \* wallet |-> CredentialRecord, for the wallets that have one
    tree,           \* the leaves of the membership tree
    roots_dirty, registered,
    disk,           \* the persisted state: the records, NoFile or NoPath
    lock,           \* who holds publish_lock
    call,           \* the send_and_confirm of each sender
    detached,       \* transactions whose sender no longer waits for them
    issuer,         \* the Issuer account on chain
    updaterRegistered,  \* what the sanctions updater believes
    acked,          \* history: the changes that clients were told are done,
                    \* since the service last started from nothing
    overtaken,      \* history: a credential changed while roots were being published
    changes, restarts, errors, disconnects   \* counters for the bounds

service == <<credentials, tree, roots_dirty, registered, disk, acked,
             overtaken, changes>>
ledger == <<issuer, detached>>
bounds == <<restarts, errors, disconnects>>
vars == <<service, lock, call, ledger, updaterRegistered, bounds>>

CredentialRecord == [leaf_index : Nat, revoked : BOOLEAN]

IssuerRoots ==
    [merkle_root : Seq(Wallets \cup {ZeroLeaf}) \cup {ZeroRoot},
     sanctions_root : Lists \cup {NoSanctions}, jurisdiction_root : BOOLEAN]

Transaction == [register : BOOLEAN, roots : IssuerRoots]

Call == [tx : Transaction, status : {"sent", "landed", "failed"}]

ASSUME PublicationNames ==
    /\ NoOne \notin Publishers /\ Updater \notin Publishers
    /\ NoCall \notin Call
    /\ NoIssuer \notin IssuerRoots
    /\ NoFile # NoPath
    /\ \A S \in SUBSET Wallets : {NoFile, NoPath} \cap [S -> CredentialRecord] = {}

\* Hashes do not collide, so the root of the tree is the tree.  The
\* jurisdiction tree never changes: its root is TRUE, and FALSE is zero.
\* Nothing is ever inserted into the sanctions tree of the service.
RootsAsBytes ==
    [merkle_root |-> tree, sanctions_root |-> NoSanctions,
     jurisdiction_root |-> TRUE]

Init ==
    /\ credentials = <<>> /\ tree = <<>>
    /\ roots_dirty = FALSE /\ registered = FALSE
    /\ disk \in {NoFile, NoPath}
    /\ lock = NoOne
    /\ call = [s \in Senders |-> NoCall]
    /\ detached = {}
    /\ issuer = NoIssuer
    /\ updaterRegistered = FALSE
    /\ acked = {} /\ overtaken = FALSE
    /\ changes = 0 /\ restarts = 0 /\ errors = 0 /\ disconnects = 0

-----------------------------------------------------------------------------
(* Credentials.  persist::save may fail; without a state_path it is not    *)
(* called.                                                                 *)

\* f with x mapped to y, whether or not x is in its domain.
With(f, x, y) == [z \in DOMAIN f \cup {x} |-> IF z = x THEN y ELSE f[z]]

\* What is common to the handlers that change a credential.
Change(saved) ==
    /\ changes < MaxChanges
    /\ disk = NoPath => saved        \* there is nothing that could fail
    /\ changes' = changes + 1
    /\ overtaken' = (overtaken \/ lock # NoOne)

Saved(creds) == IF disk = NoPath THEN NoPath ELSE creds

\* issue_credential and add_wallet.  When the state cannot be saved the
\* caller gets an error, but the credential stays in memory.
IssueCredential(w, saved) ==
    LET cred == [leaf_index |-> Cardinality(DOMAIN credentials), revoked |-> FALSE]
        creds == With(credentials, w, cred)
    IN
    /\ Change(saved)
    /\ w \notin DOMAIN credentials
    /\ tree' = Append(tree, w)
    /\ roots_dirty' = TRUE
    /\ credentials' = creds
    /\ disk' = IF saved THEN Saved(creds) ELSE disk
    /\ acked' = IF saved THEN acked \cup {<<w, FALSE>>} ELSE acked
    /\ UNCHANGED <<registered, lock, call, ledger, updaterRegistered, bounds>>

\* Mutated: the caller is told that it is done when it was not saved.
RevokeUnsaved(w, saved) ==
    LET creds == [credentials EXCEPT ![w].revoked = TRUE] IN
    /\ Change(saved)
    /\ w \in DOMAIN credentials
    /\ ~credentials[w].revoked
    /\ tree' = [tree EXCEPT ![credentials[w].leaf_index + 1] = ZeroLeaf]
    /\ credentials' = creds
    /\ roots_dirty' = TRUE
    /\ disk' = IF saved THEN Saved(creds) ELSE disk
    /\ acked' = acked \cup {<<w, TRUE>>}
    /\ UNCHANGED <<registered, lock, call, ledger, updaterRegistered, bounds>>

\* Mutated: the roots are not marked as changed.
RevokeQuietly(w, saved) ==
    LET creds == [credentials EXCEPT ![w].revoked = TRUE] IN
    /\ Change(saved)
    /\ w \in DOMAIN credentials
    /\ ~credentials[w].revoked
    /\ IF saved
       THEN /\ tree' = [tree EXCEPT ![credentials[w].leaf_index + 1] = ZeroLeaf]
            /\ credentials' = creds
            /\ disk' = Saved(creds)
            /\ acked' = acked \cup {<<w, TRUE>>}
       ELSE UNCHANGED <<tree, credentials, disk, acked>>
    /\ UNCHANGED <<roots_dirty, registered, lock, call, ledger, updaterRegistered,
                   bounds>>

\* When the state cannot be saved everything is rolled back.
RevokeCredential(w, saved) ==
    LET creds == [credentials EXCEPT ![w].revoked = TRUE] IN
    /\ Change(saved)
    /\ w \in DOMAIN credentials
    /\ ~credentials[w].revoked
    /\ IF saved
       THEN /\ tree' = [tree EXCEPT ![credentials[w].leaf_index + 1] = ZeroLeaf]
            /\ credentials' = creds
            /\ roots_dirty' = TRUE
            /\ disk' = Saved(creds)
            /\ acked' = acked \cup {<<w, TRUE>>}
       ELSE UNCHANGED <<tree, credentials, roots_dirty, disk, acked>>
    /\ UNCHANGED <<registered, lock, call, ledger, updaterRegistered, bounds>>

-----------------------------------------------------------------------------
(* The issuer account.                                                     *)

\* register_issuer fails when the account exists, update_issuer_root when
\* it does not, and both refuse a zero root.
Accepts(tx) ==
    /\ tx.register <=> issuer = NoIssuer
    /\ tx.roots.merkle_root # ZeroRoot
    /\ tx.roots.sanctions_root # ZeroRoot
    /\ tx.roots.jurisdiction_root

Land(tx) ==
    /\ Accepts(tx)
    /\ issuer' = tx.roots

-----------------------------------------------------------------------------
(* send_and_confirm: a transaction is sent, lands or is lost, and its      *)
(* sender learns that it landed, or gets an error.                         *)

Send(s, register, roots) ==
    call' = [call EXCEPT ![s] = [tx |-> [register |-> register, roots |-> roots],
                                 status |-> "sent"]]

Becomes(s, status) == call' = [call EXCEPT ![s].status = status]

TxLands(s) ==
    /\ call[s] # NoCall /\ call[s].status = "sent"
    /\ Land(call[s].tx)
    /\ Becomes(s, "landed")
    /\ UNCHANGED <<service, lock, detached, updaterRegistered, bounds>>

TxRefused(s) ==
    /\ call[s] # NoCall /\ call[s].status = "sent"
    /\ ~Accepts(call[s].tx)
    /\ Becomes(s, "failed")
    /\ UNCHANGED <<service, lock, ledger, updaterRegistered, bounds>>

\* Before it was sent, while it is in flight (it may still land, when errors
\* can be late), or when get_signature_statuses fails after it landed.
RpcError(s) ==
    /\ errors < MaxErrors /\ errors' = errors + 1
    /\ call[s] # NoCall
    /\ \/ call[s].status = "sent"
       \/ call[s].status = "landed" /\ LateErrors
    /\ Becomes(s, "failed")
    /\ detached' = IF LateErrors /\ call[s].status = "sent"
                   THEN detached \cup {call[s].tx} ELSE detached
    /\ UNCHANGED <<service, lock, issuer, updaterRegistered, restarts, disconnects>>

\* A transaction that is lost stays where it is.
DetachedLands(tx) ==
    /\ Land(tx)
    /\ detached' = detached \ {tx}
    /\ UNCHANGED <<service, lock, call, updaterRegistered, bounds>>

-----------------------------------------------------------------------------
(* Publishing, from POST /v1/publish and from the rotation task: the same   *)
(* steps under the same lock.                                              *)

\* Mutated: publish_lock is not taken.
StartUnlocked(p) ==
    /\ call[p] = NoCall
    /\ roots_dirty \/ ~registered
    /\ lock' = p
    /\ Send(p, ~registered, RootsAsBytes)
    /\ UNCHANGED <<service, ledger, updaterRegistered, bounds>>

\* Takes publish_lock, returns early when there is nothing to publish, and
\* reads the roots and the registered flag that the transaction will carry.
StartPublish(p) ==
    /\ lock = NoOne /\ call[p] = NoCall
    /\ roots_dirty \/ ~registered
    /\ lock' = p
    /\ Send(p, ~registered, RootsAsBytes)
    /\ UNCHANGED <<service, ledger, updaterRegistered, bounds>>

\* Mutated: the lock is kept when the transaction failed.
FinishKeepsLock(p) ==
    /\ call[p] # NoCall /\ call[p].status # "sent"
    /\ IF call[p].status = "landed"
       THEN /\ registered' = (registered \/ call[p].tx.register)
            /\ roots_dirty' = FALSE
            /\ lock' = NoOne
       ELSE UNCHANGED <<registered, roots_dirty, lock>>
    /\ call' = [call EXCEPT ![p] = NoCall]
    /\ UNCHANGED <<credentials, tree, disk, acked, overtaken, changes, ledger,
                   updaterRegistered, bounds>>

\* roots_dirty is cleared even when the roots changed after they were read.
FinishPublish(p) ==
    /\ call[p] # NoCall /\ call[p].status # "sent"
    /\ IF call[p].status = "landed"
       THEN /\ registered' = (registered \/ call[p].tx.register)
            /\ roots_dirty' = FALSE
       ELSE UNCHANGED <<registered, roots_dirty>>
    /\ lock' = NoOne
    /\ call' = [call EXCEPT ![p] = NoCall]
    /\ UNCHANGED <<credentials, tree, disk, acked, overtaken, changes, ledger,
                   updaterRegistered, bounds>>

\* The transactions that are in flight when their senders P go away.
InFlight(P) == {call[p].tx : p \in {q \in P : call[q] # NoCall /\ call[q].status = "sent"}}

\* The client of POST /v1/publish goes away: the handler is dropped with its
\* guard, while the blocking task goes on sending.
ClientGone ==
    /\ disconnects < MaxDisconnects /\ disconnects' = disconnects + 1
    /\ call[Http] # NoCall
    /\ detached' = detached \cup InFlight({Http})
    /\ lock' = NoOne
    /\ call' = [call EXCEPT ![Http] = NoCall]
    /\ UNCHANGED <<service, issuer, updaterRegistered, restarts, errors>>

-----------------------------------------------------------------------------
(* Starting again, from the persisted state or from nothing.               *)

\* The records in the order of their leaves (sort_by_key).
SortedRecords(creds) ==
    CHOOSE sorted \in [1 .. Cardinality(DOMAIN creds) -> DOMAIN creds] :
        /\ IsInjective(sorted)
        /\ \A i, j \in DOMAIN sorted : i < j =>
              creds[sorted[i]].leaf_index <= creds[sorted[j]].leaf_index

\* Mutated: the leaves of revoked credentials are left out.
LoadLive(creds) ==
    SelectSeq(SortedRecords(creds), LAMBDA w : ~creds[w].revoked)

\* persist::load inserts the leaves one by one, zero for revoked ones.
Load(creds) ==
    LET sorted == SortedRecords(creds)
    IN  [i \in DOMAIN sorted |->
            IF creds[sorted[i]].revoked THEN ZeroLeaf ELSE sorted[i]]

\* probed: whether the issuer account could be probed.  A service that could
\* not takes itself for unregistered; roots_dirty is not persisted.
\* loaded: whether there was a file and it could be read.  Otherwise the
\* service starts from nothing, and the next save overwrites the file.
Restart(probed, loaded) ==
    LET creds == IF loaded THEN disk ELSE <<>> IN
    /\ restarts < MaxRestarts /\ restarts' = restarts + 1
    /\ probed \/ errors < MaxErrors
    /\ loaded => disk \notin {NoFile, NoPath}
    /\ errors' = IF probed THEN errors ELSE errors + 1
    /\ credentials' = creds /\ tree' = Load(creds)
    /\ roots_dirty' = FALSE
    /\ registered' = (probed /\ issuer # NoIssuer)
    /\ acked' = IF loaded THEN acked ELSE {}
    /\ detached' = detached \cup InFlight(Publishers)
    /\ call' = [s \in Senders |-> IF s = Updater THEN call[s] ELSE NoCall]
    /\ lock' = NoOne
    /\ UNCHANGED <<disk, overtaken, changes, issuer, updaterRegistered, disconnects>>

-----------------------------------------------------------------------------
(* The sanctions updater.  It reads the account and writes it in two       *)
(* steps, and takes no lock.                                               *)

RootsWith(list) ==
    IF updaterRegistered
    THEN [issuer EXCEPT !.sanctions_root = list]
    ELSE [merkle_root |-> ZeroRoot, sanctions_root |-> list,
          jurisdiction_root |-> FALSE]

UpdaterTick(list) ==
    /\ call[Updater] = NoCall
    /\ Send(Updater, ~updaterRegistered, RootsWith(list))
    /\ UNCHANGED <<service, lock, ledger, updaterRegistered, bounds>>

UpdaterDone ==
    /\ call[Updater] # NoCall /\ call[Updater].status # "sent"
    /\ updaterRegistered' =
          (updaterRegistered \/ /\ call[Updater].status = "landed"
                                /\ call[Updater].tx.register)
    /\ call' = [call EXCEPT ![Updater] = NoCall]
    /\ UNCHANGED <<service, lock, ledger, bounds>>

UpdaterRestart(probed) ==
    /\ restarts < MaxRestarts /\ restarts' = restarts + 1
    /\ probed \/ errors < MaxErrors
    /\ errors' = IF probed THEN errors ELSE errors + 1
    /\ updaterRegistered' = (probed /\ issuer # NoIssuer)
    /\ detached' = detached \cup InFlight({Updater})
    /\ call' = [call EXCEPT ![Updater] = NoCall]
    /\ UNCHANGED <<service, lock, issuer, disconnects>>

-----------------------------------------------------------------------------
Answered(s) == TxLands(s) \/ TxRefused(s)

Next ==
    \/ \E w \in Wallets, saved \in BOOLEAN :
          IssueCredential(w, saved) \/ RevokeCredential(w, saved)
    \/ \E s \in Senders : Answered(s) \/ RpcError(s)
    \/ \E tx \in detached : DetachedLands(tx)
    \/ \E p \in Publishers : StartPublish(p) \/ FinishPublish(p)
    \/ ClientGone
    \/ \E probed, loaded \in BOOLEAN : Restart(probed, loaded)
    \/ \E probed \in BOOLEAN : UpdaterRestart(probed)
    \/ \E list \in Lists : UpdaterTick(list)
    \/ UpdaterDone

Spec == Init /\ [][Next]_vars

\* The timer fires, and a publish that was started goes on: a transaction
\* that was sent lands or is refused, and the task takes the answer.  Nobody
\* has to call the HTTP handlers, and the updater need not run.
PublisherGoesOn == \E p \in Publishers : Answered(p) \/ FinishPublish(p)

FairSpec ==
    /\ Spec
    /\ WF_vars(StartPublish(Rotation))
    /\ WF_vars(PublisherGoesOn)

-----------------------------------------------------------------------------
(* What the service promises.                                              *)

\* The type invariant.  The account holds no zero root, although the updater
\* sends them when it believes that the issuer is not registered.
TypeOK ==
    /\ DOMAIN credentials \subseteq Wallets
    /\ \A w \in DOMAIN credentials : credentials[w] \in CredentialRecord
    /\ tree \in Seq(Wallets \cup {ZeroLeaf})
    /\ {roots_dirty, registered, updaterRegistered, overtaken} \subseteq BOOLEAN
    /\ lock \in Publishers \cup {NoOne}
    /\ call \in [Senders -> Call \cup {NoCall}]
    /\ detached \subseteq Transaction
    /\ \/ issuer = NoIssuer
       \/ /\ issuer \in IssuerRoots
          /\ issuer.merkle_root # ZeroRoot /\ issuer.jurisdiction_root

\* Every credential has the leaf its leaf_index says, zero if it is revoked,
\* and there are no other leaves: across failed saves, which keep or roll
\* back what they did, and restarts, which rebuild the tree.  The handler
\* of GET /v1/proofs/membership builds its path on that index.
TreeMatchesCredentials ==
    /\ Len(tree) = Cardinality(DOMAIN credentials)
    /\ \A w \in DOMAIN credentials :
          LET i == credentials[w].leaf_index + 1 IN
          /\ i \in DOMAIN tree
          /\ tree[i] = IF credentials[w].revoked THEN ZeroLeaf ELSE w

\* A client that was told that its credential was issued, or revoked, finds
\* it so after any restart that found the state file and could read it,
\* whatever saves failed in between.  A service without a state_path, or with
\* a file that it cannot read, starts from nothing: then a revocation is
\* forgotten and the wallet may be issued again (persist::load in main,
\* the handlers' persist::save).
AckedIsDurable ==
    \A a \in acked :
        /\ a[1] \in DOMAIN credentials
        /\ a[2] => credentials[a[1]].revoked

\* No transaction has outlived the task that sent it: no restart, no client
\* that went away, and no error reported while a transaction could still land.
Undisturbed == restarts = 0 /\ disconnects = 0 /\ (LateErrors => errors = 0)

\* While only the service writes the account, publish_lock keeps an older
\* snapshot from landing after a newer one: a leaf that was zeroed on chain
\* stays zero, and no published leaf disappears.
RootsMoveForward ==
    [][Undisturbed /\ issuer # NoIssuer
            /\ {issuer.sanctions_root, issuer'.sanctions_root} \cap Lists = {} =>
        LET old == issuer.merkle_root  new == issuer'.merkle_root IN
        /\ Len(new) >= Len(old)
        /\ \A i \in DOMAIN old : old[i] = ZeroLeaf => new[i] = ZeroLeaf]_vars

\* The account exists, and the service, having missed the confirmation or
\* failed to probe it, will register again and be refused until it restarts.
Stranded == lock = NoOne /\ ~registered /\ issuer # NoIssuer

\* A service that has something to publish eventually gets a confirmation,
\* failed transactions, retries, disconnects and restarts included, unless it
\* has lost track of its own registration.
PublishConfirmed ==
    (roots_dirty \/ ~registered) ~> (registered /\ ~roots_dirty) \/ Stranded

\* When the service has nothing to publish, what is on chain is its tree: the
\* early returns of both publishers rest on it.  It is lost in two ways only,
\* a change between the reading of the roots and their confirmation and a
\* restart, which clears roots_dirty too and may start from nothing.
CleanMeansPublished ==
    ~overtaken /\ Undisturbed /\ lock = NoOne /\ registered /\ ~roots_dirty
        /\ issuer.sanctions_root \notin Lists => issuer.merkle_root = tree
=============================================================================

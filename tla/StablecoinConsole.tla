-------------------------- MODULE StablecoinConsole --------------------------
(***************************************************************************)
(* The admin page of the dashboard over the stablecoin program: the panels *)
(* a role sees, the confirmation dialog, the transaction handed to the     *)
(* wallet, and its landing on the chain some time later, or never.         *)
(*                                                                         *)
(* The page works from two cached reads, the treasury and the redemption   *)
(* requests, that are refetched every 30 s and after a transaction was     *)
(* sent (not landed); in between, the chain moves on under it.  A dialog   *)
(* covers the page, so one is open at a time.  It belongs to the panel     *)
(* that opened it and goes when the panel does; a transaction already in   *)
(* the wallet does not.                                                    *)
(***************************************************************************)
EXTENDS Stablecoin, Sequences, Functions, FiniteSetsExt

CONSTANTS
    MaxSends,       \* bound: transactions handed to the wallet
    MaxDigits       \* bound: decimals of the amounts checked for rounding

ASSUME ConsoleAssumption ==
    MaxSends \in Nat /\ MaxDigits \in Nat

VARIABLES
    wallet,     \* the connected wallet, or NoKey
    view,       \* useTreasury: [status, treasury]
    queue,      \* useRedemptionRequests: the requests listed
    dialog,     \* the open confirmation, or NoDialog
    sends       \* the transactions handed to the wallet, in order

pageVars == <<wallet, view, queue, dialog, sends>>
consoleVars == <<vars, pageVars>>

-----------------------------------------------------------------------------
(***************************************************************************)
(* Amounts as the operator types and reads them: a whole part and the      *)
(* digits after the point.                                                 *)
(***************************************************************************)
Digit(n, k) == (n \div 10^k) % 10

\* formatAmount: the fraction is padded to the decimals, then its trailing
\* zeros are trimmed.
FormatAmount(n, decimals) ==
    LET padded == [k \in 1..decimals |-> Digit(n, decimals - k)]
        last == {k \in 1..decimals : padded[k] # 0}
    IN  [whole |-> n \div 10^decimals,
         fraction |-> SubSeq(padded, 1, IF last = {} THEN 0 ELSE Max(last))]

\* Mutated form: a short fraction is not padded to the decimals.
ParseUnpadded(text, decimals) ==
    IF Len(text.fraction) > decimals THEN -1
    ELSE FoldFunctionOnSet(+, text.whole * 10^decimals,
           [k \in DOMAIN text.fraction |->
               text.fraction[k] * 10^(Len(text.fraction) - k)],
           DOMAIN text.fraction)

\* parseAmountToUnits: -1 (null) for more digits than the mint has.
ParseAmountToUnits(text, decimals) ==
    IF Len(text.fraction) > decimals THEN -1
    ELSE FoldFunctionOnSet(+, text.whole * 10^decimals,
           [k \in DOMAIN text.fraction |->
               text.fraction[k] * 10^(decimals - k)],
           DOMAIN text.fraction)

\* redemptionExpiry, by the clock of the browser, here the chain's.
Expired(r) == r.requested_at + REDEMPTION_EXPIRY_SECS - now <= 0

\* mintCapProgress, OperatorControls.wouldExceedCap.
Capped(t) == t.mint_cap # 0

\* Mutated form: the amount about to be minted is not counted.
AlreadyExceedsCap(t, n) == Capped(t) /\ t.total_minted > t.mint_cap

WouldExceedCap(t, n) == Capped(t) /\ t.total_minted + n > t.mint_cap

-----------------------------------------------------------------------------
(***************************************************************************)
(* Roles and panels.                                                       *)
(***************************************************************************)
\* useStablecoinRole: the part of wallet w under view v that a dialog of
\* this kind belongs to.
OfRole(kind, w, v) ==
    CASE kind = "accept_admin" ->
            w = v.treasury.pending_admin /\ w # v.treasury.admin
      [] kind \in {"mint_tokens", "approve_redemption", "cancel_redemption"} ->
            w = v.treasury.operator
      [] OTHER -> w = v.treasury.admin

\* The panel that opens a dialog of this kind is on the page.
Shown(kind, w, v) == v.status = "ok" /\ w # NoKey /\ OfRole(kind, w, v)

Visible(kind) == Shown(kind, wallet, view)

NoDialog == [kind |-> "none", arg |-> <<>>, send |-> 0]

\* A dialog outlives a change of the wallet or of the view when its panel
\* is still shown; useState of an unmounted panel is gone.
Kept(d, w, v) == IF d.kind # "none" /\ Shown(d.kind, w, v) THEN d ELSE NoDialog

\* isValidPubkey: the destination may be any public key.  The field asks for a
\* wallet's, and the transaction passes what was typed as the token account.
Destinations == Accounts \cup Keys

\* What the buttons offer under the present view.
OffersMint(d, n) ==
    /\ d \in Destinations
    /\ Visible("mint_tokens")
    /\ n # 0 /\ ~WouldExceedCap(view.treasury, n) /\ ~view.treasury.paused

OffersTransfer(kind) ==
    /\ Visible(kind)
    /\ (kind = "cancel_pending_admin") = (view.treasury.pending_admin # NoKey)

OffersEmergency(kind) ==
    /\ Visible(kind)
    /\ kind = IF view.treasury.paused THEN "unpause" ELSE "pause"

OffersFreeze(kind) ==
    /\ Visible(kind)
    /\ kind = "freeze_account" => ~view.treasury.paused

OffersRedemption(kind, r) ==
    /\ Visible(kind)
    /\ kind = IF Expired(r) THEN "cancel_redemption" ELSE "approve_redemption"
    /\ kind = "approve_redemption" => ~view.treasury.paused

-----------------------------------------------------------------------------
(***************************************************************************)
(* The page.                                                               *)
(***************************************************************************)
OpenDialog(kind, arg) ==
    /\ dialog.kind = "none"
    /\ dialog' = [NoDialog EXCEPT !.kind = kind, !.arg = arg]
    /\ UNCHANGED <<vars, wallet, view, queue, sends>>

QueueAcceptAdmin ==
    Visible("accept_admin") /\ OpenDialog("accept_admin", <<>>)
QueueSetOperator(k) ==
    Visible("set_operator") /\ OpenDialog("set_operator", <<k>>)
QueueProposeAdmin(k) ==
    OffersTransfer("propose_admin") /\ OpenDialog("propose_admin", <<k>>)
QueueCancelPendingAdmin ==
    OffersTransfer("cancel_pending_admin")
    /\ OpenDialog("cancel_pending_admin", <<>>)
QueueMintCap(c) ==
    Visible("update_mint_cap") /\ OpenDialog("update_mint_cap", <<c>>)
QueueEmergency(kind) == OffersEmergency(kind) /\ OpenDialog(kind, <<>>)
QueueFreezeThaw(kind, a) == OffersFreeze(kind) /\ OpenDialog(kind, <<a>>)
QueueMint(d, n) == OffersMint(d, n) /\ OpenDialog("mint_tokens", <<d, n>>)
QueueRedemption(kind, r) ==
    r \in queue /\ OffersRedemption(kind, r) /\ OpenDialog(kind, <<r>>)

\* Cancel, Escape, the backdrop: not while the transaction is submitted.
CloseDialog ==
    /\ dialog.kind # "none" /\ dialog.send = 0
    /\ dialog' = NoDialog
    /\ UNCHANGED <<vars, wallet, view, queue, sends>>

\* submit: mutateAsync with the wallet of this render as payer.
Confirm ==
    /\ dialog.kind # "none" /\ dialog.send = 0
    /\ Len(sends) < MaxSends
    /\ sends' = Append(sends, [kind |-> dialog.kind, arg |-> dialog.arg,
                               signer |-> wallet, at |-> "wallet"])
    /\ dialog' = [dialog EXCEPT !.send = Len(sends')]
    /\ UNCHANGED <<vars, wallet, view, queue>>

\* What is left of a transaction that can no longer land.
Over == [kind |-> "none", arg |-> <<>>, signer |-> NoKey, at |-> "over"]

InWallet(i) == sends[i].at = "wallet"

\* sendTransaction returns a signature: the dialog closes with a toast that
\* says it is done.  The refetches that follow are RefetchTreasury and
\* RefetchRedemptions, which read the chain of that moment.
SendSucceeds(i) ==
    /\ InWallet(i)
    /\ sends' = [sends EXCEPT ![i].at = "flight"]
    /\ dialog' = IF dialog.send = i THEN NoDialog ELSE dialog
    /\ UNCHANGED <<vars, wallet, view, queue>>

\* It throws: declined, or not built, or sent with the answer lost.  The
\* dialog stays, shows the error, and may be confirmed again.
SendFails(i, reached) ==
    /\ InWallet(i)
    /\ sends' = [sends EXCEPT ![i] =
                   IF reached THEN [@ EXCEPT !.at = "flight"] ELSE Over]
    /\ dialog' = IF dialog.send = i THEN [dialog EXCEPT !.send = 0] ELSE dialog
    /\ UNCHANGED <<vars, wallet, view, queue>>

\* Connect, disconnect, or another account in the wallet.
SwitchWallet(k) ==
    /\ k # wallet
    /\ wallet' = k
    /\ UNCHANGED <<vars, view, queue, sends>>
    /\ dialog' = Kept(dialog, wallet', view')

\* The treasury account, field after field; Borsh writes an Option as a tag
\* and, if it is Some, the value, so what follows it moves.
TreasuryData(t) ==
    <<t.admin, t.operator, t.total_minted, t.total_burned, t.paused>>
    \o (IF t.pending_admin = NoKey THEN <<0>> ELSE <<1, t.pending_admin>>)
    \o <<t.mint_cap, t.redemption_nonce>>

\* decodeTreasury: the offset advances past the fields one by one.
DecodeTreasury(data) ==
    LET some == data[6] = 1
        offset == IF some THEN 8 ELSE 7
    IN  [admin |-> data[1], operator |-> data[2],
         total_minted |-> data[3], total_burned |-> data[4], paused |-> data[5],
         pending_admin |-> IF some THEN data[7] ELSE NoKey,
         mint_cap |-> data[offset], redemption_nonce |-> data[offset + 1]]

\* The request account and decodeRedemptionRequest: every field has its place.
RequestData(r) == <<r.holder, r.token_account, r.amount, r.nonce, r.requested_at>>

DecodeRedemptionRequest(data) ==
    [holder |-> data[1], token_account |-> data[2], amount |-> data[3],
     nonce |-> data[4], requested_at |-> data[5]]

\* fetchTreasury of the SDK's client.
FetchTreasury == DecodeTreasury(TreasuryData(treasury))

RefetchTreasury ==
    /\ view' = [status |-> "ok", treasury |-> FetchTreasury]
    /\ view' # view
    /\ UNCHANGED <<vars, wallet, queue, sends>>
    /\ dialog' = Kept(dialog, wallet', view')

\* A failed read replaces the whole page by an error.
RefetchFails ==
    /\ view' = [view EXCEPT !.status = "error"]
    /\ view' # view
    /\ UNCHANGED <<vars, wallet, queue, sends>>
    /\ dialog' = Kept(dialog, wallet', view')

RefetchRedemptions ==
    /\ queue' = {DecodeRedemptionRequest(RequestData(r)) : r \in requests}
    /\ queue' # queue
    /\ UNCHANGED <<vars, wallet, view, dialog, sends>>

\* No row is shown for a failed read; the dialog of a row stays.
RefetchRedemptionsFails ==
    /\ queue # {}
    /\ queue' = {}
    /\ UNCHANGED <<vars, wallet, view, dialog, sends>>

-----------------------------------------------------------------------------
(***************************************************************************)
(* A transaction that was sent, by the adapter that uses the SDK (the mock *)
(* one sends nothing).  Approve and cancel name the request by the address *)
(* the SDK derives from its holder and its nonce.                          *)
(***************************************************************************)
SameAddress(r, q) == r.holder = q.holder /\ r.nonce = q.nonce

\* The request that now lives at the address, if the token account passed
\* with it is the one it names.
AtAddress(r) ==
    {q \in requests : SameAddress(r, q) /\ q.token_account = r.token_account}

\* Each builder names the signer's wallet as the authority and derives every
\* other account of the instruction from the mint.
\* A destination that is no token account of the mint is refused.
BuildMintTokens(t) ==
    /\ t.kind = "mint_tokens" /\ t.arg[1] \in Accounts
    /\ MintTokens(t.signer, t.arg[1], t.arg[2])

BuildApproveRedemption(t) ==
    /\ t.kind = "approve_redemption"
    /\ \E q \in AtAddress(t.arg[1]) : ApproveRedemption(t.signer, q)

BuildCancelRedemption(t) ==
    /\ t.kind = "cancel_redemption"
    /\ \E q \in AtAddress(t.arg[1]) : CancelRedemption(t.signer, q)

BuildFreezeThaw(t) ==
    \/ t.kind = "freeze_account" /\ FreezeAccount(t.signer, t.arg[1])
    \/ t.kind = "thaw_account" /\ ThawAccount(t.signer, t.arg[1])

BuildEmergency(t) ==
    \/ t.kind = "pause" /\ Pause(t.signer)
    \/ t.kind = "unpause" /\ Unpause(t.signer)

BuildAdminTransfer(t) ==
    \/ t.kind = "propose_admin" /\ ProposeAdmin(t.signer, t.arg[1])
    \/ t.kind = "accept_admin" /\ AcceptAdmin(t.signer)
    \/ t.kind = "cancel_pending_admin" /\ CancelPendingAdmin(t.signer)

BuildSettings(t) ==
    \/ t.kind = "set_operator" /\ SetOperator(t.signer, t.arg[1])
    \/ t.kind = "update_mint_cap" /\ UpdateMintCap(t.signer, t.arg[1])

\* The instruction of the transaction, executed.
Execute(t) ==
    \/ BuildMintTokens(t)
    \/ BuildApproveRedemption(t) \/ BuildCancelRedemption(t)
    \/ BuildFreezeThaw(t) \/ BuildEmergency(t)
    \/ BuildAdminTransfer(t) \/ BuildSettings(t)

Land(i) ==
    /\ sends[i].at = "flight"
    /\ Execute(sends[i])
    /\ sends' = [sends EXCEPT ![i] = Over]
    /\ UNCHANGED <<wallet, view, queue, dialog>>

\* The program refuses it, or its blockhash expires.
Drop(i) ==
    /\ sends[i].at = "flight"
    /\ sends' = [sends EXCEPT ![i] = Over]
    /\ UNCHANGED <<vars, wallet, view, queue, dialog>>

-----------------------------------------------------------------------------
ConsoleInit ==
    /\ Init
    /\ wallet = NoKey
    /\ view = [status |-> "loading", treasury |-> treasury]
    /\ queue = {}
    /\ dialog = NoDialog
    /\ sends = <<>>

\* Other people: holders, and the admin from another browser.
Elsewhere ==
    /\ \/ \E k \in Keys, a \in Accounts, n \in Amounts : RequestRedemption(k, a, n)
       \/ \E r \in requests : CancelRedemption(r.holder, r)
       \/ \E k \in Keys : Pause(k) \/ Unpause(k)
       \/ Tick
    /\ UNCHANGED pageVars

PageStep ==
    \/ QueueAcceptAdmin
    \/ \E k \in Keys : QueueSetOperator(k)
    \/ \E k \in Keys \cup {DefaultKey} : QueueProposeAdmin(k)
    \/ QueueCancelPendingAdmin
    \/ \E c \in Caps : QueueMintCap(c)
    \/ \E kind \in {"pause", "unpause"} : QueueEmergency(kind)
    \/ \E kind \in {"freeze_account", "thaw_account"}, a \in Accounts :
          QueueFreezeThaw(kind, a)
    \/ \E d \in Destinations, n \in Amounts : QueueMint(d, n)
    \/ \E kind \in {"approve_redemption", "cancel_redemption"}, r \in queue :
          QueueRedemption(kind, r)
    \/ CloseDialog
    \/ Confirm
    \/ \E k \in Keys \cup {NoKey} : SwitchWallet(k)
    \/ RefetchTreasury
    \/ RefetchFails
    \/ RefetchRedemptions
    \/ RefetchRedemptionsFails

ChainStep ==
    \E i \in DOMAIN sends :
        \/ SendSucceeds(i)
        \/ \E reached \in BOOLEAN : SendFails(i, reached)
        \/ Land(i)
        \/ Drop(i)

ConsoleNext == Elsewhere \/ PageStep \/ ChainStep

ConsoleSpec == ConsoleInit /\ [][ConsoleNext]_consoleVars

-----------------------------------------------------------------------------
ConsoleTypeOK ==
    /\ TypeOK
    /\ wallet \in Keys \cup {NoKey}
    /\ view.status \in {"loading", "error", "ok"} /\ view.treasury \in Treasury
    /\ queue \subseteq RedemptionRequest
    /\ dialog.send \in 0..Len(sends)
    /\ \A i \in DOMAIN sends :
          \/ sends[i] = Over
          \/ sends[i].signer \in Keys /\ sends[i].at \in {"wallet", "flight"}

\* An open dialog belongs to a panel of the role that the connected wallet
\* has under the treasury on the page, whatever account the wallet switches
\* to and whatever a refetch finds; and an approval or a cancellation, in the
\* dialog or on its way, can only ever act on the request that was shown:
\* whatever was closed and requested again in the meantime, no other amount
\* is at that address.
ActsOnWhatWasShown ==
    LET Names(kind) == kind \in {"approve_redemption", "cancel_redemption"}
    IN  /\ dialog.kind = "none" \/ Visible(dialog.kind)
        /\ Names(dialog.kind) =>
              \A q \in requests : SameAddress(dialog.arg[1], q) => q = dialog.arg[1]
        /\ \A i \in DOMAIN sends : Names(sends[i].kind) =>
              \A q \in requests :
                  SameAddress(sends[i].arg[1], q) => q = sends[i].arg[1]

\* With an up-to-date page the program accepts what is offered, for the buttons
\* that accept and cancel an admin transfer, pause and unpause; and it accepts
\* an offered mint exactly when the destination is a token account that is not
\* frozen and the numbers fit.  That the page asks for a wallet instead, whose
\* key the program refuses, is left to the operator to find out.
OfferedIsAccepted ==
    view = [status |-> "ok", treasury |-> treasury] =>
        /\ Visible("accept_admin") => ENABLED AcceptAdmin(wallet)
        /\ OffersTransfer("cancel_pending_admin") => ENABLED CancelPendingAdmin(wallet)
        /\ OffersEmergency("pause") => ENABLED Pause(wallet)
        /\ OffersEmergency("unpause") => ENABLED Unpause(wallet)
        /\ \A d \in Destinations, n \in Amounts :
              OffersMint(d, n) =>
                 ((ENABLED BuildMintTokens([kind |-> "mint_tokens", arg |-> <<d, n>>,
                                            signer |-> wallet]))
                  <=> /\ d \in Accounts /\ ~token[d].frozen
                      /\ treasury.total_minted + n <= MaxU64)

\* What the mint dialog shows and sends: an amount shown by the page and typed
\* again is the same amount, for every number of decimals, from what is
\* minted upwards; one more digit than the mint has is not taken.  It is the
\* same question in every state, asked where the first mint is typed.
AmountsRoundTrip ==
    dialog.kind = "mint_tokens" /\ sends = <<>> =>
    \A d \in 0..MaxDigits : \A n \in view.treasury.total_minted .. 10^d :
        /\ ParseAmountToUnits(FormatAmount(n, d), d) = n
        /\ d > 0 /\ n % 10 # 0 => ParseAmountToUnits(FormatAmount(n, d), d - 1) = -1
=============================================================================

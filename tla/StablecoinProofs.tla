-------------------------- MODULE StablecoinProofs --------------------------
(***************************************************************************)
(* Proofs about Stablecoin, for every set of keys and accounts, every      *)
(* amount and every width of the counters; and about the admin page over   *)
(* it, for any number of transactions on their way.                        *)
(***************************************************************************)
EXTENDS StablecoinConsole, SequenceTheorems, FiniteSetTheorems,
        WellFoundedInduction, TLAPS

-----------------------------------------------------------------------------
(* What the Token-2022 operators return.                                   *)

\* Spending keeps an account an account, its owner and its frozen flag, and
\* takes exactly n out of it.
LEMMA SpentType ==
    ASSUME TypeOK, NEW a \in Accounts, NEW k, NEW n \in U64,
           token[a].amount >= n,
           token[a].delegate = k => token[a].delegated_amount >= n
    PROVE  /\ Spent(k, a, n) \in TokenAccount
           /\ Spent(k, a, n).amount = token[a].amount - n
           /\ Spent(k, a, n).frozen = token[a].frozen
  <1>1. /\ token[a] \in TokenAccount
        /\ token[a].amount - n \in U64
        /\ token[a].delegate = k => token[a].delegated_amount - n \in U64
    BY NumberAssumption DEF TypeOK, TokenAccount, U64
  <1>2. CASE token[a].delegate = k
    BY <1>1, <1>2 DEF Spent, TokenAccount
  <1>3. CASE token[a].delegate # k
    BY <1>1, <1>3 DEF Spent, TokenAccount
  <1>4. QED
    BY <1>2, <1>3

\* Delegating within u64 gives a well-typed token account.
LEMMA DelegatedType ==
    ASSUME NEW acc \in TokenAccount, NEW d \in Keys \cup {EscrowKey, NoKey},
           NEW n \in U64
    PROVE  /\ Delegated(acc, d, n) \in TokenAccount
           /\ Delegated(acc, d, n).owner = acc.owner
           /\ Delegated(acc, d, n).amount = acc.amount
           /\ Delegated(acc, d, n).delegate = d
           /\ Delegated(acc, d, n).delegated_amount = n
  BY DEF Delegated, TokenAccount

\* Revoking a delegation gives a well-typed token account.
LEMMA RevokedType ==
    ASSUME NEW acc \in TokenAccount
    PROVE  /\ Revoked(acc) \in TokenAccount
           /\ Revoked(acc).amount = acc.amount
           /\ Revoked(acc).frozen = acc.frozen
  <1>1. 0 \in U64
    BY NumberAssumption DEF U64
  <1>2. QED
    BY <1>1 DEF Revoked, Delegated, TokenAccount

\* The nonces recorded as released are u64.
LEMMA HeldOnType ==
    ASSUME NEW a, NEW rs \in SUBSET RedemptionRequest
    PROVE  HeldOn(a, rs) \subseteq U64
  BY DEF HeldOn, RedemptionRequest

-----------------------------------------------------------------------------
(* The type invariant.                                                     *)

\* initialize_mint establishes the type invariant.
LEMMA InitTypeOK == Init => TypeOK
  BY KeyAssumption, NumberAssumption
     DEF Init, TypeOK, Treasury, TokenAccount, RedemptionRequest, U64

\* mint_tokens keeps every counter in u64: its checked additions.
LEMMA MintTypeOK ==
    ASSUME TypeOK, NEW k \in Keys, NEW a \in Accounts, NEW n \in Amounts,
           MintTokens(k, a, n)
    PROVE  TypeOK'
  <1>0. n \in U64
    BY NumberAssumption DEF U64
  <1>1. treasury' \in Treasury
    BY <1>0, NumberAssumption DEF MintTokens, TypeOK, Treasury, U64
  <1>2. token' \in [Accounts -> TokenAccount]
    BY <1>0, NumberAssumption DEF MintTokens, TypeOK, TokenAccount, U64
  <1>3. supply' \in U64
    BY <1>0, NumberAssumption DEF MintTokens, TypeOK, U64
  <1>4. QED
    BY <1>1, <1>2, <1>3 DEF MintTokens, TypeOK

\* request_redemption keeps the type invariant.
LEMMA RequestTypeOK ==
    ASSUME TypeOK, NEW k \in Keys, NEW a \in Accounts, NEW n \in Amounts,
           RequestRedemption(k, a, n)
    PROVE  TypeOK'
  <1>0. n \in U64
    BY NumberAssumption DEF U64
  <1>1. treasury' \in Treasury
    BY <1>0, NumberAssumption DEF RequestRedemption, NewRequest, TypeOK, Treasury, U64
  <1>2. token' \in [Accounts -> TokenAccount]
    <2>1. Delegated(token[a], EscrowKey, n) \in TokenAccount
      BY <1>0, DelegatedType DEF TypeOK
    <2>2. [Delegated(token[a], EscrowKey, n) EXCEPT !.frozen = TRUE]
             \in TokenAccount
      BY <2>1 DEF TokenAccount
    <2>3. QED
      BY <2>2 DEF RequestRedemption, NewRequest, TypeOK
  <1>3. requests' \subseteq RedemptionRequest
    BY <1>0 DEF RequestRedemption, NewRequest, TypeOK, RedemptionRequest, Treasury
  <1>4. QED
    BY <1>1, <1>2, <1>3 DEF RequestRedemption, NewRequest, TypeOK

\* approve_redemption keeps the type invariant.
LEMMA ApproveTypeOK ==
    ASSUME TypeOK, NEW k \in Keys, NEW r \in requests, ApproveRedemption(k, r)
    PROVE  TypeOK'
  <1>0. /\ r \in RedemptionRequest
        /\ r.amount \in U64
        /\ r.token_account \in Accounts
    BY DEF TypeOK, RedemptionRequest
  <1>1. treasury' \in Treasury
    BY <1>0, NumberAssumption DEF ApproveRedemption, TypeOK, Treasury, U64
  <1>2. token' \in [Accounts -> TokenAccount]
    <2>1. Spent(EscrowKey, r.token_account, r.amount) \in TokenAccount
      BY <1>0, SpentType DEF ApproveRedemption
    <2>2. [Spent(EscrowKey, r.token_account, r.amount) EXCEPT !.frozen = FALSE]
             \in TokenAccount
      BY <2>1 DEF TokenAccount
    <2>3. QED
      BY <1>0, <2>2 DEF ApproveRedemption, TypeOK
  <1>3. supply' \in U64
    BY <1>0, NumberAssumption DEF ApproveRedemption, TypeOK, U64
  <1>4. released' \subseteq U64
    BY HeldOnType DEF ApproveRedemption, TypeOK
  <1>5. QED
    BY <1>1, <1>2, <1>3, <1>4 DEF ApproveRedemption, TypeOK

\* cancel_redemption keeps the type invariant.
LEMMA CancelTypeOK ==
    ASSUME TypeOK, NEW k \in Keys, NEW r \in requests, CancelRedemption(k, r)
    PROVE  TypeOK'
  <1>0. r.token_account \in Accounts
    BY DEF TypeOK, RedemptionRequest
  <1>1. token' \in [Accounts -> TokenAccount]
    <2>1. Revoked(token[r.token_account]) \in TokenAccount
      BY <1>0, RevokedType DEF TypeOK
    <2>2. [(IF k = r.holder THEN Revoked(token[r.token_account])
                            ELSE token[r.token_account]) EXCEPT !.frozen = FALSE]
             \in TokenAccount
      BY <1>0, <2>1 DEF TypeOK, TokenAccount
    <2>3. QED
      BY <1>0, <2>2 DEF CancelRedemption, TypeOK
  <1>2. released' \subseteq U64
    BY HeldOnType DEF CancelRedemption, TypeOK
  <1>3. QED
    BY <1>1, <1>2 DEF CancelRedemption, TypeOK

\* The instructions of the admin keep the type invariant.
LEMMA AdminTypeOK ==
    ASSUME TypeOK, AdminStep
    PROVE  TypeOK'
  <1>1. ASSUME NEW k \in Keys, NEW a \in Accounts, FreezeAccount(k, a)
        PROVE  TypeOK'
    BY <1>1 DEF FreezeAccount, TypeOK, TokenAccount
  <1>2. ASSUME NEW k \in Keys, NEW a \in Accounts, ThawAccount(k, a)
        PROVE  TypeOK'
    BY <1>2, HeldOnType DEF ThawAccount, TypeOK, TokenAccount
  <1>3. ASSUME NEW k \in Keys, Pause(k) \/ Unpause(k)
        PROVE  TypeOK'
    BY <1>3 DEF Pause, Unpause, TypeOK, Treasury
  <1>4. ASSUME NEW k \in Keys, NEW new \in Keys \cup {DefaultKey},
               ProposeAdmin(k, new)
        PROVE  TypeOK'
    BY <1>4 DEF ProposeAdmin, TypeOK, Treasury
  <1>5. ASSUME NEW k \in Keys, AcceptAdmin(k) \/ CancelPendingAdmin(k)
        PROVE  TypeOK'
    BY <1>5 DEF AcceptAdmin, CancelPendingAdmin, TypeOK, Treasury
  <1>6. ASSUME NEW k \in Keys, NEW new \in Keys \cup {DefaultKey},
               SetOperator(k, new)
        PROVE  TypeOK'
    BY <1>6 DEF SetOperator, TypeOK, Treasury
  <1>7. ASSUME NEW k \in Keys, NEW c \in Caps, UpdateMintCap(k, c)
        PROVE  TypeOK'
    BY <1>7, NumberAssumption DEF UpdateMintCap, TypeOK, Treasury, U64
  <1>8. QED
    BY <1>1, <1>2, <1>3, <1>4, <1>5, <1>6, <1>7 DEF AdminStep

\* What holders do with Token-2022 directly keeps the type invariant.
LEMMA HolderTypeOK ==
    ASSUME TypeOK, HolderStep
    PROVE  TypeOK'
  <1>0. Amounts \subseteq U64
    BY NumberAssumption DEF U64
  <1>1. ASSUME NEW k \in Keys, NEW a \in Accounts, NEW b \in Accounts,
               NEW n \in Amounts, Transfer(k, a, b, n)
        PROVE  TypeOK'
    <2>1. Spent(k, a, n) \in TokenAccount
      BY <1>0, <1>1, SpentType DEF Transfer, CanSpend
    <2>2. [token[b] EXCEPT !.amount = @ + n] \in TokenAccount
      BY <1>0, <1>1, NumberAssumption DEF Transfer, TypeOK, TokenAccount, U64
    <2>3. token' \in [Accounts -> TokenAccount]
      BY <1>1, <2>1, <2>2 DEF Transfer, TypeOK
    <2>4. QED
      BY <1>1, <2>3 DEF Transfer, TypeOK
  <1>2. ASSUME NEW k \in Keys, NEW a \in Accounts, NEW n \in Amounts,
               Burn(k, a, n)
        PROVE  TypeOK'
    <2>1. Spent(k, a, n) \in TokenAccount
      BY <1>0, <1>2, SpentType DEF Burn, CanSpend
    <2>2. token' \in [Accounts -> TokenAccount]
      BY <1>2, <2>1 DEF Burn, TypeOK
    <2>3. supply' \in U64 /\ selfBurned' \in Nat
      BY <1>0, <1>2, NumberAssumption DEF Burn, TypeOK, U64
    <2>4. QED
      BY <1>2, <2>2, <2>3 DEF Burn, TypeOK
  <1>3. ASSUME NEW a \in Accounts, NEW d \in Spenders, NEW n \in Amounts,
               Approve(a, d, n)
        PROVE  TypeOK'
    <2>1. Delegated(token[a], d, n) \in TokenAccount
      BY <1>0, KeyAssumption, DelegatedType DEF TypeOK
    <2>2. QED
      BY <1>3, <2>1 DEF Approve, TypeOK
  <1>4. ASSUME NEW a \in Accounts, Revoke(a)
        PROVE  TypeOK'
    BY <1>4, RevokedType DEF Revoke, TypeOK
  <1>5. ASSUME NEW a \in Accounts, NEW k \in Keys, SetAccountOwner(a, k)
        PROVE  TypeOK'
    <2>1. Revoked(token[a]) \in TokenAccount
      BY RevokedType DEF TypeOK
    <2>2. [Revoked(token[a]) EXCEPT !.owner = k] \in TokenAccount
      BY <2>1 DEF TokenAccount
    <2>3. QED
      BY <1>5, <2>2 DEF SetAccountOwner, TypeOK
  <1>6. QED
    BY <1>1, <1>2, <1>3, <1>4, <1>5 DEF HolderStep

\* Every step keeps the type invariant.
LEMMA StepTypeOK == TypeOK /\ [Next]_vars => TypeOK'
  <1> SUFFICES ASSUME TypeOK, [Next]_vars
               PROVE  TypeOK'
    OBVIOUS
  <1>1. ASSUME NEW k \in Keys, NEW a \in Accounts, NEW n \in Amounts,
               MintTokens(k, a, n)
        PROVE  TypeOK'
    BY <1>1, MintTypeOK
  <1>2. CASE RedemptionStep
    BY <1>2, RequestTypeOK, ApproveTypeOK, CancelTypeOK DEF RedemptionStep
  <1>3. CASE AdminStep
    BY <1>3, AdminTypeOK
  <1>4. CASE HolderStep
    BY <1>4, HolderTypeOK
  <1>5. CASE Tick
    BY <1>5 DEF Tick, TypeOK
  <1>6. CASE UNCHANGED vars
    BY <1>6 DEF vars, TypeOK
  <1>7. QED
    BY <1>1, <1>2, <1>3, <1>4, <1>5, <1>6 DEF Next

\* No instruction, in any order and with any arguments, takes a counter or a
\* balance of the treasury out of u64 or an account out of its layout.
THEOREM TypeCorrect == Spec => []TypeOK
  <1>1. QED
    BY InitTypeOK, StepTypeOK, PTL DEF Spec
-----------------------------------------------------------------------------
(* The counters and the supply.                                            *)

\* Every step keeps the counters and the supply in balance.
LEMMA StepSupplyAccounted ==
    TypeOK /\ SupplyAccounted /\ [Next]_vars => SupplyAccounted'
  <1> SUFFICES ASSUME TypeOK, SupplyAccounted, [Next]_vars
               PROVE  SupplyAccounted'
    OBVIOUS
  <1>0. /\ treasury.total_minted \in Nat /\ treasury.total_burned \in Nat
        /\ supply \in Nat /\ selfBurned \in Nat /\ Amounts \subseteq Nat
        /\ \A r \in requests : r.amount \in Nat
        /\ treasury \in Treasury
    BY NumberAssumption DEF TypeOK, Treasury, RedemptionRequest, U64
  <1>1. ASSUME NEW k \in Keys, NEW a \in Accounts, NEW n \in Amounts,
               MintTokens(k, a, n)
        PROVE  SupplyAccounted'
    BY <1>0, <1>1 DEF MintTokens, SupplyAccounted, Treasury
  <1>2. CASE RedemptionStep
    <2>1. ASSUME NEW k \in Keys, NEW a \in Accounts, NEW n \in Amounts,
                 RequestRedemption(k, a, n)
          PROVE  SupplyAccounted'
      BY <1>0, <2>1 DEF RequestRedemption, NewRequest, SupplyAccounted, Treasury
    <2>2. ASSUME NEW k \in Keys, NEW r \in requests, ApproveRedemption(k, r)
          PROVE  SupplyAccounted'
      BY <1>0, <2>2 DEF ApproveRedemption, SupplyAccounted, Treasury
    <2>3. ASSUME NEW k \in Keys, NEW r \in requests, CancelRedemption(k, r)
          PROVE  SupplyAccounted'
      BY <2>3 DEF CancelRedemption, SupplyAccounted
    <2>4. QED
      BY <1>2, <2>1, <2>2, <2>3 DEF RedemptionStep
  <1>3. CASE AdminStep
    BY <1>0, <1>3 DEF AdminStep, FreezeAccount, ThawAccount, Pause, Unpause,
          ProposeAdmin, AcceptAdmin, CancelPendingAdmin, SetOperator,
          UpdateMintCap, SupplyAccounted, Treasury
  <1>4. CASE HolderStep
    <2>1. ASSUME NEW k \in Keys, NEW a \in Accounts, NEW n \in Amounts,
                 Burn(k, a, n)
          PROVE  SupplyAccounted'
      BY <1>0, <2>1 DEF Burn, SupplyAccounted
    <2>2. QED
      BY <1>4, <2>1 DEF HolderStep, Transfer, Approve, Revoke,
            SetAccountOwner, SupplyAccounted
  <1>5. CASE Tick
    BY <1>5 DEF Tick, SupplyAccounted
  <1>6. CASE UNCHANGED vars
    BY <1>6 DEF vars, SupplyAccounted
  <1>7. QED
    BY <1>1, <1>2, <1>3, <1>4, <1>5, <1>6 DEF Next

\* The treasury's counters account for the supply of the mint in every
\* reachable state, whatever holders burn on their own.
THEOREM SupplyCorrect == Spec => []SupplyAccounted
  <1>1. Init => SupplyAccounted
    BY DEF Init, SupplyAccounted
  <1>2. QED
    BY <1>1, StepSupplyAccounted, TypeCorrect, PTL DEF Spec

-----------------------------------------------------------------------------
(* The holds of open redemptions.                                          *)

\* A step that leaves alone every account on which an unreleased request is
\* open, and opens none, leaves the holds intact.
LEMMA UntouchedHolds ==
    ASSUME TypeOK, HoldIntact, requests' \subseteq requests,
           released \subseteq released',
           \A r \in requests' : r.nonce \notin released' /\ Escrowed(r)
               => token'[r.token_account] = token[r.token_account]
    PROVE  HoldIntact'
  BY DEF HoldIntact, Escrowed

\* Thawing a for the sake of closing the requests in rs, or none.
LEMMA ThawReleases ==
    ASSUME TypeOK, HoldIntact, NEW a \in Accounts, NEW rs \in SUBSET requests,
           requests' = requests \ rs,
           released' = released \cup HeldOn(a, requests \ rs),
           \A b \in Accounts \ {a} : token'[b] = token[b]
    PROVE  HoldIntact'
  <1>1. \A r \in requests' : r.nonce \notin released' => r.token_account # a
    BY DEF HeldOn
  <1>2. \A r \in requests' : r.token_account \in Accounts
    BY DEF TypeOK, RedemptionRequest
  <1>3. QED
    BY <1>1, <1>2, UntouchedHolds

\* Steps that change only accounts which are not frozen touch no hold.
LEMMA UnfrozenOnly ==
    ASSUME TypeOK, HoldIntact, UNCHANGED <<requests, released>>,
           \A a \in Accounts : token[a].frozen => token'[a] = token[a]
    PROVE  HoldIntact'
  <1>1. \A r \in requests : r.token_account \in Accounts
    BY DEF TypeOK, RedemptionRequest
  <1>2. \A r \in requests' : r.nonce \notin released' /\ Escrowed(r)
               => token'[r.token_account] = token[r.token_account]
    BY <1>1 DEF Escrowed
  <1>3. QED
    BY <1>2, UntouchedHolds

\* request_redemption sets its amount aside and disturbs no other hold.
LEMMA RequestHolds ==
    ASSUME TypeOK, HoldIntact, NEW k \in Keys, NEW a \in Accounts,
           NEW n \in Amounts, RequestRedemption(k, a, n)
    PROVE  HoldIntact'
  <1>0. n \in U64 /\ token[a] \in TokenAccount
    BY NumberAssumption DEF TypeOK, U64
  <1>1. /\ token'[a].frozen
        /\ token'[a].owner = k
        /\ token'[a].delegate = EscrowKey
        /\ token'[a].delegated_amount = n
        /\ token'[a].amount >= n
    <2>1. token'[a] = [Delegated(token[a], EscrowKey, n) EXCEPT !.frozen = TRUE]
      BY DEF RequestRedemption, NewRequest, TypeOK
    <2>2. Delegated(token[a], EscrowKey, n) \in TokenAccount
      BY <1>0, DelegatedType
    <2>3. QED
      BY <1>0, <2>1, <2>2, DelegatedType DEF RequestRedemption, NewRequest, TokenAccount
  <1>2. ASSUME NEW r \in requests, r.nonce \notin released
        PROVE  Escrowed(r)'
    <2>1. r.token_account \in Accounts /\ Escrowed(r)
      BY <1>2 DEF HoldIntact, TypeOK, RedemptionRequest
    <2>2. token'[r.token_account] = token[r.token_account]
      BY <2>1 DEF RequestRedemption, NewRequest, Escrowed, TypeOK
    <2>3. QED
      BY <2>1, <2>2 DEF Escrowed
  <1>3. ASSUME NEW r \in requests', r \notin requests
        PROVE  Escrowed(r)'
    BY <1>1, <1>3 DEF RequestRedemption, NewRequest, Escrowed
  <1>4. QED
    BY <1>2, <1>3 DEF HoldIntact, RequestRedemption

\* Every step keeps the holds of the open requests.
LEMMA StepHoldIntact == TypeOK /\ HoldIntact /\ [Next]_vars => HoldIntact'
  <1> SUFFICES ASSUME TypeOK, HoldIntact, [Next]_vars
               PROVE  HoldIntact'
    OBVIOUS
  <1>0. \A r \in requests : r.token_account \in Accounts
    BY DEF TypeOK, RedemptionRequest
  <1>1. ASSUME NEW k \in Keys, NEW a \in Accounts, NEW n \in Amounts,
               MintTokens(k, a, n)
        PROVE  HoldIntact'
    BY <1>1, UnfrozenOnly DEF MintTokens, TypeOK
  <1>2. CASE RedemptionStep
    <2>1. ASSUME NEW k \in Keys, NEW r \in requests, ApproveRedemption(k, r)
          PROVE  HoldIntact'
      <3>1. \A b \in Accounts \ {r.token_account} : token'[b] = token[b]
        BY <2>1 DEF ApproveRedemption, TypeOK
      <3>2. QED
        BY <1>0, <2>1, <3>1, ThawReleases DEF ApproveRedemption
    <2>2. ASSUME NEW k \in Keys, NEW r \in requests, CancelRedemption(k, r)
          PROVE  HoldIntact'
      <3>1. \A b \in Accounts \ {r.token_account} : token'[b] = token[b]
        BY <2>2 DEF CancelRedemption, TypeOK
      <3>2. QED
        BY <1>0, <2>2, <3>1, ThawReleases DEF CancelRedemption
    <2>3. QED
      BY <1>2, <2>1, <2>2, RequestHolds DEF RedemptionStep
  <1>3. CASE AdminStep
    <2>1. ASSUME NEW k \in Keys, NEW a \in Accounts, FreezeAccount(k, a)
          PROVE  HoldIntact'
      BY <2>1, UnfrozenOnly DEF FreezeAccount, TypeOK
    <2>2. ASSUME NEW k \in Keys, NEW a \in Accounts, ThawAccount(k, a)
          PROVE  HoldIntact'
      <3>1. \A b \in Accounts \ {a} : token'[b] = token[b]
        BY <2>2 DEF ThawAccount, TypeOK
      <3>2. /\ requests' = requests \ {}
            /\ released' = released \cup HeldOn(a, requests \ {})
        BY <2>2 DEF ThawAccount
      <3>3. QED
        BY <3>1, <3>2, ThawReleases
    <2>3. ASSUME UNCHANGED <<token, requests, released>>
          PROVE  HoldIntact'
      BY <2>3, UnfrozenOnly
    <2>4. QED
      BY <1>3, <2>1, <2>2, <2>3 DEF AdminStep, Pause, Unpause, ProposeAdmin,
            AcceptAdmin, CancelPendingAdmin, SetOperator, UpdateMintCap
  <1>4. CASE HolderStep
    <2>1. \A a \in Accounts : token[a].frozen => token'[a] = token[a]
      BY <1>4 DEF HolderStep, Transfer, Burn, Approve, Revoke,
            SetAccountOwner, CanSpend, TypeOK
    <2>2. UNCHANGED <<requests, released>>
      BY <1>4 DEF HolderStep, Transfer, Burn, Approve, Revoke, SetAccountOwner
    <2>3. QED
      BY <2>1, <2>2, UnfrozenOnly
  <1>5. CASE Tick
    BY <1>5, UnfrozenOnly DEF Tick
  <1>6. CASE UNCHANGED vars
    BY <1>6, UnfrozenOnly DEF vars
  <1>7. QED
    BY <1>1, <1>2, <1>3, <1>4, <1>5, <1>6 DEF Next

\* While nobody thaws its account, an open redemption keeps exactly its
\* amount delegated to the escrow authority, in a frozen account that still
\* belongs to the holder and still has the tokens.
THEOREM HoldCorrect == Spec => []HoldIntact
  <1>1. Init => HoldIntact
    BY DEF Init, HoldIntact
  <1>2. QED
    BY <1>1, StepHoldIntact, TypeCorrect, PTL DEF Spec
-----------------------------------------------------------------------------
(* Nonces, and the requests that share an account.                         *)

\* How a step may change the set of requests: open one under the current
\* nonce on an account that is not frozen, or close some.
LEMMA StepRequests ==
    ASSUME TypeOK, [Next]_vars
    PROVE  /\ released \subseteq released'
           /\ \/ /\ requests' \subseteq requests
                 /\ treasury'.redemption_nonce = treasury.redemption_nonce
              \/ \E r \in RedemptionRequest :
                    /\ ~token[r.token_account].frozen
                    /\ r.nonce = treasury.redemption_nonce
                    /\ r.amount \in 1 .. MaxU64
                    /\ requests' = requests \cup {r}
                    /\ treasury' = [treasury EXCEPT !.redemption_nonce = @ + 1]
                    /\ treasury.redemption_nonce < MaxU64
  <1>0. treasury \in Treasury
    BY DEF TypeOK
  <1>1. ASSUME NEW k \in Keys, NEW a \in Accounts, NEW n \in Amounts,
               RequestRedemption(k, a, n)
        PROVE  \E r \in RedemptionRequest :
                    /\ ~token[r.token_account].frozen
                    /\ r.nonce = treasury.redemption_nonce
                    /\ r.amount \in 1 .. MaxU64
                    /\ requests' = requests \cup {r}
                    /\ treasury' = [treasury EXCEPT !.redemption_nonce = @ + 1]
                    /\ treasury.redemption_nonce < MaxU64
    <2> DEFINE r == [holder |-> k, token_account |-> a, amount |-> n,
                     nonce |-> treasury.redemption_nonce, requested_at |-> now]
    <2>1. r \in RedemptionRequest
      BY <1>0, NumberAssumption DEF TypeOK, RedemptionRequest, Treasury, U64
    <2>2. n \in 1 .. MaxU64 /\ treasury.redemption_nonce < MaxU64
      BY <1>0, <1>1, NumberAssumption DEF RequestRedemption, NewRequest, Treasury, U64
    <2>3. WITNESS r \in RedemptionRequest
    <2>4. QED
      BY <1>1, <2>2 DEF RequestRedemption, NewRequest
  <1>2. ASSUME NEW k \in Keys, NEW r \in requests,
               ApproveRedemption(k, r) \/ CancelRedemption(k, r)
        PROVE  /\ released \subseteq released'
               /\ requests' \subseteq requests
               /\ treasury'.redemption_nonce = treasury.redemption_nonce
    BY <1>0, <1>2 DEF ApproveRedemption, CancelRedemption, Treasury
  <1>3. ASSUME NEW k \in Keys, NEW a \in Accounts, NEW n \in Amounts,
               MintTokens(k, a, n)
        PROVE  /\ released \subseteq released'
               /\ requests' \subseteq requests
               /\ treasury'.redemption_nonce = treasury.redemption_nonce
    BY <1>0, <1>3 DEF MintTokens, Treasury
  <1>4. ASSUME AdminStep
        PROVE  /\ released \subseteq released'
               /\ requests' \subseteq requests
               /\ treasury'.redemption_nonce = treasury.redemption_nonce
    BY <1>0, <1>4 DEF AdminStep, FreezeAccount, ThawAccount, Pause, Unpause,
          ProposeAdmin, AcceptAdmin, CancelPendingAdmin, SetOperator,
          UpdateMintCap, Treasury
  <1>5. ASSUME HolderStep \/ Tick \/ UNCHANGED vars
        PROVE  /\ released \subseteq released'
               /\ requests' \subseteq requests
               /\ treasury'.redemption_nonce = treasury.redemption_nonce
    BY <1>5 DEF HolderStep, Transfer, Burn, Approve, Revoke, SetAccountOwner,
          Tick, vars
  <1>6. CASE RedemptionStep
    <2>1. CASE \E k \in Keys, a \in Accounts, n \in Amounts :
                  RequestRedemption(k, a, n)
      BY <1>1, <2>1 DEF RequestRedemption
    <2>2. QED
      BY <1>2, <1>6, <2>1 DEF RedemptionStep
  <1>7. QED
    BY <1>3, <1>4, <1>5, <1>6 DEF Next

\* Every step keeps nonces unique.
LEMMA StepNonces == TypeOK /\ NoncesIssuedOnce /\ [Next]_vars => NoncesIssuedOnce'
  <1> SUFFICES ASSUME TypeOK, NoncesIssuedOnce, [Next]_vars
               PROVE  NoncesIssuedOnce'
    OBVIOUS
  <1>0. /\ treasury \in Treasury
        /\ treasury.redemption_nonce \in Nat
        /\ \A r \in requests : r.nonce \in Nat
    BY NumberAssumption DEF TypeOK, Treasury, RedemptionRequest, U64
  <1>1. CASE /\ requests' \subseteq requests
             /\ treasury'.redemption_nonce = treasury.redemption_nonce
    BY <1>1 DEF NoncesIssuedOnce
  <1>2. ASSUME NEW r \in RedemptionRequest,
               r.nonce = treasury.redemption_nonce,
               requests' = requests \cup {r},
               treasury' = [treasury EXCEPT !.redemption_nonce = @ + 1]
        PROVE  NoncesIssuedOnce'
    <2>1. treasury'.redemption_nonce = treasury.redemption_nonce + 1
      BY <1>0, <1>2 DEF Treasury
    <2>2. QED
      BY <1>0, <1>2, <2>1 DEF NoncesIssuedOnce
  <1>3. QED
    BY <1>1, <1>2, StepRequests

\* No two open requests ever carry the same nonce.
THEOREM NoncesCorrect == Spec => []NoncesIssuedOnce
  <1>1. Init => NoncesIssuedOnce
    BY DEF Init, NoncesIssuedOnce
  <1>2. QED
    BY <1>1, StepNonces, TypeCorrect, PTL DEF Spec

\* Every step keeps holds on different accounts.
LEMMA StepOneHold ==
    TypeOK /\ HoldIntact /\ OneHoldPerAccount /\ [Next]_vars
        => OneHoldPerAccount'
  <1> SUFFICES ASSUME TypeOK, HoldIntact, OneHoldPerAccount, [Next]_vars
               PROVE  OneHoldPerAccount'
    OBVIOUS
  <1>1. \A r \in requests : r.nonce \notin released
                               => token[r.token_account].frozen
    BY DEF HoldIntact, Escrowed
  <1>2. CASE requests' \subseteq requests
    BY <1>2, StepRequests DEF OneHoldPerAccount
  <1>3. ASSUME NEW r, ~token[r.token_account].frozen,
               requests' = requests \cup {r}
        PROVE  OneHoldPerAccount'
    BY <1>1, <1>3, StepRequests DEF OneHoldPerAccount
  <1>4. QED
    BY <1>2, <1>3, StepRequests

\* Two intact holds are on two accounts: a new request is refused on an
\* account that is frozen, and a hold that is intact keeps it frozen.
THEOREM OneHoldCorrect == Spec => []OneHoldPerAccount
  <1>1. Init => OneHoldPerAccount
    BY DEF Init, OneHoldPerAccount
  <1>2. QED
    BY <1>1, StepOneHold, HoldCorrect, TypeCorrect, PTL DEF Spec

-----------------------------------------------------------------------------
(* The admin handover.                                                     *)

\* Every step keeps the pending admin different from the admin.
LEMMA StepPendingAdmin ==
    TypeOK /\ PendingAdminIsNew /\ [Next]_vars => PendingAdminIsNew'
  <1> SUFFICES ASSUME TypeOK, PendingAdminIsNew, [Next]_vars
               PROVE  PendingAdminIsNew'
    OBVIOUS
  <1>0. treasury \in Treasury
    BY DEF TypeOK
  <1>1. CASE AdminStep
    BY <1>0, <1>1, KeyAssumption DEF AdminStep, FreezeAccount, ThawAccount,
          Pause, Unpause, ProposeAdmin, AcceptAdmin, CancelPendingAdmin,
          SetOperator, UpdateMintCap, Treasury, PendingAdminIsNew
  <1>2. CASE RedemptionStep
    BY <1>0, <1>2 DEF RedemptionStep, RequestRedemption, NewRequest, ApproveRedemption,
          CancelRedemption, Treasury, PendingAdminIsNew
  <1>3. CASE \E k \in Keys, a \in Accounts, n \in Amounts : MintTokens(k, a, n)
    BY <1>0, <1>3 DEF MintTokens, Treasury, PendingAdminIsNew
  <1>4. CASE HolderStep \/ Tick \/ UNCHANGED vars
    BY <1>4 DEF HolderStep, Transfer, Burn, Approve, Revoke, SetAccountOwner,
          Tick, vars, PendingAdminIsNew
  <1>5. QED
    BY <1>1, <1>2, <1>3, <1>4 DEF Next

\* The admin and the proposed admin are never the same key.
THEOREM PendingAdminCorrect == Spec => []PendingAdminIsNew
  <1>1. Init => PendingAdminIsNew
    BY KeyAssumption DEF Init, PendingAdminIsNew
  <1>2. QED
    BY <1>1, StepPendingAdmin, TypeCorrect, PTL DEF Spec
-----------------------------------------------------------------------------
(* What a step may never do.                                               *)

\* The two steps that close a request burn its amount or nothing.
LEMMA ClosingStep ==
    ASSUME TypeOK, NEW r \in requests, NEW k \in Keys,
           ApproveRedemption(k, r) \/ CancelRedemption(k, r)
    PROVE  /\ requests' = requests \ {r}
           /\ ~token'[r.token_account].frozen
           /\ \/ /\ token'[r.token_account].amount = token[r.token_account].amount
                 /\ treasury'.total_burned = treasury.total_burned
                 /\ supply' = supply
              \/ /\ token'[r.token_account].amount
                       = token[r.token_account].amount - r.amount
                 /\ treasury'.total_burned = treasury.total_burned + r.amount
                 /\ supply' = supply - r.amount
  <1> DEFINE a == r.token_account
  <1>0. /\ a \in Accounts /\ token[a] \in TokenAccount
        /\ r.amount \in U64 /\ treasury \in Treasury
    BY DEF TypeOK, RedemptionRequest
  <1>1. CASE ApproveRedemption(k, r)
    <2>1. /\ Spent(EscrowKey, a, r.amount) \in TokenAccount
          /\ Spent(EscrowKey, a, r.amount).amount = token[a].amount - r.amount
      BY <1>0, <1>1, SpentType DEF ApproveRedemption
    <2>2. token'[a] = [Spent(EscrowKey, a, r.amount) EXCEPT !.frozen = FALSE]
      BY <1>0, <1>1 DEF ApproveRedemption, TypeOK
    <2>3. /\ ~token'[a].frozen
          /\ token'[a].amount = token[a].amount - r.amount
      BY <2>1, <2>2 DEF TokenAccount
    <2>4. treasury'.total_burned = treasury.total_burned + r.amount
      BY <1>0, <1>1 DEF ApproveRedemption, Treasury
    <2>5. QED
      BY <1>1, <2>3, <2>4 DEF ApproveRedemption
  <1>2. CASE CancelRedemption(k, r)
    <2>1. /\ Revoked(token[a]) \in TokenAccount
          /\ Revoked(token[a]).amount = token[a].amount
      BY <1>0, RevokedType
    <2>2. token'[a] = [(IF k = r.holder THEN Revoked(token[a]) ELSE token[a])
                          EXCEPT !.frozen = FALSE]
      BY <1>0, <1>2 DEF CancelRedemption, TypeOK
    <2>3. ~token'[a].frozen /\ token'[a].amount = token[a].amount
      BY <1>0, <2>1, <2>2 DEF TokenAccount
    <2>4. QED
      BY <1>2, <2>3 DEF CancelRedemption
  <1>3. QED
    BY <1>1, <1>2

\* Every other step keeps the requests that exist.
LEMMA OtherStepsKeepRequests ==
    ASSUME [Next]_vars,
           ~ \E k \in Keys, r \in requests :
                ApproveRedemption(k, r) \/ CancelRedemption(k, r)
    PROVE  requests \subseteq requests'
  <1>1. CASE AdminStep
    BY <1>1 DEF AdminStep, FreezeAccount, ThawAccount, Pause, Unpause,
          ProposeAdmin, AcceptAdmin, CancelPendingAdmin, SetOperator,
          UpdateMintCap
  <1>2. CASE HolderStep \/ Tick \/ UNCHANGED vars
    BY <1>2 DEF HolderStep, Transfer, Burn, Approve, Revoke, SetAccountOwner,
          Tick, vars
  <1>3. QED
    BY <1>1, <1>2 DEF Next, RedemptionStep, RequestRedemption, NewRequest, MintTokens

\* A request is closed by burning its exact amount, once, or by giving the
\* account back with all its tokens.
THEOREM ClosingCorrect == Spec => ClosedByBurnOrReturn
  <1>1. ASSUME TypeOK, [Next]_vars, NEW r \in requests, r \notin requests'
        PROVE  /\ ~token'[r.token_account].frozen
               /\ \/ /\ token'[r.token_account].amount
                           = token[r.token_account].amount
                     /\ treasury'.total_burned = treasury.total_burned
                     /\ supply' = supply
                  \/ /\ token'[r.token_account].amount
                           = token[r.token_account].amount - r.amount
                     /\ treasury'.total_burned = treasury.total_burned + r.amount
                     /\ supply' = supply - r.amount
    <2>1. PICK k \in Keys, q \in requests :
                ApproveRedemption(k, q) \/ CancelRedemption(k, q)
      BY <1>1, OtherStepsKeepRequests
    <2>2. q = r
      BY <1>1, <2>1, ClosingStep
    <2>3. QED
      BY <1>1, <2>1, <2>2, ClosingStep
  <1>2. TypeOK /\ [Next]_vars =>
          [\A r \in requests \ requests' :
              LET acc == token[r.token_account]
                  acc2 == token'[r.token_account]
              IN  /\ ~acc2.frozen
                  /\ \/ /\ acc2.amount = acc.amount
                        /\ treasury'.total_burned = treasury.total_burned
                        /\ supply' = supply
                     \/ /\ acc2.amount = acc.amount - r.amount
                        /\ treasury'.total_burned = treasury.total_burned + r.amount
                        /\ supply' = supply - r.amount]_vars
    BY <1>1
  <1>3. QED
    BY <1>2, TypeCorrect, PTL DEF Spec, ClosedByBurnOrReturn

-----------------------------------------------------------------------------
(* The program implements the redemption ledger.                           *)

\* The initial state is an initial state of the ledger.
LEMMA InitLedger == Init => Ledger!LedgerInit
  BY DEF Init, Ledger!LedgerInit

\* Every step is a step of the ledger or leaves it alone.
LEMMA StepLedger ==
    ASSUME TypeOK, NoncesIssuedOnce, SupplyAccounted, [Next]_vars
    PROVE  [Ledger!LedgerNext]_(Ledger!ledgerVars)
  <1> DEFINE entry(r) == [nonce |-> r.nonce, amount |-> r.amount]
  <1> DEFINE entries == {entry(r) : r \in requests}
  <1>0. /\ treasury \in Treasury
        /\ treasury.total_minted \in U64 /\ treasury.total_burned \in U64
        /\ treasury.redemption_nonce \in U64
        /\ supply \in Nat /\ selfBurned \in Nat /\ MaxU64 \in Nat
        /\ \A r \in requests : r.amount \in U64
    BY NumberAssumption DEF TypeOK, Treasury, RedemptionRequest, U64
  <1>1. ASSUME NEW r \in requests, requests' = requests \ {r}
        PROVE  /\ entry(r) \in entries
               /\ {entry(q) : q \in requests'} = entries \ {entry(r)}
    BY <1>1 DEF NoncesIssuedOnce
  <1>2. ASSUME NEW k \in Keys, NEW a \in Accounts, NEW n \in Amounts,
               MintTokens(k, a, n)
        PROVE  Ledger!Mint
    <2>1. /\ n \in 1 .. MaxU64
          /\ treasury.total_minted + n <= MaxU64
          /\ treasury'.total_minted = treasury.total_minted + n
          /\ treasury'.total_burned = treasury.total_burned
          /\ treasury'.redemption_nonce = treasury.redemption_nonce
          /\ requests' = requests
      BY <1>0, <1>2, NumberAssumption DEF MintTokens, Treasury, U64
    <2>2. QED
      BY <2>1 DEF Ledger!Mint
  <1>3. ASSUME NEW r \in RedemptionRequest,
               r.nonce = treasury.redemption_nonce,
               r.amount \in 1 .. MaxU64,
               requests' = requests \cup {r},
               treasury' = [treasury EXCEPT !.redemption_nonce = @ + 1],
               treasury.redemption_nonce < MaxU64
        PROVE  Ledger!Request
    <2>1. /\ treasury'.redemption_nonce = treasury.redemption_nonce + 1
          /\ treasury'.total_minted = treasury.total_minted
          /\ treasury'.total_burned = treasury.total_burned
      BY <1>0, <1>3 DEF Treasury
    <2>2. {entry(q) : q \in requests'} = entries \cup {entry(r)}
      BY <1>3
    <2>3. QED
      BY <1>3, <2>1, <2>2 DEF Ledger!Request
  <1>4. ASSUME NEW k \in Keys, NEW r \in requests, ApproveRedemption(k, r)
        PROVE  Ledger!Redeem
    <2>1. /\ requests' = requests \ {r}
          /\ treasury'.total_burned = treasury.total_burned + r.amount
          /\ treasury'.total_minted = treasury.total_minted
          /\ treasury'.redemption_nonce = treasury.redemption_nonce
          /\ supply >= r.amount
      BY <1>0, <1>4 DEF ApproveRedemption, Treasury
    <2>2. treasury.total_burned + r.amount <= treasury.total_minted
      BY <1>0, <2>1 DEF SupplyAccounted, U64
    <2>3. QED
      BY <1>1, <2>1, <2>2 DEF Ledger!Redeem
  <1>5. ASSUME NEW k \in Keys, NEW r \in requests, CancelRedemption(k, r)
        PROVE  Ledger!Withdraw
    <2>1. requests' = requests \ {r} /\ treasury' = treasury
      BY <1>5 DEF CancelRedemption
    <2>2. QED
      BY <1>1, <2>1 DEF Ledger!Withdraw
  <1>6. CASE RedemptionStep
    <2>1. ASSUME NEW k \in Keys, NEW a \in Accounts, NEW n \in Amounts,
                 RequestRedemption(k, a, n)
          PROVE  Ledger!Request
      <3> DEFINE r == [holder |-> k, token_account |-> a, amount |-> n,
                       nonce |-> treasury.redemption_nonce,
                       requested_at |-> now]
      <3>1. /\ r \in RedemptionRequest
            /\ r.nonce = treasury.redemption_nonce
            /\ r.amount \in 1 .. MaxU64
            /\ treasury.redemption_nonce < MaxU64
        BY <1>0, <2>1, NumberAssumption
           DEF RequestRedemption, NewRequest, TypeOK, RedemptionRequest, U64
      <3>2. /\ requests' = requests \cup {r}
            /\ treasury' = [treasury EXCEPT !.redemption_nonce = @ + 1]
        BY <2>1 DEF RequestRedemption, NewRequest
      <3>3. QED
        BY <1>3, <3>1, <3>2
    <2>2. QED
      BY <1>4, <1>5, <1>6, <2>1 DEF RedemptionStep, Ledger!LedgerNext
  <1>7. CASE AdminStep \/ HolderStep \/ Tick \/ UNCHANGED vars
    <2>1. /\ requests' = requests
          /\ treasury'.total_minted = treasury.total_minted
          /\ treasury'.total_burned = treasury.total_burned
          /\ treasury'.redemption_nonce = treasury.redemption_nonce
      <3>1. CASE AdminStep
        BY <1>0, <3>1 DEF AdminStep, FreezeAccount, ThawAccount, Pause,
              Unpause, ProposeAdmin, AcceptAdmin, CancelPendingAdmin,
              SetOperator, UpdateMintCap, Treasury
      <3>2. CASE HolderStep \/ Tick \/ UNCHANGED vars
        BY <3>2 DEF HolderStep, Transfer, Burn, Approve, Revoke,
              SetAccountOwner, Tick, vars
      <3>3. QED
        BY <1>7, <3>1, <3>2
    <2>2. QED
      BY <2>1 DEF Ledger!ledgerVars
  <1>8. QED
    BY <1>2, <1>6, <1>7 DEF Next, Ledger!LedgerNext

\* The stablecoin program implements RedemptionLedger: each request is
\* redeemed or withdrawn once, and the counters record exactly that.
THEOREM LedgerRefinement == Spec => ImplementsLedger
  <1>1. QED
    BY InitLedger, StepLedger, TypeCorrect, NoncesCorrect, SupplyCorrect, PTL
       DEF Spec, ImplementsLedger, Ledger!LedgerSpec

-----------------------------------------------------------------------------
(* The tokens of all accounts.  Their sum is taken along an enumeration of  *)
(* the accounts, as a function of how many of them were added up.           *)

\* A set of numbers has a least one.
LEMMA LeastNumber ==
    ASSUME NEW S \in SUBSET Nat, S # {}
    PROVE  \E m \in S : \A k \in S : m <= k
  <1> DEFINE Less == OpToRel(<, Nat)
  <1>1. IsWellFoundedOn(Less, Nat)
    BY NatLessThanWellFounded
  <1>2. \A x, y \in Nat : x < y => <<x, y>> \in Less
    BY DEF OpToRel
  <1> HIDE DEF Less
  <1>3. PICK m \in S : \A k \in S : ~(<<k, m>> \in Less)
    BY <1>1, WFMin
  <1>4. ASSUME NEW k \in S PROVE m <= k
    <2>1. m \in Nat /\ k \in Nat
      OBVIOUS
    <2>2. ~(k < m)
      BY <1>2, <1>3, <2>1
    <2>3. QED
      BY <2>1, <2>2
  <1>5. QED
    BY <1>4

\* Each account once, in some order.
Enumerates(e, n) ==
    /\ e \in [1 .. n -> Accounts]
    /\ \A a \in Accounts : \E i \in 1 .. n : e[i] = a
    /\ \A i, j \in 1 .. n : e[i] = e[j] => i = j

\* sum[i] is what the first i accounts hold together.
AddsUp(sum, e, n, balance) ==
    /\ sum \in [0 .. n -> Nat]
    /\ sum[0] = 0
    /\ \A i \in 1 .. n : sum[i] = sum[i - 1] + balance[e[i]]

HasTotal(e, n, balance, total) ==
    \E sum \in [0 .. n -> Nat] : AddsUp(sum, e, n, balance) /\ sum[n] = total

Balances == [a \in Accounts |-> token[a].amount]

\* The sum grows with the accounts that are added up.
LEMMA SumGrows ==
    ASSUME NEW n \in Nat, NEW e, Enumerates(e, n),
           NEW balance \in [Accounts -> Nat], NEW sum, AddsUp(sum, e, n, balance)
    PROVE  \A i \in 0 .. n : \A j \in i .. n : sum[i] <= sum[j]
  <1>0. \A i \in 0 .. n : sum[i] \in Nat
    BY DEF AddsUp
  <1>1. SUFFICES ASSUME NEW i \in 0 .. n,
                        {j \in i .. n : sum[j] < sum[i]} # {}
                 PROVE  FALSE
    <2>1. \A i \in 0 .. n : {j \in i .. n : sum[j] < sum[i]} = {}
      BY <1>1
    <2>2. ASSUME NEW i \in 0 .. n, NEW j \in i .. n PROVE sum[i] <= sum[j]
      <3>1. j \in 0 .. n /\ ~(sum[j] < sum[i])
        BY <2>1
      <3>2. QED
        BY <1>0, <3>1
    <2>3. QED
      BY <2>2
  <1> DEFINE Bad == {j \in i .. n : sum[j] < sum[i]}
  <1>2. Bad \in SUBSET Nat
    OBVIOUS
  <1>3. PICK m \in Bad : \A k \in Bad : m <= k
    BY <1>1, <1>2, LeastNumber
  <1>4. m \in i .. n /\ sum[m] < sum[i] /\ m # i
    BY DEF AddsUp
  <1>5. m - 1 \in i .. n /\ m \in 1 .. n /\ ~(m <= m - 1)
    BY <1>4
  <1>6. sum[m - 1] >= sum[i]
    BY <1>3, <1>5 DEF AddsUp
  <1>7. sum[m] = sum[m - 1] + balance[e[m]] /\ balance[e[m]] \in Nat
    BY <1>5 DEF AddsUp, Enumerates
  <1>8. sum[m] \in Nat /\ sum[m - 1] \in Nat /\ sum[i] \in Nat
    BY <1>4, <1>5 DEF AddsUp
  <1>9. QED
    BY <1>4, <1>6, <1>7, <1>8

\* Changing what one account holds changes the total by as much.
LEMMA TotalChanges ==
    ASSUME NEW n \in Nat, NEW e, Enumerates(e, n),
           NEW balance \in [Accounts -> Nat], NEW total,
           HasTotal(e, n, balance, total),
           NEW a \in Accounts, NEW x \in Nat
    PROVE  HasTotal(e, n, [balance EXCEPT ![a] = x], total - balance[a] + x)
  <1>1. PICK sum : AddsUp(sum, e, n, balance) /\ sum[n] = total
    BY DEF HasTotal
  <1>2. PICK at \in 1 .. n : e[at] = a
    BY DEF Enumerates
  <1> DEFINE sum2 == [i \in 0 .. n |->
                        IF i < at THEN sum[i] ELSE sum[i] - balance[a] + x]
             balance2 == [balance EXCEPT ![a] = x]
  <1>3. \A i \in 0 .. n : sum[i] \in Nat
    BY <1>1 DEF AddsUp
  <1>4. \A i \in at .. n : sum[i] >= balance[a]
    <2>1. sum[at] = sum[at - 1] + balance[a] /\ at - 1 \in 0 .. n
      BY <1>1, <1>2 DEF AddsUp
    <2>2. sum[at] >= balance[a]
      BY <1>3, <2>1
    <2>3. \A i \in at .. n : sum[at] <= sum[i]
      BY <1>1, SumGrows
    <2>4. \A i \in at .. n : sum[i] \in Nat
      BY <1>3
    <2>5. QED
      BY <1>3, <2>2, <2>3, <2>4
  <1>5. sum2 \in [0 .. n -> Nat]
    <2>1. ASSUME NEW i \in 0 .. n PROVE sum2[i] \in Nat
      <3>1. CASE i < at
        BY <1>3, <3>1
      <3>2. CASE ~(i < at)
        <4>1. i \in at .. n
          BY <3>2
        <4>2. sum[i] - balance[a] + x \in Nat
          BY <1>3, <1>4, <4>1
        <4>3. QED
          BY <3>2, <4>2
      <3>3. QED
        BY <3>1, <3>2
    <2>2. QED
      BY <2>1
  <1>6. ASSUME NEW i \in 1 .. n
        PROVE  sum2[i] = sum2[i - 1] + balance2[e[i]]
    <2>1. /\ i - 1 \in 0 .. n /\ i \in 0 .. n
          /\ sum[i] = sum[i - 1] + balance[e[i]]
          /\ e[i] \in Accounts /\ balance[e[i]] \in Nat
          /\ (e[i] = a) <=> (i = at)
      <3>1. i - 1 \in 0 .. n /\ i \in 0 .. n
        OBVIOUS
      <3>2. sum[i] = sum[i - 1] + balance[e[i]]
        BY <1>1 DEF AddsUp
      <3>3. e[i] \in Accounts /\ balance[e[i]] \in Nat
        BY DEF Enumerates
      <3>4. (e[i] = a) <=> (i = at)
        BY <1>2 DEF Enumerates
      <3>5. QED
        BY <3>1, <3>2, <3>3, <3>4
    <2>2. CASE i < at
      BY <1>3, <2>1, <2>2
    <2>3. CASE i = at
      BY <1>2, <1>3, <2>1, <2>3
    <2>4. CASE i > at
      BY <1>3, <2>1, <2>4
    <2>5. QED
      BY <2>2, <2>3, <2>4
  <1>7. sum2[0] = 0
    BY <1>1 DEF AddsUp
  <1>8. sum2[n] = total - balance[a] + x
    BY <1>1
  <1>9. AddsUp(sum2, e, n, balance2)
    BY <1>5, <1>6, <1>7 DEF AddsUp
  <1> HIDE DEF sum2, balance2
  <1>10. HasTotal(e, n, balance2, total - balance[a] + x)
    BY <1>5, <1>8, <1>9 DEF HasTotal
  <1>11. QED
    BY <1>10 DEF balance2

\* No account holds more than all of them together.
LEMMA PartOfTotal ==
    ASSUME NEW n \in Nat, NEW e, Enumerates(e, n),
           NEW balance \in [Accounts -> Nat], NEW total,
           HasTotal(e, n, balance, total), NEW a \in Accounts
    PROVE  balance[a] <= total
  <1>1. PICK sum : AddsUp(sum, e, n, balance) /\ sum[n] = total
    BY DEF HasTotal
  <1>2. PICK i \in 1 .. n : e[i] = a
    BY DEF Enumerates
  <1>3. sum[i] = sum[i - 1] + balance[a] /\ sum[i - 1] \in Nat /\ sum[i] \in Nat
    BY <1>1, <1>2 DEF AddsUp
  <1>4. sum[i] <= total /\ total \in Nat
    <2>1. \A j \in i .. n : sum[i] <= sum[j]
      BY <1>1, SumGrows
    <2>2. QED
      BY <1>1, <2>1 DEF AddsUp
  <1>5. QED
    BY <1>3, <1>4

\* What the steps do to the balances: tokens are minted to one account,
\* burned from one, or moved from one to another.
BalanceSet(a, x) == Balances' = [Balances EXCEPT ![a] = x]

\* Replacing an account sets its balance.
LEMMA AccountReplaced ==
    ASSUME TypeOK, NEW a \in Accounts, NEW acc,
           token' = [token EXCEPT ![a] = acc]
    PROVE  BalanceSet(a, acc.amount)
  BY DEF BalanceSet, Balances, TypeOK

\* A step that leaves every amount as it is leaves the balances.
LEMMA AmountsKept ==
    ASSUME TypeOK, NEW a \in Accounts, NEW acc, acc.amount = token[a].amount,
           token' = [token EXCEPT ![a] = acc]
    PROVE  Balances' = Balances
  BY DEF Balances, TypeOK

\* Balances are numbers.
LEMMA BalancesType ==
    ASSUME TypeOK
    PROVE  /\ Balances \in [Accounts -> Nat]
           /\ supply \in Nat
           /\ \A a \in Accounts : Balances[a] = token[a].amount
           /\ \A a \in Accounts : token[a] \in TokenAccount /\ token[a].amount \in Nat
           /\ Amounts \subseteq U64 /\ U64 \subseteq Nat
  <1>1. Amounts \subseteq U64 /\ U64 \subseteq Nat
    BY NumberAssumption DEF U64
  <1>2. \A a \in Accounts : token[a] \in TokenAccount /\ token[a].amount \in Nat
    BY <1>1 DEF TypeOK, TokenAccount
  <1>3. QED
    BY <1>1, <1>2 DEF TypeOK, Balances

\* mint_tokens adds to one account what it adds to the supply.
LEMMA MintTotal ==
    ASSUME TypeOK, NEW n \in Nat, NEW e, Enumerates(e, n),
           HasTotal(e, n, Balances, supply),
           NEW k, NEW a \in Accounts, NEW x \in Amounts, MintTokens(k, a, x)
    PROVE  HasTotal(e, n, Balances, supply)'
  <1>1. /\ Balances \in [Accounts -> Nat] /\ supply \in Nat
        /\ Balances[a] = token[a].amount
        /\ token[a] \in TokenAccount /\ token[a].amount \in Nat /\ x \in Nat
    BY BalancesType
  <1>2. Balances' = [Balances EXCEPT ![a] = Balances[a] + x]
    BY <1>1 DEF MintTokens, Balances, TypeOK, TokenAccount
  <1>3. supply' = supply - Balances[a] + (Balances[a] + x)
    BY <1>1 DEF MintTokens
  <1>4. HasTotal(e, n, [Balances EXCEPT ![a] = Balances[a] + x],
                 supply - Balances[a] + (Balances[a] + x))
    <2>1. Balances[a] + x \in Nat
      BY <1>1
    <2>2. QED
      BY <1>1, <2>1, TotalChanges
  <1>5. HasTotal(e, n, Balances', supply')
    BY <1>2, <1>3, <1>4
  <1>6. QED
    BY <1>5 DEF HasTotal, AddsUp

\* Spending x of an account, and the supply with it.
LEMMA SpendTotal ==
    ASSUME TypeOK, NEW n \in Nat, NEW e, Enumerates(e, n),
           HasTotal(e, n, Balances, supply),
           NEW a \in Accounts, NEW x \in Nat, x <= token[a].amount,
           NEW acc, acc.amount = token[a].amount - x,
           token' = [token EXCEPT ![a] = acc], supply' = supply - x
    PROVE  HasTotal(e, n, Balances, supply)'
  <1>1. /\ Balances \in [Accounts -> Nat] /\ supply \in Nat
        /\ Balances[a] = token[a].amount /\ token[a].amount \in Nat
    BY BalancesType
  <1>2. Balances' = [Balances EXCEPT ![a] = Balances[a] - x]
    BY <1>1, AccountReplaced DEF BalanceSet
  <1>3. supply' = supply - Balances[a] + (Balances[a] - x)
    BY <1>1
  <1>4. HasTotal(e, n, [Balances EXCEPT ![a] = Balances[a] - x],
                 supply - Balances[a] + (Balances[a] - x))
    <2>1. Balances[a] - x \in Nat
      BY <1>1
    <2>2. QED
      BY <1>1, <2>1, TotalChanges
  <1>5. HasTotal(e, n, Balances', supply')
    BY <1>2, <1>3, <1>4
  <1>6. QED
    BY <1>5 DEF HasTotal, AddsUp

\* A transfer takes from one account what it adds to another.
LEMMA TransferTotal ==
    ASSUME TypeOK, NEW n \in Nat, NEW e, Enumerates(e, n),
           HasTotal(e, n, Balances, supply),
           NEW k, NEW a \in Accounts, NEW b \in Accounts, NEW x \in Amounts,
           Transfer(k, a, b, x)
    PROVE  HasTotal(e, n, Balances, supply)'
  <1>1. /\ Balances \in [Accounts -> Nat] /\ supply \in Nat
        /\ \A c \in Accounts : Balances[c] = token[c].amount
        /\ token[a] \in TokenAccount /\ token[b] \in TokenAccount
        /\ token[a].amount \in Nat /\ token[b].amount \in Nat
        /\ x \in Nat /\ x \in U64
    BY BalancesType
  <1>2. /\ a # b /\ CanSpend(k, a, x) /\ supply' = supply
        /\ token' = [token EXCEPT ![a] = Spent(k, a, x), ![b].amount = @ + x]
    BY DEF Transfer
  <1>3. token[a].amount >= x /\ Spent(k, a, x).amount = token[a].amount - x
    <2>1. /\ token[a].amount >= x
          /\ token[a].delegate = k => token[a].delegated_amount >= x
      BY <1>2 DEF CanSpend
    <2>2. QED
      BY <1>1, <2>1, SpentType
  <1> DEFINE less == [Balances EXCEPT ![a] = Balances[a] - x]
  <1>4. /\ less \in [Accounts -> Nat]
        /\ less[b] = Balances[b]
        /\ HasTotal(e, n, less, supply - Balances[a] + (Balances[a] - x))
    <2>1. Balances[a] - x \in Nat
      BY <1>1, <1>3
    <2>2. HasTotal(e, n, less, supply - Balances[a] + (Balances[a] - x))
      BY <1>1, <2>1, TotalChanges
    <2>3. QED
      BY <1>1, <1>2, <2>1, <2>2
  <1>5. Balances' = [less EXCEPT ![b] = less[b] + x]
    <2>1. \A c \in Accounts : token'[c].amount =
             IF c = a THEN token[a].amount - x
             ELSE IF c = b THEN token[b].amount + x ELSE token[c].amount
      BY <1>1, <1>2, <1>3 DEF TypeOK, TokenAccount
    <2>2. Balances' = [c \in Accounts |-> token'[c].amount]
      BY DEF Balances
    <2>3. \A c \in Accounts : [less EXCEPT ![b] = less[b] + x][c] =
             IF c = a THEN token[a].amount - x
             ELSE IF c = b THEN token[b].amount + x ELSE token[c].amount
      BY <1>1, <1>2, <1>4
    <2>4. [less EXCEPT ![b] = less[b] + x] =
             [c \in Accounts |-> [less EXCEPT ![b] = less[b] + x][c]]
      BY <1>4
    <2> HIDE DEF less
    <2>5. QED
      BY <2>1, <2>2, <2>3, <2>4
  <1> HIDE DEF less
  <1>6. supply - Balances[a] + (Balances[a] - x) = supply - x
    BY <1>1
  <1>7. HasTotal(e, n, [less EXCEPT ![b] = less[b] + x],
                 supply - x - less[b] + (less[b] + x))
    <2>1. less[b] + x \in Nat /\ HasTotal(e, n, less, supply - x)
      BY <1>1, <1>4, <1>6
    <2>2. QED
      BY <1>4, <2>1, TotalChanges
  <1>8. supply - x - less[b] + (less[b] + x) = supply
    BY <1>1, <1>4
  <1>9. HasTotal(e, n, Balances', supply')
    BY <1>2, <1>5, <1>7, <1>8
  <1>10. QED
    BY <1>9 DEF HasTotal, AddsUp

\* Every step keeps the supply the sum of the balances.
LEMMA StepTotal ==
    ASSUME TypeOK, NEW n \in Nat, NEW e, Enumerates(e, n),
           HasTotal(e, n, Balances, supply), [Next]_vars
    PROVE  HasTotal(e, n, Balances, supply)'
  <1>0. ASSUME Balances' = Balances, supply' = supply
        PROVE  HasTotal(e, n, Balances, supply)'
    BY <1>0 DEF HasTotal, AddsUp
  <1>1. ASSUME NEW k \in Keys, NEW a \in Accounts, NEW x \in Amounts,
               MintTokens(k, a, x)
        PROVE  HasTotal(e, n, Balances, supply)'
    BY <1>1, MintTotal
  <1>2. ASSUME NEW k \in Keys, NEW a \in Accounts, NEW x \in Amounts,
               RequestRedemption(k, a, x)
        PROVE  HasTotal(e, n, Balances, supply)'
    <2>1. Delegated(token[a], EscrowKey, x) \in
              [owner : Keys, amount : Nat, delegate : {EscrowKey},
               delegated_amount : U64, frozen : BOOLEAN]
          /\ Delegated(token[a], EscrowKey, x).amount = token[a].amount
      BY BalancesType DEF Delegated, TokenAccount
    <2> DEFINE acc == [Delegated(token[a], EscrowKey, x) EXCEPT !.frozen = TRUE]
    <2>2. acc.amount = token[a].amount
      BY <2>1
    <2>3. token' = [token EXCEPT ![a] = acc] /\ supply' = supply
      BY <1>2 DEF RequestRedemption, TypeOK
    <2> HIDE DEF acc
    <2>4. QED
      BY <1>0, <2>2, <2>3, AmountsKept
  <1>3. ASSUME NEW k \in Keys, NEW r \in requests, ApproveRedemption(k, r)
        PROVE  HasTotal(e, n, Balances, supply)'
    <2> DEFINE a == r.token_account
               acc == [Spent(EscrowKey, a, r.amount) EXCEPT !.frozen = FALSE]
    <2>1. a \in Accounts /\ r.amount \in U64 /\ r.amount \in Nat
      BY BalancesType DEF TypeOK, RedemptionRequest
    <2>2. token[a].amount >= r.amount /\ token[a].delegated_amount >= r.amount
      BY <1>3 DEF ApproveRedemption
    <2>3. acc.amount = token[a].amount - r.amount
      <3>1. /\ Spent(EscrowKey, a, r.amount) \in TokenAccount
            /\ Spent(EscrowKey, a, r.amount).amount = token[a].amount - r.amount
        BY <2>1, <2>2, SpentType
      <3>2. QED
        BY <3>1 DEF TokenAccount
    <2>4. token' = [token EXCEPT ![a] = acc] /\ supply' = supply - r.amount
      BY <1>3 DEF ApproveRedemption
    <2>5. r.amount <= token[a].amount
      BY <2>1, <2>2, BalancesType
    <2> HIDE DEF acc, a
    <2>6. QED
      BY <2>1, <2>3, <2>4, <2>5, SpendTotal
  <1>4. ASSUME NEW k \in Keys, NEW r \in requests, CancelRedemption(k, r)
        PROVE  HasTotal(e, n, Balances, supply)'
    <2> DEFINE a == r.token_account
               acc == [(IF k = r.holder THEN Revoked(token[a]) ELSE token[a])
                          EXCEPT !.frozen = FALSE]
    <2>1. a \in Accounts /\ token[a] \in TokenAccount
      BY BalancesType DEF TypeOK, RedemptionRequest
    <2>2. acc.amount = token[a].amount
      <3>1. /\ Revoked(token[a]) \in TokenAccount
            /\ Revoked(token[a]).amount = token[a].amount
        BY <2>1, RevokedType
      <3>2. QED
        BY <2>1, <3>1 DEF TokenAccount
    <2>3. token' = [token EXCEPT ![a] = acc] /\ supply' = supply
      BY <1>4, <2>1 DEF CancelRedemption, TypeOK
    <2> HIDE DEF acc, a
    <2>4. QED
      BY <1>0, <2>1, <2>2, <2>3, AmountsKept
  <1>5. CASE AdminStep
    <2>1. ASSUME NEW a \in Accounts, NEW f,
                 token' = [token EXCEPT ![a].frozen = f], supply' = supply
          PROVE  HasTotal(e, n, Balances, supply)'
      <3> DEFINE acc == [token[a] EXCEPT !.frozen = f]
      <3>1. token' = [token EXCEPT ![a] = acc]
        BY <2>1
      <3>2. acc.amount = token[a].amount
        BY BalancesType DEF TokenAccount
      <3> HIDE DEF acc
      <3>3. QED
        BY <1>0, <2>1, <3>1, <3>2, AmountsKept
    <2>2. CASE \E k \in Keys, a \in Accounts :
                  FreezeAccount(k, a) \/ ThawAccount(k, a)
      BY <2>1, <2>2 DEF FreezeAccount, ThawAccount
    <2>3. CASE ~\E k \in Keys, a \in Accounts :
                  FreezeAccount(k, a) \/ ThawAccount(k, a)
      <3>1. token' = token /\ supply' = supply
        BY <1>5, <2>3 DEF AdminStep, Pause, Unpause, ProposeAdmin,
           AcceptAdmin, CancelPendingAdmin, SetOperator, UpdateMintCap
      <3>2. QED
        BY <1>0, <3>1 DEF Balances
    <2>4. QED
      BY <2>2, <2>3
  <1>6. ASSUME NEW k \in Keys, NEW a \in Accounts, NEW x \in Amounts, Burn(k, a, x)
        PROVE  HasTotal(e, n, Balances, supply)'
    <2>1. x \in Nat /\ x \in U64 /\ token[a].amount \in Nat
      BY BalancesType
    <2>2. /\ token[a].amount >= x
          /\ token[a].delegate = k => token[a].delegated_amount >= x
          /\ token' = [token EXCEPT ![a] = Spent(k, a, x)]
          /\ supply' = supply - x
      BY <1>6 DEF Burn, CanSpend
    <2>3. Spent(k, a, x).amount = token[a].amount - x
      BY <2>1, <2>2, SpentType
    <2>4. x <= token[a].amount
      BY <2>1, <2>2
    <2>5. QED
      BY <2>1, <2>2, <2>3, <2>4, SpendTotal
  <1>7. ASSUME NEW a \in Accounts, NEW d \in Spenders \cup {NoKey},
               NEW x \in U64, NEW o \in Keys,
               \/ token' = [token EXCEPT ![a] = Delegated(@, d, x)]
               \/ token' = [token EXCEPT ![a] = [Delegated(@, d, x) EXCEPT !.owner = o]],
               supply' = supply
        PROVE  HasTotal(e, n, Balances, supply)'
    <2>1. Delegated(token[a], d, x) \in
              [owner : Keys, amount : Nat, delegate : Spenders \cup {NoKey},
               delegated_amount : U64, frozen : BOOLEAN]
          /\ Delegated(token[a], d, x).amount = token[a].amount
      BY <1>7, BalancesType DEF Delegated, TokenAccount
    <2> DEFINE acc == Delegated(token[a], d, x)
               acc2 == [acc EXCEPT !.owner = o]
    <2>2. acc.amount = token[a].amount
      BY <2>1
    <2>3. acc2.amount = token[a].amount
      BY <2>1
    <2>4. token' = [token EXCEPT ![a] = acc] \/ token' = [token EXCEPT ![a] = acc2]
      BY <1>7 DEF TypeOK
    <2> HIDE DEF acc, acc2
    <2>5. QED
      BY <1>0, <1>7, <2>2, <2>3, <2>4, AmountsKept
  <1>8. CASE HolderStep
    <2>0. 0 \in U64 /\ Keys # {}
      BY NumberAssumption, KeyAssumption DEF U64
    <2>1. CASE \E k \in Keys, a, b \in Accounts, x \in Amounts : Transfer(k, a, b, x)
      BY <2>1, TransferTotal
    <2>2. CASE \E a \in Accounts, d \in Spenders, x \in Amounts : Approve(a, d, x)
      BY <1>7, <2>0, <2>2, BalancesType DEF Approve
    <2>3. CASE \E a \in Accounts : Revoke(a)
      BY <1>7, <2>0, <2>3 DEF Revoke, Revoked
    <2>4. CASE \E a \in Accounts, k \in Keys : SetAccountOwner(a, k)
      BY <1>7, <2>0, <2>4 DEF SetAccountOwner, Revoked
    <2>5. QED
      BY <1>6, <1>8, <2>1, <2>2, <2>3, <2>4 DEF HolderStep
  <1>9. CASE Tick \/ UNCHANGED vars
    BY <1>0, <1>9 DEF Tick, vars, Balances
  <1>10. QED
    BY <1>1, <1>2, <1>3, <1>4, <1>5, <1>8, <1>9 DEF Next, RedemptionStep

\* The supply of the mint is what all its accounts hold together, for any
\* number of accounts and in whatever order they are added up
\* (mint_tokens_handler, approve_redemption_handler and Token-2022).
SupplyHeld ==
    \A n \in Nat : \A e \in [1 .. n -> Accounts] :
        Enumerates(e, n) => HasTotal(e, n, Balances, supply)

THEOREM SupplyIsHeld == Spec => []SupplyHeld
  <1>1. Init => SupplyHeld
    <2>1. SUFFICES ASSUME Init, NEW n \in Nat, NEW e \in [1 .. n -> Accounts]
                   PROVE  HasTotal(e, n, Balances, supply)
      BY DEF SupplyHeld
    <2> DEFINE sum == [i \in 0 .. n |-> 0]
    <2>2. \A i \in 1 .. n : Balances[e[i]] = 0
      BY <2>1 DEF Init, Balances
    <2>3. AddsUp(sum, e, n, Balances) /\ sum[n] = supply
      BY <2>1, <2>2 DEF AddsUp, Init
    <2>4. sum \in [0 .. n -> Nat]
      OBVIOUS
    <2> HIDE DEF sum
    <2>5. QED
      BY <2>3, <2>4 DEF HasTotal
  <1>2. TypeOK /\ SupplyHeld /\ [Next]_vars => SupplyHeld'
    <2>1. SUFFICES ASSUME TypeOK, SupplyHeld, [Next]_vars,
                          NEW n \in Nat, NEW e \in [1 .. n -> Accounts],
                          Enumerates(e, n)
                   PROVE  HasTotal(e, n, Balances, supply)'
      BY DEF SupplyHeld, Enumerates
    <2>2. HasTotal(e, n, Balances, supply)
      BY <2>1 DEF SupplyHeld
    <2>3. QED
      BY <2>1, <2>2, StepTotal
  <1>3. QED
    BY <1>1, <1>2, TypeCorrect, PTL DEF Spec

\* No account holds more than the supply.
BalancesBounded == \A a \in Accounts : token[a].amount <= supply

THEOREM BalancesInSupply ==
    ASSUME IsFiniteSet(Accounts)
    PROVE  Spec => []BalancesBounded
  <1> DEFINE n == Cardinality(Accounts)
  <1>1. n \in Nat /\ ExistsBijection(1 .. n, Accounts)
    BY FS_CardinalityType
  <1>2. PICK e : e \in Bijection(1 .. n, Accounts)
    BY <1>1 DEF ExistsBijection
  <1>3. Enumerates(e, n) /\ e \in [1 .. n -> Accounts]
    BY <1>2 DEF Bijection, Injection, IsInjective, Surjection, Enumerates
  <1> HIDE DEF n
  <1>4. TypeOK /\ SupplyHeld => BalancesBounded
    <2>1. SUFFICES ASSUME TypeOK, SupplyHeld, NEW a \in Accounts
                   PROVE  Balances[a] <= supply
      BY BalancesType DEF BalancesBounded
    <2>2. HasTotal(e, n, Balances, supply)
      BY <1>1, <1>3, <2>1 DEF SupplyHeld
    <2>3. QED
      BY <1>1, <1>3, <2>1, <2>2, BalancesType, PartOfTotal
  <1>5. QED
    BY <1>4, SupplyIsHeld, TypeCorrect, PTL

-----------------------------------------------------------------------------
(* Nobody's tokens are locked up.  The guards of cancel_redemption and      *)
(* approve_redemption are stated as predicates of a state; two lemmas say   *)
(* that an action is its guard and one value for every variable, so that a  *)
(* state with the guard has a next state.                                   *)

CanCancelRedemption(canceller, r) ==
    /\ \/ canceller = r.holder
       \/ canceller = treasury.admin
       \/ IsExpired(r)
    /\ CanThawFor(r)

CanApproveRedemption(operator, r) ==
    LET a == r.token_account IN
    /\ operator = treasury.operator
    /\ ~treasury.paused
    /\ CanThawFor(r)
    /\ token[a].delegate = EscrowKey
    /\ token[a].delegated_amount >= r.amount
    /\ token[a].amount >= r.amount
    /\ supply >= r.amount
    /\ treasury.total_burned + r.amount <= MaxU64

\* cancel_redemption is its guard and a value for every variable.
LEMMA CancelGuard ==
    ASSUME NEW canceller, NEW r
    PROVE  CancelRedemption(canceller, r) <=>
              /\ CanCancelRedemption(canceller, r)
              /\ treasury' = treasury
              /\ token' = [token EXCEPT ![r.token_account] =
                    [(IF canceller = r.holder THEN Revoked(@) ELSE @)
                        EXCEPT !.frozen = FALSE]]
              /\ supply' = supply
              /\ requests' = requests \ {r}
              /\ now' = now
              /\ released' = released \cup HeldOn(r.token_account, requests \ {r})
              /\ selfBurned' = selfBurned
  BY Zenon DEF CancelRedemption, CanCancelRedemption

\* So is approve_redemption.
LEMMA ApproveGuard ==
    ASSUME NEW operator, NEW r
    PROVE  ApproveRedemption(operator, r) <=>
              /\ CanApproveRedemption(operator, r)
              /\ treasury' = [treasury EXCEPT !.total_burned = @ + r.amount]
              /\ token' = [token EXCEPT ![r.token_account] =
                    [Spent(EscrowKey, r.token_account, r.amount)
                        EXCEPT !.frozen = FALSE]]
              /\ supply' = supply - r.amount
              /\ requests' = requests \ {r}
              /\ now' = now
              /\ released' = released \cup HeldOn(r.token_account, requests \ {r})
              /\ selfBurned' = selfBurned
  BY Zenon DEF ApproveRedemption, CanApproveRedemption

\* An open request whose hold is intact passes every check of
\* cancel_redemption for its holder at once, paused or not, and for anybody
\* once it has expired; and every check of approve_redemption for the operator
\* unless the program is paused: with the tokens of every account in the
\* supply, no counter is in the way.
Exits ==
    \A r \in requests : r.nonce \notin released =>
        /\ CanCancelRedemption(r.holder, r)
        /\ IsExpired(r) => \A k \in Keys : CanCancelRedemption(k, r)
        /\ ~treasury.paused => CanApproveRedemption(treasury.operator, r)

THEOREM HoldersCanExit ==
    ASSUME IsFiniteSet(Accounts)
    PROVE  Spec => []Exits
  <1>1. TypeOK /\ HoldIntact /\ SupplyAccounted /\ BalancesBounded => Exits
    <2>1. SUFFICES ASSUME TypeOK, HoldIntact, SupplyAccounted, BalancesBounded,
                          NEW r \in requests, r.nonce \notin released
                   PROVE  /\ CanThawFor(r)
                          /\ ~treasury.paused
                               => CanApproveRedemption(treasury.operator, r)
      BY DEF CanCancelRedemption, Exits
    <2>2. Escrowed(r)
      BY <2>1 DEF HoldIntact
    <2>3. CanThawFor(r)
      BY <2>1, <2>2 DEF Escrowed, CanThawFor
    <2>4. /\ token[r.token_account].amount \in Nat
          /\ r.amount \in Nat /\ supply \in Nat /\ selfBurned \in Nat
          /\ treasury.total_minted \in 0 .. MaxU64
          /\ treasury.total_burned \in Nat
      BY <2>1 DEF TypeOK, RedemptionRequest, TokenAccount, Treasury, U64
    <2>5. /\ token[r.token_account].delegated_amount >= r.amount
          /\ supply >= r.amount
          /\ treasury.total_burned + r.amount <= MaxU64
      <3>1. /\ token[r.token_account].amount >= r.amount
            /\ token[r.token_account].delegated_amount = r.amount
        BY <2>2 DEF Escrowed
      <3>2. supply >= r.amount
        <4>1. r.token_account \in Accounts
          BY <2>1 DEF TypeOK, RedemptionRequest
        <4>2. token[r.token_account].amount <= supply
          BY <2>1, <4>1 DEF BalancesBounded
        <4>3. QED
          BY <2>4, <3>1, <4>2
      <3>3. treasury.total_burned + r.amount <= treasury.total_minted
        BY <2>1, <2>4, <3>2 DEF SupplyAccounted
      <3>4. QED
        BY <2>4, <3>1, <3>2, <3>3, NumberAssumption
    <2>6. QED
      BY <2>2, <2>3, <2>5 DEF Escrowed, CanApproveRedemption
  <1>2. QED
    BY <1>1, TypeCorrect, HoldCorrect, SupplyCorrect, BalancesInSupply, PTL

-----------------------------------------------------------------------------
(* The admin page.                                                         *)

Redemptions == {"approve_redemption", "cancel_redemption"}
Kinds == {"none", "mint_tokens", "freeze_account", "thaw_account", "pause",
          "unpause", "propose_admin", "accept_admin", "cancel_pending_admin",
          "set_operator", "update_mint_cap"} \cup Redemptions

\* What a dialog can be about, each kind of it.
Values == Keys \cup {DefaultKey} \cup Accounts \cup Amounts \cup Caps
             \cup RedemptionRequest

Fits(kind, arg) ==
    /\ kind = "mint_tokens" => arg[1] \in Destinations /\ arg[2] \in Amounts
    /\ kind \in {"freeze_account", "thaw_account"} => arg[1] \in Accounts
    /\ kind \in {"propose_admin", "set_operator"} => arg[1] \in Keys \cup {DefaultKey}
    /\ kind = "update_mint_cap" => arg[1] \in Caps
    /\ kind \in Redemptions => arg[1] \in RedemptionRequest

Dialog == [kind : Kinds, arg : Seq(Values), send : Nat]
Sending == [kind : Kinds, arg : Seq(Values), signer : Keys \cup {NoKey},
            at : {"wallet", "flight", "over"}]

\* A transaction is signed by a key, over arguments of its instruction.
Signed(t) == t.kind # "none" => t.signer \in Keys /\ Fits(t.kind, t.arg)

PageTyped ==
    /\ wallet \in Keys \cup {NoKey}
    /\ queue \subseteq RedemptionRequest
    /\ dialog \in Dialog /\ Fits(dialog.kind, dialog.arg)
    /\ sends \in Seq(Sending)
    /\ \A i \in DOMAIN sends : Signed(sends[i])

\* A request that existed once: its nonce was issued, and no other one has it.
IssuedIn(r, t, rs) ==
    /\ r.nonce < t.redemption_nonce
    /\ \A q \in rs : q.nonce = r.nonce => q = r

Issued(r) == IssuedIn(r, treasury, requests)

\* Every request the page knows of, from a read or on its way to the chain.
KnownAreIssued ==
    /\ \A r \in queue : Issued(r)
    /\ dialog.kind \in Redemptions => Issued(dialog.arg[1])
    /\ \A i \in DOMAIN sends :
          sends[i].kind \in Redemptions => Issued(sends[i].arg[1])

DialogShown == dialog.kind = "none" \/ Visible(dialog.kind)

PageInv == PageTyped /\ KnownAreIssued /\ DialogShown

\* Where the elements of three sequences are when they are put together.
LEMMA ThreeParts ==
    ASSUME NEW V, NEW a \in Seq(V), NEW b \in Seq(V), NEW c \in Seq(V)
    PROVE  /\ Len(a) \in Nat /\ Len(b) \in Nat /\ Len(c) \in Nat
           /\ \A i \in 1 .. Len(a) : (a \o b \o c)[i] = a[i]
           /\ \A i \in 1 .. Len(b) : (a \o b \o c)[Len(a) + i] = b[i]
           /\ \A i \in 1 .. Len(c) : (a \o b \o c)[Len(a) + Len(b) + i] = c[i]
  <1> DEFINE ab == a \o b
  <1>1. Len(a) \in Nat /\ Len(b) \in Nat /\ Len(c) \in Nat
    OBVIOUS
  <1>2. /\ ab \in Seq(V) /\ Len(ab) = Len(a) + Len(b)
        /\ \A i \in 1 .. Len(a) : ab[i] = a[i]
        /\ \A i \in 1 .. Len(b) : ab[Len(a) + i] = b[i]
    OBVIOUS
  <1> HIDE DEF ab
  <1>3. /\ \A i \in 1 .. Len(ab) : (ab \o c)[i] = ab[i]
        /\ \A i \in 1 .. Len(c) : (ab \o c)[Len(ab) + i] = c[i]
    BY <1>2
  <1>4. QED
    BY <1>1, <1>2, <1>3 DEF ab

\* Whether there is a pending admin or not, decodeTreasury finds each field
\* where Borsh put it.
LEMMA TreasuryIsRead ==
    ASSUME NEW t \in Treasury
    PROVE  DecodeTreasury(TreasuryData(t)) = t
  <1> DEFINE V == Keys \cup {NoKey} \cup U64 \cup BOOLEAN \cup Nat
             first == <<t.admin, t.operator, t.total_minted, t.total_burned, t.paused>>
             option == IF t.pending_admin = NoKey THEN <<0>> ELSE <<1, t.pending_admin>>
             last == <<t.mint_cap, t.redemption_nonce>>
             data == TreasuryData(t)
  <1>1. /\ t.admin \in V /\ t.operator \in V /\ t.total_minted \in V
        /\ t.total_burned \in V /\ t.paused \in V /\ t.pending_admin \in V
        /\ t.mint_cap \in V /\ t.redemption_nonce \in V /\ 0 \in V /\ 1 \in V
    BY DEF Treasury
  <1> HIDE DEF V
  <1>2. first \in Seq(V) /\ option \in Seq(V) /\ last \in Seq(V)
    BY <1>1
  <1>3. Len(first) = 5 /\ Len(last) = 2
        /\ Len(option) = IF t.pending_admin = NoKey THEN 1 ELSE 2
    OBVIOUS
  <1>4. data = first \o option \o last
    BY DEF TreasuryData
  <1>5. /\ \A i \in 1 .. 5 : data[i] = first[i]
        /\ \A i \in 1 .. Len(option) : data[5 + i] = option[i]
        /\ \A i \in 1 .. 2 : data[5 + Len(option) + i] = last[i]
    <2> HIDE DEF first, option, last, data
    <2>1. /\ \A i \in 1 .. Len(first) : data[i] = first[i]
          /\ \A i \in 1 .. Len(option) : data[Len(first) + i] = option[i]
          /\ \A i \in 1 .. Len(last) : data[Len(first) + Len(option) + i] = last[i]
      <3>1. /\ \A i \in 1 .. Len(first) : (first \o option \o last)[i] = first[i]
            /\ \A i \in 1 .. Len(option) :
                  (first \o option \o last)[Len(first) + i] = option[i]
            /\ \A i \in 1 .. Len(last) :
                  (first \o option \o last)[Len(first) + Len(option) + i] = last[i]
        BY <1>2, ThreeParts
      <3>2. QED
        BY <1>4, <3>1
    <2>2. QED
      BY <1>3, <2>1
  <1> HIDE DEF data
  <1>6. /\ data[1] = t.admin /\ data[2] = t.operator /\ data[3] = t.total_minted
        /\ data[4] = t.total_burned /\ data[5] = t.paused
    BY <1>5
  <1>7. CASE t.pending_admin = NoKey
    <2>1. data[6] = 0 /\ data[7] = t.mint_cap /\ data[8] = t.redemption_nonce
      BY <1>3, <1>5, <1>7
    <2>2. QED
      BY <1>6, <1>7, <2>1 DEF DecodeTreasury, Treasury, data
  <1>8. CASE t.pending_admin # NoKey
    <2>1. /\ data[6] = 1 /\ data[7] = t.pending_admin
          /\ data[8] = t.mint_cap /\ data[9] = t.redemption_nonce
      BY <1>3, <1>5, <1>8
    <2>2. QED
      BY <1>6, <1>8, <2>1 DEF DecodeTreasury, Treasury, data
  <1>9. QED
    BY <1>7, <1>8

\* What an open request is read as is what it is: the account's layout and
\* decodeRedemptionRequest agree.
LEMMA RequestsAreRead ==
    ASSUME NEW r \in RedemptionRequest
    PROVE  DecodeRedemptionRequest(RequestData(r)) = r
  BY DEF DecodeRedemptionRequest, RequestData, RedemptionRequest

\* No dialog is open without a panel, before and after Kept.
LEMMA KeptDialog ==
    ASSUME NEW d \in Dialog, Fits(d.kind, d.arg), NEW w, NEW v
    PROVE  /\ Kept(d, w, v) \in Dialog
           /\ Fits(Kept(d, w, v).kind, Kept(d, w, v).arg)
           /\ Kept(d, w, v) = d \/ Kept(d, w, v).kind = "none"
           /\ Kept(d, w, v).kind = "none" \/ Shown(Kept(d, w, v).kind, w, v)
  <1>1. /\ NoDialog.kind = "none" /\ NoDialog.arg = <<>> /\ NoDialog.send = 0
        /\ NoDialog \in Dialog
    <2>1. <<>> \in Seq(Values) /\ "none" \in Kinds
      BY DEF Kinds
    <2>2. QED
      BY <2>1 DEF NoDialog, Dialog
  <1>2. Fits(NoDialog.kind, NoDialog.arg)
    BY <1>1 DEF Fits, Redemptions
  <1>3. QED
    BY <1>1, <1>2 DEF Kept

\* A transaction that lands is an instruction of the program.
LEMMA ExecuteIsAStep ==
    ASSUME TypeOK, NEW t \in Sending, Signed(t), Execute(t)
    PROVE  Next
  <1>1. t.kind # "none" => t.signer \in Keys /\ Fits(t.kind, t.arg)
    BY DEF Signed
  <1>2. CASE BuildMintTokens(t)
    BY <1>1, <1>2 DEF BuildMintTokens, Fits, Next
  <1>3. CASE BuildApproveRedemption(t)
    BY <1>1, <1>3 DEF BuildApproveRedemption, AtAddress, Next, RedemptionStep
  <1>4. CASE BuildCancelRedemption(t)
    BY <1>1, <1>4 DEF BuildCancelRedemption, AtAddress, Next, RedemptionStep
  <1>5. CASE BuildFreezeThaw(t)
    BY <1>1, <1>5 DEF BuildFreezeThaw, Fits, Next, AdminStep
  <1>6. CASE BuildEmergency(t)
    BY <1>1, <1>6 DEF BuildEmergency, Next, AdminStep
  <1>7. CASE BuildAdminTransfer(t)
    BY <1>1, <1>7 DEF BuildAdminTransfer, Fits, Next, AdminStep
  <1>8. CASE BuildSettings(t)
    BY <1>1, <1>8 DEF BuildSettings, Fits, Next, AdminStep
  <1>9. QED
    BY <1>2, <1>3, <1>4, <1>5, <1>6, <1>7, <1>8 DEF Execute

\* Whatever the page and other people do, the chain makes a step of the
\* program or none.
LEMMA ConsoleIsAStep ==
    ASSUME TypeOK, PageTyped, [ConsoleNext]_consoleVars
    PROVE  [Next]_vars
  <1>1. CASE Elsewhere
    <2>1. \A r \in requests : r.holder \in Keys
      BY DEF TypeOK, RedemptionRequest
    <2>2. QED
      BY <1>1, <2>1 DEF Elsewhere, Next, RedemptionStep, AdminStep
  <1>2. CASE PageStep
    BY <1>2 DEF PageStep, QueueAcceptAdmin, QueueSetOperator, QueueProposeAdmin,
       QueueCancelPendingAdmin, QueueMintCap, QueueEmergency, QueueFreezeThaw,
       QueueMint, QueueRedemption, OpenDialog, CloseDialog, Confirm, SwitchWallet,
       RefetchTreasury, RefetchFails, RefetchRedemptions, RefetchRedemptionsFails
  <1>3. ASSUME NEW i \in DOMAIN sends, Land(i)
        PROVE  Next
    <2>1. sends[i] \in Sending /\ Signed(sends[i])
      BY DEF PageTyped
    <2>2. QED
      BY <1>3, <2>1, ExecuteIsAStep DEF Land
  <1>4. CASE ChainStep
    BY <1>3, <1>4 DEF ChainStep, SendSucceeds, SendFails, Drop
  <1>5. QED
    BY <1>1, <1>2, <1>4 DEF ConsoleNext, consoleVars

\* An issued request stays issued: nonces only grow, and a new request takes
\* the next one.
LEMMA IssuedStays ==
    ASSUME TypeOK, [Next]_vars, NEW r \in RedemptionRequest, Issued(r)
    PROVE  IssuedIn(r, treasury', requests')
  <1>0. /\ treasury \in Treasury /\ treasury.redemption_nonce \in Nat
        /\ r.nonce \in Nat
    BY NumberAssumption DEF TypeOK, Treasury, RedemptionRequest, U64
  <1>1. CASE /\ requests' \subseteq requests
             /\ treasury'.redemption_nonce = treasury.redemption_nonce
    BY <1>1 DEF Issued, IssuedIn
  <1>2. ASSUME NEW q, q.nonce = treasury.redemption_nonce,
               requests' = requests \cup {q},
               treasury' = [treasury EXCEPT !.redemption_nonce = @ + 1]
        PROVE  IssuedIn(r, treasury', requests')
    <2>1. treasury'.redemption_nonce = treasury.redemption_nonce + 1
      BY <1>0, <1>2 DEF Treasury
    <2>2. QED
      BY <1>0, <1>2, <2>1 DEF Issued, IssuedIn
  <1>3. QED
    BY <1>1, <1>2, StepRequests

\* A dialog that is opened has the arguments its kind needs.
LEMMA OpenedFits ==
    ASSUME TypeOK, PageTyped, NEW kind \in Kinds \ {"none"}, NEW arg \in Seq(Values),
           Fits(kind, arg), OpenDialog(kind, arg)
    PROVE  /\ PageTyped'
           /\ dialog'.kind = kind /\ dialog'.arg = arg
  <1>1. dialog' = [kind |-> kind, arg |-> arg, send |-> 0]
    BY DEF OpenDialog, NoDialog
  <1>2. dialog' \in Dialog /\ dialog'.kind = kind /\ dialog'.arg = arg
    BY <1>1 DEF Dialog
  <1>3. UNCHANGED <<wallet, queue, sends>>
    BY DEF OpenDialog
  <1>4. QED
    BY <1>2, <1>3 DEF PageTyped

\* The dialogs of the page: each opens in its panel, and over a request only
\* for one that is listed.
Opens ==
    \E kind \in Kinds \ {"none"}, arg \in Seq(Values) :
        /\ Fits(kind, arg) /\ Visible(kind) /\ OpenDialog(kind, arg)
        /\ kind \in Redemptions => arg[1] \in queue

Queues ==
    \/ QueueAcceptAdmin
    \/ \E k \in Keys : QueueSetOperator(k)
    \/ \E k \in Keys \cup {DefaultKey} : QueueProposeAdmin(k)
    \/ QueueCancelPendingAdmin
    \/ \E c \in Caps : QueueMintCap(c)
    \/ \E kind \in {"pause", "unpause"} : QueueEmergency(kind)
    \/ \E kind \in {"freeze_account", "thaw_account"}, a \in Accounts :
          QueueFreezeThaw(kind, a)
    \/ \E d \in Destinations, n \in Amounts : QueueMint(d, n)
    \/ \E kind \in Redemptions, r \in queue : QueueRedemption(kind, r)

LEMMA QueueOpens ==
    ASSUME PageTyped, Queues
    PROVE  Opens
  <1>0. \A v \in Values : <<v>> \in Seq(Values) /\ <<v>>[1] = v
    OBVIOUS
  <1>1. ASSUME NEW kind \in Kinds \ {"none"}, NEW arg \in Seq(Values),
               Fits(kind, arg), Visible(kind), OpenDialog(kind, arg),
               kind \in Redemptions => arg[1] \in queue
        PROVE  Opens
    BY <1>1 DEF Opens
  <1>2. CASE QueueAcceptAdmin \/ QueueCancelPendingAdmin
    <2>1. \A kind \in {"accept_admin", "cancel_pending_admin"} :
             Fits(kind, <<>>) /\ kind \in Kinds \ {"none"} /\ kind \notin Redemptions
      BY DEF Fits, Kinds, Redemptions
    <2>2. <<>> \in Seq(Values)
      OBVIOUS
    <2>3. QED
      BY <1>1, <1>2, <2>1, <2>2 DEF QueueAcceptAdmin, QueueCancelPendingAdmin,
         OffersTransfer
  <1>3. ASSUME NEW k \in Keys \cup {DefaultKey},
               (QueueSetOperator(k) /\ k \in Keys) \/ QueueProposeAdmin(k)
        PROVE  Opens
    <2>1. <<k>> \in Seq(Values) /\ <<k>>[1] = k
      BY <1>0 DEF Values
    <2>2. \A kind \in {"set_operator", "propose_admin"} :
             Fits(kind, <<k>>) /\ kind \in Kinds \ {"none"} /\ kind \notin Redemptions
      BY <2>1 DEF Fits, Kinds, Redemptions
    <2>3. QED
      BY <1>1, <1>3, <2>1, <2>2 DEF QueueSetOperator, QueueProposeAdmin, OffersTransfer
  <1>4. ASSUME NEW c \in Caps, QueueMintCap(c)
        PROVE  Opens
    <2>1. <<c>> \in Seq(Values) /\ <<c>>[1] = c
      BY <1>0 DEF Values
    <2>2. /\ Fits("update_mint_cap", <<c>>) /\ "update_mint_cap" \in Kinds \ {"none"}
          /\ "update_mint_cap" \notin Redemptions
      BY <2>1 DEF Fits, Kinds, Redemptions
    <2>3. QED
      BY <1>1, <1>4, <2>1, <2>2 DEF QueueMintCap
  <1>5. ASSUME NEW kind \in {"pause", "unpause"}, QueueEmergency(kind)
        PROVE  Opens
    <2>1. <<>> \in Seq(Values)
      OBVIOUS
    <2>2. Fits(kind, <<>>) /\ kind \in Kinds \ {"none"} /\ kind \notin Redemptions
      BY DEF Fits, Kinds, Redemptions
    <2>3. QED
      BY <1>1, <1>5, <2>1, <2>2 DEF QueueEmergency, OffersEmergency
  <1>6. ASSUME NEW kind \in {"freeze_account", "thaw_account"}, NEW a \in Accounts,
               QueueFreezeThaw(kind, a)
        PROVE  Opens
    <2>1. <<a>> \in Seq(Values) /\ <<a>>[1] = a
      BY <1>0 DEF Values
    <2>2. Fits(kind, <<a>>) /\ kind \in Kinds \ {"none"} /\ kind \notin Redemptions
      BY <2>1 DEF Fits, Kinds, Redemptions
    <2>3. QED
      BY <1>1, <1>6, <2>1, <2>2 DEF QueueFreezeThaw, OffersFreeze
  <1>7. ASSUME NEW d \in Destinations, NEW n \in Amounts, QueueMint(d, n)
        PROVE  Opens
    <2>1. <<d, n>> \in Seq(Values) /\ <<d, n>>[1] = d /\ <<d, n>>[2] = n
      <3>1. d \in Values /\ n \in Values
        BY DEF Values, Destinations
      <3>2. QED
        BY <3>1
    <2>2. /\ Fits("mint_tokens", <<d, n>>) /\ "mint_tokens" \in Kinds \ {"none"}
          /\ "mint_tokens" \notin Redemptions
      BY <2>1 DEF Fits, Kinds, Redemptions
    <2>3. QED
      BY <1>1, <1>7, <2>1, <2>2 DEF QueueMint, OffersMint
  <1>8. ASSUME NEW kind \in Redemptions, NEW r \in queue, QueueRedemption(kind, r)
        PROVE  Opens
    <2>1. <<r>> \in Seq(Values) /\ <<r>>[1] = r /\ r \in RedemptionRequest
      BY <1>0 DEF Values, PageTyped
    <2>2. Fits(kind, <<r>>) /\ kind \in Kinds \ {"none"}
      BY <2>1 DEF Fits, Kinds, Redemptions
    <2>3. QED
      BY <1>1, <1>8, <2>1, <2>2 DEF QueueRedemption, OffersRedemption
  <1>9. QED
    BY <1>2, <1>3, <1>4, <1>5, <1>6, <1>7, <1>8 DEF Queues

\* Known requests stay issued when the page learns of no new one.
LEMMA KnownStay ==
    ASSUME TypeOK, PageTyped, KnownAreIssued, [Next]_vars, queue' \subseteq queue,
           dialog'.kind \in Redemptions =>
              \/ dialog.kind \in Redemptions /\ dialog'.arg = dialog.arg
              \/ dialog'.arg[1] \in queue,
           \A i \in DOMAIN sends' : sends'[i].kind \in Redemptions =>
              \/ /\ i \in DOMAIN sends /\ sends[i].kind \in Redemptions
                 /\ sends'[i].arg = sends[i].arg
              \/ dialog.kind \in Redemptions /\ sends'[i].arg = dialog.arg
    PROVE  KnownAreIssued'
  <1>1. \A r \in RedemptionRequest : Issued(r) => IssuedIn(r, treasury', requests')
    BY IssuedStays
  <1>2. \A r \in queue : IssuedIn(r, treasury', requests')
    BY <1>1 DEF KnownAreIssued, PageTyped
  <1>3. dialog.kind \in Redemptions => IssuedIn(dialog.arg[1], treasury', requests')
    BY <1>1 DEF KnownAreIssued, PageTyped, Fits, Redemptions
  <1>4. ASSUME NEW i \in DOMAIN sends, sends[i].kind \in Redemptions
        PROVE  IssuedIn(sends[i].arg[1], treasury', requests')
    <2>1. sends[i].arg[1] \in RedemptionRequest
      <3>1. Signed(sends[i]) /\ sends[i].kind # "none"
        BY <1>4 DEF PageTyped, Redemptions
      <3>2. QED
        BY <1>4, <3>1 DEF Signed, Fits
    <2>2. Issued(sends[i].arg[1])
      BY <1>4 DEF KnownAreIssued
    <2>3. QED
      BY <1>1, <2>1, <2>2
  <1>5. (\A r \in queue : Issued(r))'
    BY <1>2 DEF Issued
  <1>6. (dialog.kind \in Redemptions => Issued(dialog.arg[1]))'
    <2>1. ASSUME dialog'.kind \in Redemptions PROVE Issued(dialog.arg[1])'
      <3>1. CASE dialog.kind \in Redemptions /\ dialog'.arg = dialog.arg
        BY <1>3, <3>1 DEF Issued
      <3>2. CASE dialog'.arg[1] \in queue
        BY <1>2, <3>2 DEF Issued
      <3>3. QED
        BY <2>1, <3>1, <3>2
    <2>2. QED
      BY <2>1
  <1>7. (\A i \in DOMAIN sends :
            sends[i].kind \in Redemptions => Issued(sends[i].arg[1]))'
    <2>1. SUFFICES ASSUME NEW i \in DOMAIN sends', sends'[i].kind \in Redemptions
                   PROVE  Issued(sends[i].arg[1])'
      OBVIOUS
    <2>2. CASE /\ i \in DOMAIN sends /\ sends[i].kind \in Redemptions
               /\ sends'[i].arg = sends[i].arg
      BY <1>4, <2>2 DEF Issued
    <2>3. CASE dialog.kind \in Redemptions /\ sends'[i].arg = dialog.arg
      BY <1>3, <2>3 DEF Issued
    <2>4. QED
      BY <2>1, <2>2, <2>3
  <1>8. QED
    BY <1>5, <1>6, <1>7 DEF KnownAreIssued

\* What is left of a transaction, and a step of it, are transactions.
LEMMA SendingTypes ==
    /\ Over \in Sending /\ Over.kind = "none" /\ Signed(Over)
    /\ \A t \in Sending : Signed(t) =>
          LET u == [t EXCEPT !.at = "flight"] IN
          u \in Sending /\ Signed(u) /\ u.kind = t.kind /\ u.arg = t.arg
  <1>1. <<>> \in Seq(Values) /\ "none" \in Kinds
    BY DEF Kinds
  <1>2. Over \in Sending /\ Over.kind = "none" /\ Signed(Over)
    BY <1>1 DEF Over, Sending, Signed
  <1>3. ASSUME NEW t \in Sending, Signed(t)
        PROVE  LET u == [t EXCEPT !.at = "flight"] IN
               u \in Sending /\ Signed(u) /\ u.kind = t.kind /\ u.arg = t.arg
    <2> DEFINE u == [t EXCEPT !.at = "flight"]
    <2>1. /\ u \in Sending
          /\ u.kind = t.kind /\ u.arg = t.arg /\ u.signer = t.signer
      BY DEF Sending
    <2> HIDE DEF u
    <2>2. Signed(u)
      BY <1>3, <2>1 DEF Signed
    <2>3. QED
      BY <2>1, <2>2 DEF u
  <1>4. QED
    BY <1>2, <1>3

\* A transaction on its way goes on, or is over.
LEMMA SendStepTypes ==
    ASSUME PageTyped, NEW i \in DOMAIN sends, NEW t,
           t = Over \/ t = [sends[i] EXCEPT !.at = "flight"],
           sends' = [sends EXCEPT ![i] = t]
    PROVE  /\ sends' \in Seq(Sending)
           /\ \A j \in DOMAIN sends' :
                 /\ Signed(sends'[j])
                 /\ sends'[j].kind \in Redemptions =>
                       /\ j \in DOMAIN sends /\ sends[j].kind \in Redemptions
                       /\ sends'[j].arg = sends[j].arg
  <1>1. /\ t \in Sending /\ Signed(t)
        /\ t.kind \in Redemptions => t.kind = sends[i].kind /\ t.arg = sends[i].arg
    <2>1. sends[i] \in Sending /\ Signed(sends[i])
      BY DEF PageTyped
    <2>2. "none" \notin Redemptions
      BY DEF Redemptions
    <2>3. QED
      BY <2>1, <2>2, SendingTypes
  <1>2. sends \in Seq(Sending) /\ \A j \in DOMAIN sends : Signed(sends[j])
    BY DEF PageTyped
  <1>3. /\ sends' \in Seq(Sending) /\ DOMAIN sends' = DOMAIN sends
        /\ \A j \in DOMAIN sends : sends'[j] = IF j = i THEN t ELSE sends[j]
    BY <1>1, <1>2
  <1>4. QED
    BY <1>1, <1>2, <1>3

\* A dialog that opens is over a listed request and in its panel.
LEMMA OpensKeepsPage ==
    ASSUME TypeOK, PageInv, Opens, [Next]_vars
    PROVE  PageInv'
  <1>1. PICK kind \in Kinds \ {"none"}, arg \in Seq(Values) :
           /\ Fits(kind, arg) /\ Visible(kind) /\ OpenDialog(kind, arg)
           /\ kind \in Redemptions => arg[1] \in queue
    BY DEF Opens
  <1>2. PageTyped /\ KnownAreIssued
    BY DEF PageInv
  <1>3. PageTyped' /\ dialog'.kind = kind /\ dialog'.arg = arg
    BY <1>1, <1>2, OpenedFits
  <1>4. UNCHANGED <<wallet, view, queue, sends>>
    BY <1>1 DEF OpenDialog
  <1>5. KnownAreIssued'
    BY <1>1, <1>2, <1>3, <1>4, KnownStay
  <1>6. DialogShown'
    BY <1>1, <1>3, <1>4 DEF DialogShown, Visible
  <1>7. QED
    BY <1>3, <1>5, <1>6 DEF PageInv

\* A dialog that is closed, confirmed, or answered.
LEMMA DialogStepsKeepPage ==
    ASSUME TypeOK, PageInv, CloseDialog \/ Confirm, [Next]_vars
    PROVE  PageInv'
  <1>1. PageTyped /\ KnownAreIssued /\ DialogShown
    BY DEF PageInv
  <1>2. /\ NoDialog \in Dialog /\ NoDialog.kind = "none"
        /\ Fits(NoDialog.kind, NoDialog.arg) /\ "none" \notin Redemptions
    <2>1. /\ NoDialog.kind = "none" /\ NoDialog.arg = <<>> /\ NoDialog.send = 0
          /\ "none" \in Kinds /\ <<>> \in Seq(Values) /\ "none" \notin Redemptions
      BY DEF NoDialog, Kinds, Redemptions
    <2>2. QED
      BY <2>1 DEF NoDialog, Dialog, Fits
  <1>3. CASE CloseDialog
    <2>1. dialog' = NoDialog /\ UNCHANGED <<wallet, view, queue, sends>>
      BY <1>3 DEF CloseDialog
    <2>2. PageTyped'
      BY <1>1, <1>2, <2>1 DEF PageTyped
    <2>3. KnownAreIssued'
      BY <1>1, <1>2, <2>1, KnownStay
    <2>4. QED
      BY <1>2, <2>1, <2>2, <2>3 DEF PageInv, DialogShown
  <1>4. CASE Confirm
    <2> DEFINE t == [kind |-> dialog.kind, arg |-> dialog.arg, signer |-> wallet,
                     at |-> "wallet"]
    <2>1. /\ dialog.kind # "none" /\ sends' = Append(sends, t)
          /\ dialog' = [dialog EXCEPT !.send = Len(sends')]
          /\ UNCHANGED <<wallet, view, queue>>
      BY <1>4 DEF Confirm
    <2>2. wallet \in Keys
      BY <1>1, <2>1 DEF DialogShown, Visible, Shown, PageTyped
    <2>3. t \in Sending /\ Signed(t) /\ t.kind = dialog.kind /\ t.arg = dialog.arg
      BY <1>1, <2>2 DEF PageTyped, Dialog, Sending, Signed
    <2> HIDE DEF t
    <2>4. sends \in Seq(Sending) /\ \A i \in DOMAIN sends : Signed(sends[i])
      BY <1>1 DEF PageTyped
    <2>5. /\ sends' \in Seq(Sending) /\ Len(sends') \in Nat
          /\ \A i \in DOMAIN sends' :
                \/ i \in DOMAIN sends /\ sends'[i] = sends[i]
                \/ sends'[i] = t
      BY <2>1, <2>3, <2>4
    <2>6. /\ dialog' \in Dialog
          /\ dialog'.kind = dialog.kind /\ dialog'.arg = dialog.arg
      BY <1>1, <2>1, <2>5 DEF PageTyped, Dialog
    <2>7. PageTyped'
      BY <1>1, <2>1, <2>3, <2>4, <2>5, <2>6 DEF PageTyped
    <2>8. KnownAreIssued'
      BY <1>1, <2>1, <2>3, <2>5, <2>6, KnownStay
    <2>9. QED
      BY <1>1, <2>1, <2>6, <2>7, <2>8 DEF PageInv, DialogShown, Visible
  <1>5. QED
    BY <1>3, <1>4

\* Another wallet, and another treasury or none: the dialog stays in its panel
\* or goes with it.
LEMMA PanelStepsKeepPage ==
    ASSUME TypeOK, PageInv, [Next]_vars,
           (\E k \in Keys \cup {NoKey} : SwitchWallet(k)) \/ RefetchTreasury \/ RefetchFails
    PROVE  PageInv'
  <1>1. PageTyped /\ KnownAreIssued
    BY DEF PageInv
  <1>2. /\ wallet' \in Keys \cup {NoKey} /\ UNCHANGED <<queue, sends>>
        /\ dialog' = Kept(dialog, wallet', view')
    BY <1>1 DEF SwitchWallet, RefetchTreasury, RefetchFails, PageTyped
  <1>3. /\ dialog' \in Dialog /\ Fits(dialog'.kind, dialog'.arg)
        /\ dialog' = dialog \/ dialog'.kind = "none"
        /\ dialog'.kind = "none" \/ Shown(dialog'.kind, wallet', view')
    BY <1>1, <1>2, KeptDialog DEF PageTyped
  <1>4. "none" \notin Redemptions
    BY DEF Redemptions
  <1>5. PageTyped'
    BY <1>1, <1>2, <1>3 DEF PageTyped
  <1>6. KnownAreIssued'
    BY <1>1, <1>2, <1>3, <1>4, KnownStay
  <1>7. DialogShown'
    BY <1>3 DEF DialogShown, Visible
  <1>8. QED
    BY <1>5, <1>6, <1>7 DEF PageInv

\* The list of requests is what is open now, or nothing.
LEMMA ListStepsKeepPage ==
    ASSUME TypeOK, NoncesIssuedOnce, PageInv, [Next]_vars,
           RefetchRedemptions \/ RefetchRedemptionsFails
    PROVE  PageInv'
  <1>1. PageTyped /\ KnownAreIssued /\ DialogShown
    BY DEF PageInv
  <1>2. /\ queue' = requests \/ queue' = {}
        /\ UNCHANGED <<vars, wallet, view, dialog, sends>>
    <2>1. requests \subseteq RedemptionRequest
      BY DEF TypeOK
    <2>2. {DecodeRedemptionRequest(RequestData(r)) : r \in requests} = requests
      BY <2>1, RequestsAreRead
    <2>3. QED
      BY <2>2 DEF RefetchRedemptions, RefetchRedemptionsFails
  <1>3. \A r \in requests : Issued(r)
    BY DEF NoncesIssuedOnce, Issued, IssuedIn
  <1>4. UNCHANGED <<treasury, requests>>
    BY <1>2 DEF vars
  <1>5. PageTyped'
    BY <1>1, <1>2 DEF PageTyped, TypeOK
  <1>6. KnownAreIssued'
    BY <1>1, <1>2, <1>3, <1>4 DEF KnownAreIssued, Issued
  <1>7. QED
    BY <1>1, <1>2, <1>5, <1>6 DEF PageInv, DialogShown, Visible

\* A transaction is answered, lands, or is dropped.
LEMMA ChainStepsKeepPage ==
    ASSUME TypeOK, PageInv, ChainStep, [Next]_vars
    PROVE  PageInv'
  <1>1. PageTyped /\ KnownAreIssued /\ DialogShown
    BY DEF PageInv
  <1>2. \E i \in DOMAIN sends : \E t :
           /\ t = Over \/ t = [sends[i] EXCEPT !.at = "flight"]
           /\ sends' = [sends EXCEPT ![i] = t]
    <2>1. PICK i \in DOMAIN sends :
             \/ SendSucceeds(i) \/ (\E reached \in BOOLEAN : SendFails(i, reached))
             \/ Land(i) \/ Drop(i)
      BY DEF ChainStep
    <2>2. QED
      BY <2>1 DEF SendSucceeds, SendFails, Land, Drop
  <1>3. /\ UNCHANGED <<wallet, view, queue>>
        /\ \/ dialog' = NoDialog \/ dialog' = dialog
           \/ dialog' = [dialog EXCEPT !.send = 0]
    BY DEF ChainStep, SendSucceeds, SendFails, Land, Drop
  <1>4. /\ dialog' \in Dialog /\ Fits(dialog'.kind, dialog'.arg)
        /\ \/ dialog'.kind = "none"
           \/ dialog'.kind = dialog.kind /\ dialog'.arg = dialog.arg
    <2>1. NoDialog \in Dialog /\ NoDialog.kind = "none" /\ Fits(NoDialog.kind, NoDialog.arg)
      <3>1. /\ NoDialog.kind = "none" /\ NoDialog.arg = <<>> /\ NoDialog.send = 0
            /\ "none" \in Kinds /\ <<>> \in Seq(Values) /\ "none" \notin Redemptions
        BY DEF NoDialog, Kinds, Redemptions
      <3>2. QED
        BY <3>1 DEF NoDialog, Dialog, Fits
    <2>2. dialog \in Dialog /\ Fits(dialog.kind, dialog.arg)
      BY <1>1 DEF PageTyped
    <2>3. CASE dialog' = [dialog EXCEPT !.send = 0]
      <3>1. dialog' \in Dialog /\ dialog'.kind = dialog.kind /\ dialog'.arg = dialog.arg
        BY <2>2, <2>3 DEF Dialog
      <3>2. QED
        BY <2>2, <3>1
    <2>4. QED
      BY <1>3, <2>1, <2>2, <2>3
  <1>5. /\ sends' \in Seq(Sending)
        /\ \A j \in DOMAIN sends' :
              /\ Signed(sends'[j])
              /\ sends'[j].kind \in Redemptions =>
                    /\ j \in DOMAIN sends /\ sends[j].kind \in Redemptions
                    /\ sends'[j].arg = sends[j].arg
    BY <1>1, <1>2, SendStepTypes
  <1>6. PageTyped'
    BY <1>1, <1>3, <1>4, <1>5 DEF PageTyped
  <1>7. KnownAreIssued'
    <2>1. "none" \notin Redemptions
      BY DEF Redemptions
    <2>2. QED
      BY <1>1, <1>3, <1>4, <1>5, <2>1, KnownStay
  <1>8. DialogShown'
    BY <1>1, <1>3, <1>4 DEF DialogShown, Visible
  <1>9. QED
    BY <1>6, <1>7, <1>8 DEF PageInv

LEMMA ConsoleInitInv == ConsoleInit => PageInv
  <1> SUFFICES ASSUME ConsoleInit PROVE PageInv
    OBVIOUS
  <1>1. /\ NoDialog.kind = "none" /\ NoDialog.arg = <<>> /\ NoDialog.send = 0
        /\ "none" \in Kinds /\ "none" \notin Redemptions /\ <<>> \in Seq(Values)
        /\ <<>> \in Seq(Sending)
    BY DEF NoDialog, Kinds, Redemptions
  <1>2. NoDialog \in Dialog /\ Fits(NoDialog.kind, NoDialog.arg)
    BY <1>1 DEF NoDialog, Dialog, Fits
  <1>3. wallet = NoKey /\ queue = {} /\ dialog = NoDialog /\ sends = <<>>
    BY DEF ConsoleInit
  <1>4. QED
    BY <1>1, <1>2, <1>3 DEF PageInv, PageTyped, KnownAreIssued, DialogShown

LEMMA ConsoleKeepsPage ==
    ASSUME TypeOK, NoncesIssuedOnce, PageInv, [ConsoleNext]_consoleVars
    PROVE  PageInv'
  <1>1. [Next]_vars
    BY ConsoleIsAStep DEF PageInv
  <1>2. CASE UNCHANGED pageVars
    <2>1. UNCHANGED <<wallet, view, queue, dialog, sends>>
      BY <1>2 DEF pageVars
    <2>2. PageTyped /\ KnownAreIssued /\ DialogShown
      BY DEF PageInv
    <2>3. PageTyped' /\ DialogShown'
      BY <2>1, <2>2 DEF PageTyped, DialogShown, Visible
    <2>4. KnownAreIssued'
      BY <1>1, <2>1, <2>2, KnownStay
    <2>5. QED
      BY <2>3, <2>4 DEF PageInv
  <1>3. CASE PageStep
    <2>1. CASE Queues
      BY <1>1, <2>1, QueueOpens, OpensKeepsPage DEF PageInv
    <2>2. CASE CloseDialog \/ Confirm
      BY <1>1, <2>2, DialogStepsKeepPage
    <2>3. CASE (\E k \in Keys \cup {NoKey} : SwitchWallet(k))
                 \/ RefetchTreasury \/ RefetchFails
      BY <1>1, <2>3, PanelStepsKeepPage
    <2>4. CASE RefetchRedemptions \/ RefetchRedemptionsFails
      BY <1>1, <2>4, ListStepsKeepPage
    <2>5. QED
      BY <1>3, <2>1, <2>2, <2>3, <2>4 DEF PageStep, Queues, Redemptions
  <1>4. CASE ChainStep
    BY <1>1, <1>4, ChainStepsKeepPage
  <1>5. QED
    BY <1>2, <1>3, <1>4 DEF ConsoleNext, Elsewhere, consoleVars

\* The admin page adds nothing to the program: with every wallet, dialog and
\* transaction in flight, what happens on chain is a run of the program, so
\* that everything proved of Spec holds under the console.
THEOREM ConsoleIsAClient == ConsoleSpec => Spec /\ []PageInv
  <1>1. ConsoleInit => Init /\ TypeOK /\ NoncesIssuedOnce /\ PageInv
    BY ConsoleInitInv, InitTypeOK DEF ConsoleInit, Init, NoncesIssuedOnce
  <1>2. /\ TypeOK /\ NoncesIssuedOnce /\ PageInv /\ [ConsoleNext]_consoleVars
        => /\ [Next]_vars
           /\ TypeOK' /\ NoncesIssuedOnce' /\ PageInv'
    <2> SUFFICES ASSUME TypeOK, NoncesIssuedOnce, PageInv, [ConsoleNext]_consoleVars
                 PROVE  [Next]_vars /\ TypeOK' /\ NoncesIssuedOnce' /\ PageInv'
      OBVIOUS
    <2>1. [Next]_vars
      BY ConsoleIsAStep DEF PageInv
    <2>2. QED
      BY <2>1, StepTypeOK, StepNonces, ConsoleKeepsPage
  <1>3. QED
    BY <1>1, <1>2, PTL DEF ConsoleSpec, Spec

\* A dialog stays only where its panel is; and an approval or a cancellation,
\* shown or sent long ago, finds at its address the request it was made for or
\* none (findRedemptionPda, useStablecoinRole).
THEOREM ActsOnShown == ConsoleSpec => []ActsOnWhatWasShown
  <1>1. PageInv => ActsOnWhatWasShown
    <2> SUFFICES ASSUME PageInv PROVE ActsOnWhatWasShown
      OBVIOUS
    <2>1. PageTyped /\ KnownAreIssued /\ DialogShown
      BY DEF PageInv
    <2>2. dialog.kind \in Redemptions =>
             \A q \in requests : SameAddress(dialog.arg[1], q) => q = dialog.arg[1]
      BY <2>1 DEF KnownAreIssued, Issued, IssuedIn, SameAddress
    <2>3. \A i \in DOMAIN sends : sends[i].kind \in Redemptions =>
             \A q \in requests : SameAddress(sends[i].arg[1], q) => q = sends[i].arg[1]
      BY <2>1 DEF KnownAreIssued, Issued, IssuedIn, SameAddress
    <2>4. QED
      BY <2>1, <2>2, <2>3 DEF ActsOnWhatWasShown, DialogShown, Redemptions
  <1>2. QED
    BY <1>1, ConsoleIsAClient, PTL

\* A read by the SDK's client returns the accounts as they are, with a pending
\* admin and without (decodeTreasury, decodeRedemptionRequest).
THEOREM ReadsAreExact ==
    ConsoleSpec => [](/\ FetchTreasury = treasury
                      /\ \A r \in requests : DecodeRedemptionRequest(RequestData(r)) = r)
  <1>1. TypeOK => /\ FetchTreasury = treasury
                  /\ \A r \in requests : DecodeRedemptionRequest(RequestData(r)) = r
    BY TreasuryIsRead, RequestsAreRead DEF TypeOK, FetchTreasury
  <1>2. QED
    BY <1>1, ConsoleIsAClient, TypeCorrect, PTL

-----------------------------------------------------------------------------
(* What is offered is accepted.  As for the holders above: an instruction    *)
(* is its guard and a value for every variable, and an up-to-date page       *)
(* offers it only in a state with the guard.                                 *)

CanAcceptAdmin(new_admin) == treasury.pending_admin = new_admin

CanCancelPendingAdmin(admin) ==
    admin = treasury.admin /\ treasury.pending_admin # NoKey

CanPause(admin) == admin = treasury.admin /\ ~treasury.paused

CanUnpause(admin) == admin = treasury.admin /\ treasury.paused

CanMint(operator, a, n) ==
    /\ operator = treasury.operator
    /\ ~treasury.paused
    /\ n > 0
    /\ treasury.mint_cap > 0 => treasury.total_minted + n <= treasury.mint_cap
    /\ ~token[a].frozen
    /\ supply + n <= MaxU64
    /\ token[a].amount + n <= MaxU64
    /\ treasury.total_minted + n <= MaxU64

\* An instruction of the admin is its guard and a value for every variable.
LEMMA AdminGuards ==
    ASSUME NEW k
    PROVE  /\ AcceptAdmin(k) <=>
                 /\ CanAcceptAdmin(k)
                 /\ treasury' = [treasury EXCEPT !.admin = k, !.pending_admin = NoKey]
                 /\ UNCHANGED <<token, supply, requests, now, released, selfBurned>>
           /\ CancelPendingAdmin(k) <=>
                 /\ CanCancelPendingAdmin(k)
                 /\ treasury' = [treasury EXCEPT !.pending_admin = NoKey]
                 /\ UNCHANGED <<token, supply, requests, now, released, selfBurned>>
           /\ Pause(k) <=>
                 /\ CanPause(k)
                 /\ treasury' = [treasury EXCEPT !.paused = TRUE]
                 /\ UNCHANGED <<token, supply, requests, now, released, selfBurned>>
           /\ Unpause(k) <=>
                 /\ CanUnpause(k)
                 /\ treasury' = [treasury EXCEPT !.paused = FALSE]
                 /\ UNCHANGED <<token, supply, requests, now, released, selfBurned>>
  BY Zenon DEF AcceptAdmin, CanAcceptAdmin, CancelPendingAdmin,
     CanCancelPendingAdmin, Pause, CanPause, Unpause, CanUnpause

\* So is mint_tokens.
LEMMA MintGuard ==
    ASSUME NEW k, NEW a, NEW n
    PROVE  MintTokens(k, a, n) <=>
              /\ CanMint(k, a, n)
              /\ treasury' = [treasury EXCEPT !.total_minted = @ + n]
              /\ token' = [token EXCEPT ![a].amount = @ + n]
              /\ supply' = supply + n
              /\ UNCHANGED <<requests, now, released, selfBurned>>
  BY Zenon DEF MintTokens, CanMint

\* An up-to-date page offers accepting and cancelling an admin transfer and the
\* pause switch to a wallet for which every check of the instruction holds; and
\* the checks of an offered mint hold exactly when what was typed is a token
\* account, not frozen, and the counter of the treasury can take the amount: the
\* supply and the account then can, too (useStablecoinRole, mintCapProgress,
\* buildMintTokensIx, mint_tokens_handler).
Accepts ==
    view = [status |-> "ok", treasury |-> treasury] =>
        /\ Visible("accept_admin") => CanAcceptAdmin(wallet)
        /\ OffersTransfer("cancel_pending_admin") => CanCancelPendingAdmin(wallet)
        /\ OffersEmergency("pause") => CanPause(wallet)
        /\ OffersEmergency("unpause") => CanUnpause(wallet)
        /\ \A d \in Destinations, n \in Amounts :
              OffersMint(d, n) =>
                 (d \in Accounts /\ CanMint(wallet, d, n)
                  <=> /\ d \in Accounts /\ ~token[d].frozen
                      /\ treasury.total_minted + n <= MaxU64)

THEOREM OffersAreAccepted ==
    ASSUME IsFiniteSet(Accounts)
    PROVE  ConsoleSpec => []Accepts
  <1>1. TypeOK /\ SupplyAccounted /\ BalancesBounded => Accepts
    <2>1. SUFFICES ASSUME TypeOK, SupplyAccounted, BalancesBounded,
                          view = [status |-> "ok", treasury |-> treasury]
                   PROVE  Accepts
      BY DEF Accepts
    <2>2. view.status = "ok" /\ view.treasury = treasury
      BY <2>1
    <2>3. Visible("accept_admin") => CanAcceptAdmin(wallet)
      BY <2>2 DEF Visible, Shown, OfRole, CanAcceptAdmin
    <2>4. OffersTransfer("cancel_pending_admin") => CanCancelPendingAdmin(wallet)
      BY <2>2 DEF OffersTransfer, Visible, Shown, OfRole, CanCancelPendingAdmin
    <2>5. OffersEmergency("pause") => CanPause(wallet)
      BY <2>2 DEF OffersEmergency, Visible, Shown, OfRole, CanPause
    <2>6. OffersEmergency("unpause") => CanUnpause(wallet)
      BY <2>2 DEF OffersEmergency, Visible, Shown, OfRole, CanUnpause
    <2>7. ASSUME NEW d \in Accounts, NEW n \in Amounts, OffersMint(d, n),
                 ~token[d].frozen, treasury.total_minted + n <= MaxU64
          PROVE  CanMint(wallet, d, n)
      <3>1. /\ wallet = treasury.operator /\ ~treasury.paused /\ n # 0
            /\ ~WouldExceedCap(treasury, n)
        BY <2>2, <2>7 DEF OffersMint, Visible, Shown, OfRole
      <3>2. /\ n \in Nat /\ supply \in Nat /\ selfBurned \in Nat
            /\ token[d].amount \in Nat
            /\ treasury.total_minted \in Nat /\ treasury.total_burned \in Nat
            /\ treasury.mint_cap \in Nat /\ MaxU64 \in Nat
        BY <2>1, BalancesType, NumberAssumption DEF TypeOK, Treasury, U64
      <3>3. treasury.mint_cap > 0 => treasury.total_minted + n <= treasury.mint_cap
        BY <3>1, <3>2 DEF WouldExceedCap, Capped
      <3>4. supply + n <= MaxU64
        BY <2>1, <2>7, <3>2 DEF SupplyAccounted
      <3>5. token[d].amount + n <= MaxU64
        <4>1. token[d].amount <= supply
          BY <2>1 DEF BalancesBounded
        <4>2. QED
          BY <3>2, <3>4, <4>1
      <3>6. QED
        BY <2>7, <3>1, <3>2, <3>3, <3>4, <3>5 DEF CanMint
    <2>8. ASSUME NEW d, NEW n, CanMint(wallet, d, n)
          PROVE  ~token[d].frozen /\ treasury.total_minted + n <= MaxU64
      BY <2>8 DEF CanMint
    <2>9. QED
      BY <2>3, <2>4, <2>5, <2>6, <2>7, <2>8 DEF Accepts
  <1>2. QED
    BY <1>1, ConsoleIsAClient, TypeCorrect, SupplyCorrect, BalancesInSupply, PTL
=============================================================================

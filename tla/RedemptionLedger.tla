-------------------------- MODULE RedemptionLedger --------------------------
(***************************************************************************)
(* What the stablecoin program promises about redemptions, without         *)
(* accounts, keys, freezing or delegation: numbered requests, each of      *)
(* which is burned once or withdrawn once, and counters that record it.    *)
(***************************************************************************)
EXTENDS Integers

CONSTANT Limit      \* the largest value of a counter

VARIABLES
    open,       \* the open requests, [nonce, amount]
    nonce,      \* the number of the next request
    minted,     \* all tokens ever minted
    burned      \* all tokens ever redeemed

ledgerVars == <<open, nonce, minted, burned>>

LedgerInit ==
    /\ open = {}
    /\ nonce = 0
    /\ minted = 0
    /\ burned = 0

Mint ==
    /\ \E n \in 1 .. Limit :
          /\ minted + n <= Limit
          /\ minted' = minted + n
    /\ UNCHANGED <<open, nonce, burned>>

Request ==
    /\ nonce < Limit
    /\ \E n \in 1 .. Limit : open' = open \cup {[nonce |-> nonce, amount |-> n]}
    /\ nonce' = nonce + 1
    /\ UNCHANGED <<minted, burned>>

\* Redeeming takes exactly one request off the ledger and burns its amount.
Redeem ==
    /\ \E r \in open :
          /\ burned + r.amount <= minted
          /\ burned' = burned + r.amount
          /\ open' = open \ {r}
    /\ UNCHANGED <<nonce, minted>>

Withdraw ==
    /\ \E r \in open : open' = open \ {r}
    /\ UNCHANGED <<nonce, minted, burned>>

LedgerNext == Mint \/ Request \/ Redeem \/ Withdraw

LedgerSpec == LedgerInit /\ [][LedgerNext]_ledgerVars
=============================================================================

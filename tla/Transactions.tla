---------------------------- MODULE Transactions ----------------------------
(***************************************************************************)
(* The proven transactions users submit, reduced to what the block         *)
(* producer inspects (crates/block-producer/src/domain/transaction.rs).    *)
(* A nullifier is identified with the note it spends and a state           *)
(* commitment with a number, 0 being the commitment of an account that     *)
(* does not exist yet.  Transaction ids are numbers because the mempool    *)
(* walks them in the order of its BTreeSets.                               *)
(***************************************************************************)
EXTENDS Naturals

CONSTANTS
    Account,        \* account ids
    Note,           \* note ids (and their nullifiers)
    Transactions    \* transaction id -> contents

Tx == DOMAIN Transactions

account_id(t)       == Transactions[t].account
initial_state(t)    == Transactions[t].initial
final_state(t)      == Transactions[t].final
nullifiers(t)       == Transactions[t].consumes
output_note_ids(t)  == Transactions[t].creates
expires_at(t)       == Transactions[t].expires

(* Input notes that were unauthenticated when the transaction was proven.   *)
proven_unauthenticated(t) == Transactions[t].unauthenticated

(***************************************************************************)
(* What the store said about a transaction's inputs: the account's         *)
(* committed state, which unauthenticated notes it knows, and the chain    *)
(* height it reported with them.  `read_at' is the height the data was     *)
(* really read at; no code sees it, the properties do.                     *)
(***************************************************************************)
Authentication ==
    [state : Nat, notes : SUBSET Note, height : Nat, read_at : Nat]

(* Notes unauthenticated in the transaction and not found by the store.     *)
unauthenticated_notes(t, auth) == proven_unauthenticated(t) \ auth.notes

ASSUME TransactionsAssumption ==
    /\ Tx \subseteq Nat \ {0}
    /\ \A t \in Tx :
        /\ Transactions[t] \in
             [account : Account, initial : Nat, final : Nat \ {0},
              consumes : SUBSET Note, unauthenticated : SUBSET Note,
              creates : SUBSET Note, expires : Nat]
        /\ proven_unauthenticated(t) \subseteq nullifiers(t)
        /\ nullifiers(t) \cap output_note_ids(t) = {}
        \* A transaction updates its account or consumes a note.
        /\ initial_state(t) # final_state(t) \/ nullifiers(t) # {}
        \* An update increases the account's nonce, so that no state comes
        \* back: states are numbered in the order of their nonces.
        /\ initial_state(t) <= final_state(t)
=============================================================================

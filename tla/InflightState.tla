--------------------------- MODULE InflightState ---------------------------
(***************************************************************************)
(* The mempool's view of account states, nullifiers and notes of inflight  *)
(* transactions and of the most recent committed blocks                    *)
(* (crates/block-producer/src/mempool/inflight_state/).                    *)
(*                                                                         *)
(* An inflight state is a record with the fields of the Rust struct.  A    *)
(* delta is determined by its transaction, so transaction_deltas and the   *)
(* entries of committed_blocks are sets of transactions; accounts is total *)
(* and an account the Rust map does not hold has no states.                *)
(***************************************************************************)
EXTENDS Transactions, Sequences, FiniteSets

CONSTANTS
    num_retained_blocks,    \* committed blocks kept besides the inflight state
    expiration_slack        \* required distance between tip and expiration

ASSUME InflightStateAssumption ==
    num_retained_blocks \in Nat /\ expiration_slack \in Nat

(* OutputNoteState::Committed; an inflight note holds its transaction.      *)
Committed == 0

EmptyAccount == [states |-> <<>>, committed |-> 0]

InflightState_new(tip) ==
    [accounts           |-> [a \in Account |-> EmptyAccount],
     nullifiers         |-> {},
     output_notes       |-> [n \in {} |-> Committed],
     transaction_deltas |-> {},
     committed_blocks   |-> <<>>,
     chain_tip          |-> tip]

-----------------------------------------------------------------------------
(* InflightAccountState                                                     *)

uncommitted_count(acc) == Len(acc.states) - acc.committed

account_insert(acc, state, tx) ==
    [acc EXCEPT !.states = Append(@, [state |-> state, tx |-> tx])]

account_parent(acc) ==
    IF uncommitted_count(acc) = 0 THEN {} ELSE {acc.states[Len(acc.states)].tx}

current_state(acc) ==
    IF acc.states = <<>> THEN {} ELSE {acc.states[Len(acc.states)].state}

(* Mutant: the oldest states are taken off.                                 *)
account_revert_oldest(acc, n) ==
    [acc EXCEPT !.states = SubSeq(@, n + 1, Len(@))]

account_revert(acc, n) ==
    [acc EXCEPT !.states = SubSeq(@, 1, Len(@) - n)]

account_commit(acc, n) ==
    [acc EXCEPT !.committed = @ + n]

account_prune_committed(acc, n) ==
    [states |-> SubSeq(acc.states, n + 1, Len(acc.states)), committed |-> acc.committed - n]

(* How many of the transactions update account a.                           *)
Updates(txs, a) == Cardinality({t \in txs : account_id(t) = a})

-----------------------------------------------------------------------------
(* Mutant: off by one block.                                                *)
oldest_committed_state_early(s) == s.chain_tip - Len(s.committed_blocks) - 1

oldest_committed_state(s) == s.chain_tip - Len(s.committed_blocks)

(* The checks of verify_transaction in their order.                         *)
verify_transaction(s, t, auth) ==
    LET current == current_state(s.accounts[account_id(t)])
        known   == IF current = {} THEN {auth.state} ELSE current
    IN
    IF expires_at(t) <= s.chain_tip + expiration_slack THEN "Expired"
    ELSE IF auth.height < oldest_committed_state(s) THEN "StaleInputs"
    ELSE IF initial_state(t) \notin known THEN "IncorrectAccountInitialCommitment"
    ELSE IF nullifiers(t) \cap s.nullifiers # {} THEN "InputNotesAlreadyConsumed"
    ELSE IF output_note_ids(t) \cap DOMAIN s.output_notes # {} THEN "OutputNotesAlreadyExist"
    ELSE IF ~(unauthenticated_notes(t, auth) \subseteq DOMAIN s.output_notes)
         THEN "UnauthenticatedNotesNotFound"
    ELSE "Ok"

insert_transaction(s, t) ==
    [s EXCEPT
        !.transaction_deltas = @ \cup {t},
        !.accounts[account_id(t)] = account_insert(@, final_state(t), t),
        !.nullifiers = @ \cup nullifiers(t),
        !.output_notes = [n \in DOMAIN @ \cup output_note_ids(t) |->
                            IF n \in output_note_ids(t) THEN t ELSE @[n]]]

(* The uncommitted transactions a new transaction depends on.               *)
insert_transaction_parents(s, t, auth) ==
    account_parent(s.accounts[account_id(t)])
    \cup ({s.output_notes[n] : n \in unauthenticated_notes(t, auth)} \ {Committed})

-----------------------------------------------------------------------------
(* revert_transactions, with the asserts and unwraps it relies on.  Each    *)
(* transaction takes the newest state off its account, whichever that is.   *)
revert_transactions_expects(s, txs) ==
    /\ txs \subseteq s.transaction_deltas
    /\ \A a \in Account : Updates(txs, a) <= uncommitted_count(s.accounts[a])
    /\ \A t \in txs : nullifiers(t) \subseteq s.nullifiers
    /\ \A t \in txs : output_note_ids(t) \subseteq DOMAIN s.output_notes

state_revert_transactions(s, txs) ==
    [s EXCEPT
        !.transaction_deltas = @ \ txs,
        !.accounts = [a \in Account |-> account_revert(@[a], Updates(txs, a))],
        !.nullifiers = @ \ UNION {nullifiers(t) : t \in txs},
        !.output_notes =
            [n \in DOMAIN @ \ UNION {output_note_ids(t) : t \in txs} |-> @[n]]]

-----------------------------------------------------------------------------
(* commit_block: the transactions become committed, the oldest retained     *)
(* block is pruned when there are too many, and the tip advances.           *)

prune_block(s) ==
    LET pruned == Head(s.committed_blocks) IN
    IF Len(s.committed_blocks) <= num_retained_blocks THEN s
    ELSE [s EXCEPT
            !.committed_blocks = Tail(@),
            !.accounts = [a \in Account |-> account_prune_committed(@[a], Updates(pruned, a))],
            !.nullifiers = @ \ UNION {nullifiers(t) : t \in pruned},
            !.output_notes =
                [n \in DOMAIN @ \ UNION {output_note_ids(t) : t \in pruned} |-> @[n]]]

(* Mutant: committed notes still name their transaction.                    *)
MarkCommitted_notes_inflight(s, txs) ==
    [s EXCEPT
        !.transaction_deltas = @ \ txs,
        !.accounts = [a \in Account |-> account_commit(@[a], Updates(txs, a))],
        !.committed_blocks = Append(@, txs)]

MarkCommitted(s, txs) ==
    LET notes == UNION {output_note_ids(t) : t \in txs} IN
    [s EXCEPT
        !.transaction_deltas = @ \ txs,
        !.accounts = [a \in Account |-> account_commit(@[a], Updates(txs, a))],
        !.output_notes = [n \in DOMAIN @ |-> IF n \in notes THEN Committed ELSE @[n]],
        !.committed_blocks = Append(@, txs)]

state_commit_block_expects(s, txs) ==
    /\ txs \subseteq s.transaction_deltas
    /\ \A a \in Account : Updates(txs, a) <= uncommitted_count(s.accounts[a])
    /\ \A t \in txs : output_note_ids(t) \subseteq DOMAIN s.output_notes
    /\ LET s1 == MarkCommitted(s, txs) IN
       Len(s1.committed_blocks) > num_retained_blocks =>
          \A a \in Account :
             Updates(Head(s1.committed_blocks), a) <= s1.accounts[a].committed

(* Mutant: the tip stays behind.                                            *)
state_commit_block_same_tip(s, txs) == prune_block(MarkCommitted(s, txs))

state_commit_block(s, txs) ==
    [prune_block(MarkCommitted(s, txs)) EXCEPT !.chain_tip = @ + 1]
=============================================================================

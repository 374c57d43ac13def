------------------------------- MODULE Mempool -------------------------------
(***************************************************************************)
(* The block producer's mempool (crates/block-producer/src/mempool/): the  *)
(* transaction graph, the batch graph, the inflight state, the expiration  *)
(* tracker, the block in progress and the event subscription, under one    *)
(* mutex.                                                                  *)
(*                                                                         *)
(* A mempool is a record with the fields of the Rust struct plus           *)
(* `panicked', which an expect, unwrap or assert that fails sets; each     *)
(* public method is an operator from mempool to mempool, the whole call    *)
(* under the lock.  A batch id is the hash of the batch's transaction ids, *)
(* so it is modelled as their sequence: a batch that is selected again     *)
(* with the same contents has the same id.                                 *)
(***************************************************************************)
EXTENDS InflightState, DependencyGraph, SequencesExt

CONSTANTS
    batch_budget,   \* [transactions, accounts, input_notes, output_notes]
    block_budget,   \* batches per block
    min_capacity    \* least capacity of a subscription's channel

ASSUME MempoolAssumption ==
    /\ batch_budget \in [transactions : Nat \ {0}, accounts : Nat \ {0},
                         input_notes : Nat, output_notes : Nat]
    /\ block_budget \in Nat \ {0}
    /\ min_capacity \in Nat \ {0}

(* expect(), unwrap() and assert!: without the condition the call panics.   *)
expect(m, condition, after) ==
    IF condition THEN after ELSE [m EXCEPT !.panicked = TRUE]

TxsOf(batches) == UNION {ToSet(b) : b \in batches}

-----------------------------------------------------------------------------
(* SubscriptionProvider.  Only the transactions of events matter here; the  *)
(* channel keeps what was sent and not yet received.                        *)

TransactionAdded(t) == [type |-> "added", txs |-> {t}, block |-> 0]
BlockCommitted(n, txs) == [type |-> "committed", txs |-> txs, block |-> n]
TransactionsReverted(txs) == [type |-> "reverted", txs |-> txs, block |-> 0]

SubscriptionProvider_new(tip) ==
    [chain_tip    |-> tip,
     inflight_txs |-> <<>>,     \* in the order they were added
     connected    |-> FALSE,    \* subscription is Some(sender)
     capacity     |-> 0,
     channel      |-> <<>>]

(* Mutant: an event that does not fit is skipped.                           *)
send_event_lossy(p, event) ==
    IF p.connected /\ Len(p.channel) < p.capacity
    THEN [p EXCEPT !.channel = Append(@, event)] ELSE p

(* A full channel ends the subscription; what was queued can still be read. *)
send_event(p, event) ==
    IF ~p.connected THEN p
    ELSE IF Len(p.channel) < p.capacity THEN [p EXCEPT !.channel = Append(@, event)]
    ELSE [p EXCEPT !.connected = FALSE]

transaction_added(p, t) ==
    send_event([p EXCEPT !.inflight_txs = Append(@, t)], TransactionAdded(t))

(* Mutant: the replay list only grows.                                      *)
inflight_txs_kept(p, txs) == p

inflight_txs_without(p, txs) ==
    LET kept[i \in 0 .. Len(p.inflight_txs)] ==
          IF i = 0 THEN <<>>
          ELSE LET t == p.inflight_txs[i]
               IN  IF t \in txs THEN kept[i - 1] ELSE Append(kept[i - 1], t)
    IN  [p EXCEPT !.inflight_txs = kept[Len(@)]]

block_committed(p, block_num, txs) ==
    send_event([inflight_txs_without(p, txs) EXCEPT !.chain_tip = block_num],
               BlockCommitted(block_num, txs))

txs_reverted(p, txs) ==
    send_event(inflight_txs_without(p, txs), TransactionsReverted(txs))

(* A new subscription replaces the old one and replays the inflight txs.    *)
provider_subscribe(p) ==
    LET wanted   == 2 * Len(p.inflight_txs)
        capacity == IF wanted > min_capacity THEN wanted ELSE min_capacity
    IN  [p EXCEPT !.connected = TRUE,
                  !.capacity = capacity,
                  !.channel = [i \in 1 .. Len(p.inflight_txs) |->
                                 TransactionAdded(p.inflight_txs[i])]]

-----------------------------------------------------------------------------
Mempool_new(tip) ==
    [transactions      |-> EmptyGraph,
     batches           |-> [inner |-> EmptyGraph,
                            transactions |-> [t \in {} |-> <<>>],
                            batches |-> {}],
     state             |-> InflightState_new(tip),
     expirations       |-> {},      \* tracked transactions
     chain_tip         |-> tip,
     block_in_progress |-> {},      \* Option: {} or {set of batch ids}
     subscription      |-> SubscriptionProvider_new(tip),
     panicked          |-> FALSE]

(* Mutants: one block late, one block early.                                *)
expirations_get_late(m, block) == {t \in m.expirations : expires_at(t) + 1 = block}
expirations_get_early(m, block) == {t \in m.expirations : expires_at(t) = block + 1}

(* TransactionExpirations::get: exactly the height, not the heights before. *)
expirations_get(m, block) == {t \in m.expirations : expires_at(t) = block}

-----------------------------------------------------------------------------
(* add_transaction                                                          *)

add_transaction_result(m, t, auth) == verify_transaction(m.state, t, auth)

transactions_insert(m, t, parents) ==
    LET g == insert_pending(m.transactions, t, parents) IN
    expect(m,
           /\ insert_pending_result(m.transactions, t, parents) = "Ok"
           /\ promote_pending_result(g, t) = "Ok",
           [m EXCEPT !.transactions = promote_pending(g, t)])

add_transaction(m, t, auth) ==
    LET parents == insert_transaction_parents(m.state, t, auth)
        tracked == ToSet(m.subscription.inflight_txs)
        m1 == [m EXCEPT !.state = insert_transaction(@, t),
                        !.subscription = transaction_added(@, t),
                        !.expirations = @ \cup {t}]
    IN  expect(m, t \notin tracked, transactions_insert(m1, t, parents))

-----------------------------------------------------------------------------
(* select_batch: take the first root again and again until the budget is    *)
(* exceeded or no root is left.                                             *)

Within(left, t) ==
    /\ left.transactions > 0
    /\ left.accounts >= 1
    /\ left.input_notes >= Cardinality(nullifiers(t))
    /\ left.output_notes >= Cardinality(output_note_ids(t))

check_then_subtract(left, t) ==
    [transactions |-> left.transactions - 1,
     accounts     |-> left.accounts - 1,
     input_notes  |-> left.input_notes - Cardinality(nullifiers(t)),
     output_notes |-> left.output_notes - Cardinality(output_note_ids(t))]

First(ids) == CHOOSE t \in ids : \A u \in ids : t <= u

transactions_select_batch(graph) ==
    LET pick[n \in 0 .. batch_budget.transactions] ==
          IF n = 0 THEN [g |-> graph, left |-> batch_budget, batch |-> <<>>, parents |-> {}]
          ELSE LET was  == pick[n - 1]
                   root == First(was.g.roots)
               IN  IF was.g.roots = {} \/ ~Within(was.left, root) THEN was
                   ELSE [g       |-> process_root(was.g, root),
                         left    |-> check_then_subtract(was.left, root),
                         batch   |-> Append(was.batch, root),
                         parents |-> was.parents \cup was.g.parents[root]]
    IN  pick[batch_budget.transactions]

batches_insert_expects(bs, batch, parents) ==
    LET outside == parents \ ToSet(batch) IN
    /\ ToSet(batch) \cap DOMAIN bs.transactions = {}
    /\ outside \subseteq DOMAIN bs.transactions
    /\ insert_pending_result(bs.inner, batch, {bs.transactions[t] : t \in outside}) = "Ok"

batches_insert(bs, batch, parents) ==
    LET outside == parents \ ToSet(batch) IN
    [inner        |-> insert_pending(bs.inner, batch, {bs.transactions[t] : t \in outside}),
     transactions |-> [t \in DOMAIN bs.transactions \cup ToSet(batch) |->
                         IF t \in ToSet(batch) THEN batch ELSE bs.transactions[t]],
     batches      |-> bs.batches \cup {batch}]

(* The batch select_batch returns; <<>> stands for None.                    *)
select_batch_result(m) == transactions_select_batch(m.transactions).batch

select_batch(m) ==
    LET selected == transactions_select_batch(m.transactions)
        m1 == [m EXCEPT !.transactions = selected.g]
    IN  IF selected.batch = <<>> THEN m1
        ELSE expect(m, batches_insert_expects(m.batches, selected.batch, selected.parents),
                    [m1 EXCEPT !.batches = batches_insert(@, selected.batch, selected.parents)])

-----------------------------------------------------------------------------
(* BatchGraph::remove_batches: drop batches and their descendants.          *)

(* Mutant: the index keeps the transactions of removed batches.             *)
WithoutBatches_stale_index(bs, inner, removed) ==
    [bs EXCEPT !.inner = inner, !.batches = @ \ removed]

WithoutBatches(bs, inner, removed) ==
    [inner        |-> inner,
     transactions |-> [t \in DOMAIN bs.transactions \ TxsOf(removed) |-> bs.transactions[t]],
     batches      |-> bs.batches \ removed]

remove_batches_removed(bs, ids) == purge_subgraphs_removed(bs.inner, ids)

remove_batches_expects(bs, ids) ==
    /\ purge_subgraphs_result(bs.inner, ids) = "Ok"
    /\ remove_batches_removed(bs, ids) \subseteq bs.batches

remove_batches(bs, ids) ==
    WithoutBatches(bs, purge_subgraphs(bs.inner, ids), remove_batches_removed(bs, ids))

requeue_transactions(m, txs) ==
    expect(m, revert_subgraphs_result(m.transactions, txs) = "Ok",
           [m EXCEPT !.transactions = revert_subgraphs(@, txs)])

(* Mutant: unknown batches are not expected.                                *)
rollback_batch_unchecked(m, batch) ==
    LET removed == remove_batches_removed(m.batches, {batch}) IN
    expect(m, remove_batches_expects(m.batches, {batch}),
           requeue_transactions([m EXCEPT !.batches = remove_batches(@, {batch})],
                                TxsOf(removed)))

(* A failed batch job: unknown batches are ignored.                         *)
rollback_batch(m, batch) ==
    LET removed == remove_batches_removed(m.batches, {batch}) IN
    IF batch \notin m.batches.batches THEN m
    ELSE expect(m, remove_batches_expects(m.batches, {batch}),
                requeue_transactions([m EXCEPT !.batches = remove_batches(@, {batch})],
                                     TxsOf(removed)))

(* A proven batch: unknown batches are ignored.                             *)
commit_batch(m, batch) ==
    IF batch \notin m.batches.batches THEN m
    ELSE expect(m, promote_pending_result(m.batches.inner, batch) = "Ok",
                [m EXCEPT !.batches.inner = promote_pending(@, batch)])

-----------------------------------------------------------------------------
(***************************************************************************)
(* select_block walks the roots in the order of the batch ids, which are   *)
(* hashes: the batches it can end up with are those that are closed under  *)
(* unselected parents and that either fill the block or leave no root.     *)
(***************************************************************************)
UnselectedParents(g, b) == g.parents[b] \ g.processed

BatchSelections(g) ==
    LET proven == g.vertices \ g.processed IN
    {S \in SUBSET proven :
        /\ Cardinality(S) <= block_budget
        /\ \A b \in S : UnselectedParents(g, b) \subseteq S
        /\ \/ Cardinality(S) = block_budget
           \/ \A b \in proven \ S : ~(UnselectedParents(g, b) \subseteq S)}

(* process_root for each of S, in dependency order.                         *)
ProcessRoots(graph, S) ==
    LET step[n \in 0 .. Cardinality(S)] ==
          IF n = 0 THEN graph
          ELSE LET g == step[n - 1]
                   b == CHOOSE r \in S : r \in g.roots
               IN  process_root(g, b)
    IN  step[Cardinality(S)]

select_block(m, S) ==
    expect(m, m.block_in_progress = {},
           [m EXCEPT !.batches.inner = ProcessRoots(@, S),
                     !.block_in_progress = {S}])

-----------------------------------------------------------------------------
(* Removing transactions for good, with all their descendants.  Batch       *)
(* mates that are not descendants go back into the queue.                   *)
revert_transactions(m, txs) ==
    LET reverted == purge_subgraphs_removed(m.transactions, txs)
        index    == m.batches.transactions
        ids      == {index[t] : t \in reverted \cap DOMAIN index}
        dropped  == remove_batches_removed(m.batches, ids)
        m1 == [m EXCEPT !.transactions = purge_subgraphs(@, txs),
                        !.batches = remove_batches(@, ids)]
        m2 == requeue_transactions(m1, TxsOf(dropped) \ reverted)
        m3 == [m2 EXCEPT !.expirations = @ \ reverted,
                         !.state = state_revert_transactions(@, reverted),
                         !.subscription = txs_reverted(@, reverted)]
    IN  expect(m,
               /\ purge_subgraphs_result(m.transactions, txs) = "Ok"
               /\ remove_batches_expects(m.batches, ids)
               /\ revert_transactions_expects(m.state, reverted)
               /\ reverted \subseteq ToSet(m.subscription.inflight_txs),
               m3)

(* The block in progress failed: nuke its transactions.                     *)
rollback_block(m) ==
    LET block == CHOOSE b \in m.block_in_progress : TRUE IN
    expect(m, /\ m.block_in_progress # {}
              /\ block \subseteq m.batches.batches,
           revert_transactions([m EXCEPT !.block_in_progress = {}], TxsOf(block)))

(* The block in progress was committed as block `block_num'; what expires   *)
(* at the new tip is reverted in the same call.                             *)
commit_block(m, block_num) ==
    LET block == CHOOSE b \in m.block_in_progress : TRUE
        txs   == TxsOf(block)
        m1 == [m EXCEPT
                 !.block_in_progress = {},
                 !.batches = WithoutBatches(@, prune_processed(@.inner, block), block),
                 !.transactions = prune_processed(@, txs),
                 !.expirations = @ \ txs,
                 !.state = state_commit_block(@, txs),
                 !.chain_tip = @ + 1,
                 !.subscription = block_committed(@, block_num, txs)]
    IN  expect(m,
               /\ m.block_in_progress # {}
               /\ prune_processed_result(m.batches.inner, block) = "Ok"
               /\ prune_processed_result(m.transactions, txs) = "Ok"
               /\ state_commit_block_expects(m.state, txs)
               /\ txs \subseteq ToSet(m.subscription.inflight_txs),
               revert_transactions(m1, expirations_get(m1, m1.chain_tip)))

-----------------------------------------------------------------------------
subscribe_result(m, tip) ==
    IF m.subscription.chain_tip = tip THEN "Ok" ELSE "ChainTipMismatch"

subscribe(m) == [m EXCEPT !.subscription = provider_subscribe(@)]
=============================================================================

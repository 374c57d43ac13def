---------------------------- MODULE BlockProducer ----------------------------
(***************************************************************************)
(* The block producer at work: gRPC handlers that authenticate             *)
(* transactions against the store and submit them, the batch builder's     *)
(* jobs, the block builder and the mempool's event subscriber, all sharing *)
(* one mempool and one store (crates/block-producer/src/{server,           *)
(* batch_builder,block_builder}).  Every await is a step boundary; the     *)
(* calls made under the mempool's lock are one step.                       *)
(***************************************************************************)
EXTENDS Mempool

CONSTANTS
    Worker,             \* slots of the batch builder's worker pool
    GenesisAccounts,    \* account states committed by the genesis block
    GenesisNotes,       \* notes committed by the genesis block
    MaxHeight,          \* bound on the chain's height
    MaxRequests,        \* bound on concurrent submissions
    MaxBatchFailures,   \* bound on failed batch jobs
    MaxBlockFailures,   \* bound on failed block constructions
    MaxLostReplies,     \* bound on apply_block calls whose reply is lost
    MaxRestarts,        \* bound on restarts of a healthy block producer
    MaxSubscriptions,   \* bound on subscriptions
    MaxFaults           \* bound on failures, lost replies and restarts together

ASSUME BlockProducerAssumption ==
    /\ GenesisAccounts \in [Account -> Nat]
    /\ GenesisNotes \subseteq Note
    /\ {MaxHeight, MaxRequests, MaxBatchFailures, MaxBlockFailures,
        MaxLostReplies, MaxRestarts, MaxSubscriptions, MaxFaults} \subseteq Nat

VARIABLES
    mempool,    \* SharedMempool
    requests,   \* submit_proven_transaction calls, at most one per transaction
    jobs,       \* BatchJobs, one per worker
    builder,    \* the block builder's build_block
    store,      \* the store: committed blocks and account states
    subscriber, \* the receiving end of the mempool subscription
    faults,     \* how often each bounded fault happened
    reused,     \* history: a stale job's id named a batch in the mempool
    overlap_missed  \* history: inputs older than the overlap were accepted

vars == <<mempool, requests, jobs, builder, store, subscriber, faults, reused,
          overlap_missed>>

-----------------------------------------------------------------------------
(* The store, as the block producer sees it.                                *)

height == Len(store.chain)
CommittedTxs == UNION ToSet(store.chain)
SpentNullifiers == UNION {nullifiers(t) : t \in CommittedTxs}
CommittedNotes == GenesisNotes \cup UNION {output_note_ids(t) : t \in CommittedTxs}

(* Applying the transactions in this order takes every account from the     *)
(* state the store has to the next.                                         *)
Applicable(order) ==
    LET Before(i) ==
          LET earlier == {j \in 1 .. i - 1 : account_id(order[j]) = account_id(order[i])}
          IN  IF earlier = {} THEN store.accounts[account_id(order[i])]
              ELSE final_state(order[CHOOSE j \in earlier : \A k \in earlier : k <= j])
    IN  \A i \in DOMAIN order : initial_state(order[i]) = Before(i)

Orders(txs) == {o \in [1 .. Cardinality(txs) -> txs] : Applicable(o) /\ ToSet(o) = txs}

(* What ProposedBlock::new requires of a block's transactions, given the    *)
(* block inputs of the store.                                               *)
Valid(txs) ==
    /\ \A t \in txs : expires_at(t) > height
    /\ \A t, u \in txs : t # u => /\ nullifiers(t) \cap nullifiers(u) = {}
                                 /\ output_note_ids(t) \cap output_note_ids(u) = {}
    /\ \A t \in txs :
         /\ nullifiers(t) \cap SpentNullifiers = {}
         /\ proven_unauthenticated(t)
              \subseteq CommittedNotes \cup UNION {output_note_ids(u) : u \in txs}
    /\ Orders(txs) # {}

StateAfter(txs, a) ==
    LET order == CHOOSE o \in Orders(txs) : TRUE
        mine  == {i \in DOMAIN order : account_id(order[i]) = a}
    IN  IF mine = {} THEN store.accounts[a]
        ELSE final_state(order[CHOOSE i \in mine : \A j \in mine : j <= i])

-----------------------------------------------------------------------------
NoRequest == [step |-> "none"]
IdleJob == [batch |-> <<>>, stale |-> FALSE]
IdleBuilder == [step |-> "idle", block |-> {}]
NoSubscriber == [step |-> "none", tip |-> 0, committed |-> {}, inflight |-> {}]

Init ==
    /\ store = [chain |-> <<>>, accounts |-> GenesisAccounts]
    /\ mempool = Mempool_new(0)
    /\ requests = [t \in Tx |-> NoRequest]
    /\ jobs = [w \in Worker |-> IdleJob]
    /\ builder = IdleBuilder
    /\ subscriber = NoSubscriber
    /\ faults = [batch |-> 0, block |-> 0, lost |-> 0, restart |-> 0, subscription |-> 0]
    /\ reused = FALSE
    /\ overlap_missed = FALSE

Fault(kind, bound) ==
    /\ faults[kind] < bound
    /\ kind # "subscription" =>
         faults.batch + faults.block + faults.lost + faults.restart < MaxFaults
    /\ faults' = [faults EXCEPT ![kind] = @ + 1]

(* A job is stale once the batch it works on has left the mempool.          *)
Tracking(js, m) ==
    [w \in Worker |-> [js[w] EXCEPT
        !.stale = @ \/ (js[w].batch # <<>> /\ js[w].batch \notin m.batches.batches)]]

(* A call on the locked mempool; js are the jobs after it.                  *)
Call(m, js) ==
    /\ mempool' = m
    /\ jobs' = Tracking(js, m)

-----------------------------------------------------------------------------
(* submit_proven_transaction: the store's inputs are read under its lock,   *)
(* the height is read once that lock is gone, the mempool comes last.       *)

(* AuthenticatedTransaction::new refuses a transaction with a spent nullifier. *)
AlreadySpent(t) == nullifiers(t) \cap SpentNullifiers # {}

ReadInputs(t) ==
    /\ requests[t] = NoRequest
    /\ Cardinality({u \in Tx : requests[u] # NoRequest}) < MaxRequests
    /\ requests' = IF AlreadySpent(t) THEN requests
                   ELSE [requests EXCEPT ![t] =
                          [step |-> "read",
                           auth |-> [state   |-> store.accounts[account_id(t)],
                                     notes   |-> proven_unauthenticated(t) \cap CommittedNotes,
                                     height  |-> 0,
                                     read_at |-> height]]]
    /\ UNCHANGED <<mempool, jobs, builder, store, subscriber, faults, reused, overlap_missed>>

ReportHeight(t) ==
    /\ requests[t].step = "read"
    /\ requests' = [requests EXCEPT ![t].step = "authenticated",
                                    ![t].auth.height = height]
    /\ UNCHANGED <<mempool, jobs, builder, store, subscriber, faults, reused, overlap_missed>>

AddTransaction(t) ==
    /\ requests[t].step = "authenticated"
    /\ LET auth == requests[t].auth IN
       IF add_transaction_result(mempool, t, auth) = "Ok"
       THEN /\ Call(add_transaction(mempool, t, auth), jobs)
            /\ overlap_missed' = (\/ overlap_missed
                                  \/ auth.read_at < oldest_committed_state(mempool.state))
       ELSE Call(mempool, jobs) /\ UNCHANGED overlap_missed
    /\ requests' = [requests EXCEPT ![t] = NoRequest]
    /\ UNCHANGED <<builder, store, subscriber, faults, reused>>

-----------------------------------------------------------------------------
(* BatchJob::build_batch.  Every failure on the way ends in rollback_batch. *)

SelectBatch(w) ==
    /\ jobs[w].batch = <<>>
    /\ select_batch_result(mempool) # <<>>
    /\ Call(select_batch(mempool),
            [jobs EXCEPT ![w].batch = select_batch_result(mempool)])
    /\ UNCHANGED <<requests, builder, store, subscriber, faults, reused, overlap_missed>>

Aliased(w) == jobs[w].stale /\ jobs[w].batch \in mempool.batches.batches

CommitBatch(w) ==
    /\ jobs[w].batch # <<>>
    /\ Call(commit_batch(mempool, jobs[w].batch), [jobs EXCEPT ![w] = IdleJob])
    /\ reused' = (reused \/ Aliased(w))
    /\ UNCHANGED <<requests, builder, store, subscriber, faults, overlap_missed>>

RollbackBatch(w) ==
    /\ jobs[w].batch # <<>>
    /\ Fault("batch", MaxBatchFailures)
    /\ Call(rollback_batch(mempool, jobs[w].batch), [jobs EXCEPT ![w] = IdleJob])
    /\ reused' = (reused \/ Aliased(w))
    /\ UNCHANGED <<requests, builder, store, subscriber, overlap_missed>>

-----------------------------------------------------------------------------
(* BlockBuilder::build_block                                                *)

SelectBlock ==
    /\ builder.step = "idle"
    /\ height < MaxHeight
    /\ \E S \in BatchSelections(mempool.batches.inner) :
         /\ Call(select_block(mempool, S), jobs)
         /\ builder' = [step |-> "selected", block |-> TxsOf(S)]
    /\ UNCHANGED <<requests, store, subscriber, faults, reused, overlap_missed>>

(* Inputs, proposal and proof succeed and the store applies the block.  The *)
(* reply reaches the builder, or the call fails although it was applied.    *)
ApplyBlock ==
    /\ builder.step = "selected"
    /\ Valid(builder.block)
    /\ store' = [chain    |-> Append(store.chain, builder.block),
                 accounts |-> [a \in Account |-> StateAfter(builder.block, a)]]
    /\ \/ builder' = [builder EXCEPT !.step = "applied"] /\ UNCHANGED faults
       \/ builder' = [builder EXCEPT !.step = "failed"] /\ Fault("lost", MaxLostReplies)
    /\ UNCHANGED <<mempool, requests, jobs, subscriber, reused, overlap_missed>>

(* A stage before apply_block fails: always for a block that is not valid.  *)
FailBlock ==
    /\ builder.step = "selected"
    /\ IF Valid(builder.block) THEN Fault("block", MaxBlockFailures) ELSE UNCHANGED faults
    /\ builder' = [builder EXCEPT !.step = "failed"]
    /\ UNCHANGED <<mempool, requests, jobs, store, subscriber, reused, overlap_missed>>

CommitBlock ==
    /\ builder.step = "applied"
    /\ Call(commit_block(mempool, height), jobs)
    /\ builder' = IdleBuilder
    /\ UNCHANGED <<requests, store, subscriber, faults, reused, overlap_missed>>

RollbackBlock ==
    /\ builder.step = "failed"
    /\ Call(rollback_block(mempool), jobs)
    /\ builder' = IdleBuilder
    /\ UNCHANGED <<requests, store, subscriber, faults, reused, overlap_missed>>

-----------------------------------------------------------------------------
(***************************************************************************)
(* The network transaction builder's subscription: it loads the state      *)
(* committed at the store's tip, then subscribes at that tip; a mismatch   *)
(* makes it start over.                                                    *)
(***************************************************************************)
LoadCommitted ==
    /\ subscriber.step = "none"
    /\ Fault("subscription", MaxSubscriptions)
    /\ subscriber' = [step |-> "loaded", tip |-> height,
                      committed |-> CommittedTxs, inflight |-> {}]
    /\ UNCHANGED <<mempool, requests, jobs, builder, store, reused, overlap_missed>>

Subscribe ==
    /\ subscriber.step = "loaded"
    /\ IF subscribe_result(mempool, subscriber.tip) = "Ok"
       THEN /\ Call(subscribe(mempool), jobs)
            /\ subscriber' = [subscriber EXCEPT !.step = "attached"]
       ELSE /\ Call(mempool, jobs)
            /\ subscriber' = NoSubscriber
    /\ UNCHANGED <<requests, builder, store, faults, reused, overlap_missed>>

(* The subscriber's view after an event.                                    *)
Seen(view, event) ==
    [view EXCEPT
       !.tip = IF event.type = "committed" THEN event.block ELSE @,
       !.committed = IF event.type = "committed" THEN @ \cup event.txs ELSE @,
       !.inflight = IF event.type = "added" THEN @ \cup event.txs ELSE @ \ event.txs]

Receive ==
    /\ subscriber.step = "attached"
    /\ mempool.subscription.channel # <<>>
    /\ Call([mempool EXCEPT !.subscription.channel = Tail(@)], jobs)
    /\ subscriber' = Seen(subscriber, Head(mempool.subscription.channel))
    /\ UNCHANGED <<requests, builder, store, faults, reused, overlap_missed>>

(* The stream ends once the mempool has dropped its sender and all that was *)
(* queued has been received.                                                *)
StreamEnds ==
    /\ subscriber.step = "attached"
    /\ ~mempool.subscription.connected
    /\ mempool.subscription.channel = <<>>
    /\ subscriber' = NoSubscriber
    /\ UNCHANGED <<mempool, requests, jobs, builder, store, faults, reused, overlap_missed>>

-----------------------------------------------------------------------------
(* BlockProducer::serve after a crash: the mempool, the jobs, the builder   *)
(* and the calls are gone and a new mempool starts at the store's tip.      *)
Restart ==
    /\ IF mempool.panicked THEN UNCHANGED faults ELSE Fault("restart", MaxRestarts)
    /\ mempool' = Mempool_new(height)
    /\ requests' = [t \in Tx |-> NoRequest]
    /\ jobs' = [w \in Worker |-> IdleJob]
    /\ builder' = IdleBuilder
    /\ subscriber' = NoSubscriber
    /\ reused' = FALSE
    /\ overlap_missed' = FALSE
    /\ UNCHANGED store

(* A panic of a builder task takes the block producer down.                 *)
Step ==
    \/ \E t \in Tx : ReadInputs(t) \/ ReportHeight(t) \/ AddTransaction(t)
    \/ \E w \in Worker : SelectBatch(w) \/ CommitBatch(w) \/ RollbackBatch(w)
    \/ SelectBlock \/ ApplyBlock \/ FailBlock \/ CommitBlock \/ RollbackBlock
    \/ LoadCommitted \/ Subscribe \/ Receive \/ StreamEnds

Next == (~mempool.panicked /\ Step) \/ Restart

(***************************************************************************)
(* The batch and the block builder tick for ever and their jobs end; users *)
(* need not submit anything and nothing has to fail.  This is weak         *)
(* fairness of a worker's and of the builder's steps with ENABLED spelled  *)
(* out: infinitely often there is nothing to do, or a step is taken.       *)
(***************************************************************************)
JobCanStep(w) == jobs[w].batch # <<>> \/ mempool.transactions.roots # {}
BuilderCanStep == builder.step # "idle" \/ height < MaxHeight

Fairness ==
    /\ \A w \in Worker : \/ []<>~JobCanStep(w)
                          \/ []<><<jobs'[w].batch # jobs[w].batch>>_vars
    /\ \/ []<>~BuilderCanStep
       \/ []<><<builder' # builder>>_vars

Spec == Init /\ [][Next]_vars
FairSpec == Spec /\ Fairness

-----------------------------------------------------------------------------
(* PROPERTIES                                                               *)

Tracked == Nodes(mempool.transactions)

Inputs == [step : {"read", "authenticated"}, auth : Authentication]

(* Every piece of state has the shape the code gives it; the batches in the *)
(* graphs and jobs are sequences of known transactions.                     *)
TypeOK ==
    /\ GraphType(mempool.transactions, Tx)
    /\ \A b \in Nodes(mempool.batches.inner) : b \in Seq(Tx) /\ b # <<>>
    /\ mempool.expirations \subseteq Tx
    /\ mempool.state.transaction_deltas \subseteq Tx
    /\ Cardinality(mempool.block_in_progress) <= 1
    /\ mempool.panicked \in BOOLEAN
    /\ requests \in [Tx -> Inputs \cup {NoRequest}]
    /\ \A w \in Worker : jobs[w].batch \in Seq(Tx) /\ jobs[w].stale \in BOOLEAN
    /\ builder \in [step : {"idle", "selected", "applied", "failed"}, block : SUBSET Tx]
    /\ store.chain \in Seq(SUBSET Tx) /\ height <= MaxHeight
    /\ store.accounts \in [Account -> Nat]
    /\ subscriber \in [step : {"none", "loaded", "attached"}, tip : Nat,
                       committed : SUBSET Tx, inflight : SUBSET Tx]

(* No expect, unwrap or assert of the mempool fails, whatever the order in  *)
(* which handlers, batch jobs and the block builder get its lock.           *)
NoPanic == ~mempool.panicked

(* The transaction graph, the state deltas, the expiration tracker and the  *)
(* subscription's replay list always hold the same transactions, although   *)
(* add, commit, rollback and expiry update each of them separately.         *)
TrackersAgree ==
    /\ mempool.state.transaction_deltas = Tracked
    /\ mempool.expirations = Tracked
    /\ ToSet(mempool.subscription.inflight_txs) = Tracked
    /\ Len(mempool.subscription.inflight_txs) = Cardinality(Tracked)

(* A transaction is processed in the transaction graph exactly when it is   *)
(* in a batch, it is in one batch only, and the batch graph's edges are     *)
(* those its transactions have across batches.                              *)
BatchesMatchTransactions ==
    LET bs == mempool.batches
        g  == mempool.transactions
    IN  /\ Nodes(bs.inner) = bs.batches
        /\ DOMAIN bs.transactions = g.processed
        /\ TxsOf(bs.batches) = g.processed
        /\ \A b \in bs.batches :
             /\ \A t \in ToSet(b) : bs.transactions[t] = b
             /\ bs.inner.parents[b] =
                  {bs.transactions[p] : p \in UNION {g.parents[t] : t \in ToSet(b)}} \ {b}

(* The batches the graph counts as selected are those of the block in       *)
(* progress, which is the block the builder holds.                          *)
BlockInProgressMatches ==
    /\ mempool.batches.inner.processed = UNION mempool.block_in_progress
    /\ (builder.step = "idle") <=> (mempool.block_in_progress = {})
    /\ builder.block = TxsOf(UNION mempool.block_in_progress)

(* The parts of the mempool tell the same story: what is tracked, and what  *)
(* is in which batch, whatever is added, dropped and rolled back.           *)
PartsAgree == TypeOK /\ TrackersAgree /\ BatchesMatchTransactions

(* Per account, the states are those of the retained committed transactions *)
(* followed by those of the inflight ones, each starting where the one      *)
(* before it ended: reverts that pop the newest state and prunes that drop  *)
(* the oldest never remove another transaction's state.                     *)
AccountChains ==
    \A a \in Account :
        LET acc     == mempool.state.accounts[a]
            txs(I)  == {acc.states[i].tx : i \in I}
            mine(T) == {t \in T : account_id(t) = a}
        IN  /\ acc.committed <= Len(acc.states)
            /\ txs(1 .. acc.committed) = mine(UNION ToSet(mempool.state.committed_blocks))
            /\ txs(acc.committed + 1 .. Len(acc.states)) = mine(Tracked)
            /\ \A i \in DOMAIN acc.states :
                 /\ acc.states[i].state = final_state(acc.states[i].tx)
                 /\ i > 1 => initial_state(acc.states[i].tx) = acc.states[i - 1].state

(* The nullifiers and notes of the inflight state are those of the inflight *)
(* and the retained committed transactions, with the right creators.        *)
NotesExact ==
    LET retained == UNION ToSet(mempool.state.committed_blocks)
        notes    == mempool.state.output_notes
    IN  /\ mempool.state.nullifiers = UNION {nullifiers(t) : t \in Tracked \cup retained}
        /\ DOMAIN notes = UNION {output_note_ids(t) : t \in Tracked \cup retained}
        /\ \A n \in DOMAIN notes :
             LET creators == {t \in Tracked : n \in output_note_ids(t)} IN
             notes[n] \in (IF creators = {} THEN {Committed} ELSE creators)

(* A batch without a proof always has a job that will commit or roll it     *)
(* back: no batch is in limbo.                                              *)
NoLimbo == \A b \in mempool.batches.inner.pending : \E w \in Worker : jobs[w].batch = b

(* No tracked transaction has expired at the mempool's tip, descendants of  *)
(* expired ones included.                                                   *)
NotExpired == \A t \in Tracked : expires_at(t) > mempool.chain_tip

(* Three copies of the chain tip and the store's agree, but for the block   *)
(* that was applied and not yet reported to the mempool.                    *)
ChainTipInSync ==
    LET tip == height - (IF builder.step = "applied" THEN 1 ELSE 0) IN
    {mempool.chain_tip, mempool.state.chain_tip, mempool.subscription.chain_tip} = {tip}

(* The inflight state is exactly what the tracked and the retained          *)
(* committed transactions make of it, at the store's tip, although commit,  *)
(* prune and revert each change it piece by piece.                          *)
InflightExact == AccountChains /\ NotesExact /\ ChainTipInSync

(* The block the mempool selects is one the store accepts.                  *)
BlockAccepted == builder.step = "selected" => Valid(builder.block)

(* With no lost reply, a selected block is valid as long as the inputs of   *)
(* every transaction really overlapped with the mempool's retained blocks.  *)
BlockAcceptedIfOverlapping ==
    faults.lost = 0 /\ ~overlap_missed => BlockAccepted

(* All of the mempool's invariants hold, and it does not panic, unless a    *)
(* job whose batch was dropped reported on a later batch of the same id.    *)
ConsistentUnlessReused ==
    \/ reused
    \/ /\ NoPanic /\ TrackersAgree /\ BatchesMatchTransactions
       /\ BlockInProgressMatches /\ AccountChains /\ NoLimbo

(* The view after one event after the other.                                *)
SeenAll(view, events) ==
    LET seen[i \in 0 .. Len(events)] == IF i = 0 THEN view ELSE Seen(seen[i - 1], events[i])
    IN  seen[Len(events)]

(* A subscriber that works off its channel arrives at the mempool's tip and *)
(* inflight transactions, with what the chain committed up to that tip,     *)
(* whenever it subscribed and whatever happened since, as long as the       *)
(* mempool heard of every block the store applied.                          *)
SubscriberInSync ==
    LET view == SeenAll(subscriber, mempool.subscription.channel) IN
    subscriber.step = "attached" /\ mempool.subscription.connected /\ faults.lost = 0 =>
        /\ view.inflight = Tracked
        /\ view.tip = mempool.subscription.chain_tip
        /\ view.committed = UNION {store.chain[i] : i \in 1 .. view.tip}

(* A transaction leaves the mempool only because it was committed, or with  *)
(* a failed block or an expired transaction it depends on, or in a restart: *)
(* failed batches and batch mates of expired transactions lose nothing.     *)
NothingLost ==
    [][LET g     == mempool.transactions
           gone  == Tracked \ Tracked'
           doomed == IF builder.step = "failed" THEN builder.block
                     ELSE {t \in Tracked : expires_at(t) = mempool'.chain_tip}
       IN  \/ gone \subseteq CommittedTxs \cup Reached(g, doomed, Nodes(g))
           \/ Restart]_vars

(* Every transaction in the mempool eventually leaves it: it is committed,  *)
(* reverted or expires, unless a reused batch id has made it panic.  After  *)
(* a lost reply nothing is said: the blocks the mempool then offers have a  *)
(* number that is taken, and while they are refused again and again another *)
(* transaction, submitted anew each time, may always be selected first.     *)
EveryTransactionResolved ==
    \A t \in Tx : (t \in Tracked) ~> (t \notin Tracked \/ faults.lost > 0 \/ reused)
=============================================================================

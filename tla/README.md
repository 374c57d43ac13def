# TLA+ models of the Miden node

This directory holds the formal models of the Miden node: the mempool and the two
builders of the block producer, the store's `apply_block`, its tables and its readers, the
network transaction builder, the life of a node on its data directory, the faucet and the
remote prover with its proxy. TLC checks them on small instances; TLAPS proves theorems about
the mempool's dependency graph, the store, the node, the faucet and the proxy for every value of
their constants.

    tlc -workers 4 -config MCBlockProducer.cfg MCBlockProducer
    tlapm DependencyGraphProofs.tla

`PROJECT.json` lists the components, the runs, a mutant of the code for every checked
property, the source lines behind every definition, the findings, the hazards and the
theorems.

## 1. The system

| part | source | state | operations | talks to |
|---|---|---|---|---|
| dependency graph | `block-producer/src/mempool/graph` | nodes, parents, children, pending, processed, roots | insert, promote, revert, prune, purge, process | called by the two graphs below |
| transaction and batch graphs | `mempool/transaction_graph.rs`, `batch_graph.rs` | a graph each, batch of each transaction | insert, select under a budget, requeue, remove, submit proof, select block | called by the mempool |
| inflight state | `mempool/inflight_state` | account chains, nullifiers, output notes, deltas, retained blocks, tip | add, commit, prune, revert | called by the mempool |
| expirations | `mempool/transaction_expiration.rs` | transactions by expiry height | insert, get, remove | called by the mempool |
| subscription | `mempool/subscription.rs` | channel, replay list, tip | subscribe, send event | network transaction builder |
| mempool | `mempool/mod.rs` | the above, tip, block in progress | add transaction, select / commit / roll back batch and block | shared behind one mutex |
| batch builder | `batch_builder` | pool of workers | select, prove, commit or roll back | mempool, store, prover |
| block builder | `block_builder` | none between blocks | select, build, apply, commit or roll back | mempool, store, prover |
| block producer server | `server/mod.rs`, `store/mod.rs` | none of its own | submit (store lookup, then mempool), subscribe, start | rpc, store |
| store state | `store/src/state.rs` | trees and chain behind a `RwLock`, writer mutex | `apply_block`, read endpoints | database, block files |
| database | `store/src/db` | SQLite tables, connection pool | transact, query, apply a block, sync, page, merge deltas | store state |
| settings and migrations | `store/src/db/migrations.rs`, `settings.rs` | schema version, migration hash | check, migrate, optimize, save | every opening of the database |
| genesis | `store/src/genesis` | none | configuration into the first block | bootstrap |
| block files | `store/src/blocks.rs` | one file per height | save, load | store state |
| network transaction state | `ntx-builder/src/state` | accounts with notes, queue, locks, inflight transactions, nullifier index | load, select candidate, update by event | store |
| network transaction builder | `ntx-builder/src/builder`, `transaction.rs` | running tasks | tick, event, join | mempool events, store, prover |
| rpc | `rpc/src/server` | none | forwards, refuses user updates of network accounts, other releases and long lists | store, block producer |
| node commands | `bin/node/src/commands` | data directory, barrier, set of tasks | bootstrap, start, supervise | all of the above |
| faucet minter | `bin/faucet/src/faucet` | account and prior states | mint a batch, end at a desync, start again | rpc |
| faucet server | `bin/faucet/src/server` | challenge cache, request channel | hand out, check and forget challenges, take requests | minter |
| remote prover proxy | `bin/remote-prover/src/proxy` | queue, list of workers, rate window | request, retry, health check, update of the list | provers |
| remote prover worker | `bin/remote-prover/src/api` | the lock of its prover | prove, report status | proxy |
| the rest | `proto`, `utils`, `remote-prover-client`, `bin/stress-test` | | conversions, logging, load generator | |

What is hard: the mempool's five parts are updated separately and must agree; jobs
report on batches that may be gone; inputs are read from the store in one step and used
in a later one; `apply_block` brings a block into files, database and memory from three
tasks; the network transaction builder follows a stream of events that lags behind the
store it also reads; clients piece the chain together from answers that skip blocks; the
minter and the proxy keep a copy of state that others change. Replies are lost, channels
fill up, handlers are dropped and processes restart. `PROJECT.json` lists these hazards with the line at which each bites.

What makes each part correct:

* **graph**: nothing is processed before its parents; whatever is ready is a root;
  unprocessed work always has a way on.
* **mempool**: its parts hold the same transactions; a transaction leaves only when it is
  committed or with something it depends on that failed or expired; no `expect` fails;
  selected blocks are valid; subscribers see what happened.
* **store**: whoever holds the read guard sees memory and database at the same block;
  replies tell the truth; files of committed heights hold the committed block; calls return.
* **network transaction builder**: its accounts and notes are what the events make of
  them; one task per account; locks are released; notes are consumed.
* **queries**: a client that follows the answers has exactly what the chain holds; merged
  deltas lead from one past state to another; pages and inputs put together from several
  queries fit together; a restart builds the same trees again.
* **node**: one genesis block whatever crashes; the next start accepts the database; the
  components agree on the tip; the node comes up.
* **faucet**: the minter stays in step with the node as long as the node keeps what it accepted;
  a challenge buys one request; clients get their tokens, through restarts where the node did not.
* **proxy**: the queue holds those who wait; a worker serves one request at a time and comes
  back; requests are answered.

## 2. Modules

| module | models | run by |
|---|---|---|
| `TaskOrder` | what the graph promises, with parents only | refinement target |
| `DependencyGraph` | operations of `DependencyGraph<K, V>` as operators on a record, with `GraphError` results and `debug_assert`s | |
| `DependencyGraphMachine` | every sequence of calls | `MCDependencyGraph` |
| `DependencyGraphProofs` | theorems about the machine | `tlapm` |
| `Transactions` | transactions as the mempool and the network transaction builder see them | |
| `InflightState` | `InflightState`, `InflightAccountState` | |
| `Mempool` | `Mempool`, both graphs, expirations, subscription, as operators | |
| `BlockProducer` | the processes around the mempool: requests, batch jobs, block builder, subscriber, restarts, and the store as they see it | `MCBlockProducer` |
| `StoreState` | `State`: `apply_block`, its tasks, four read endpoints, crash | `MCStoreState` |
| `Database` | the tables and the SQL of `store/src/db/sql` as operators on a record of tables | |
| `Sync` | the trees and MMR, and those who read in several requests: syncing client, pager of network notes, collector of batch or block inputs | `MCSync` |
| `NtxState` | `State` and `AccountState` of the network transaction builder | |
| `NtxBuilder` | its loop and tasks, with mempool and store as it sees them | `MCNtxBuilder` |
| `Genesis` | `GenesisConfig::into_state` and its errors, as operators | |
| `Node` | bootstrap, migrations, start and end of the components, retries, checkpoint | `MCNode` |
| `ChallengeCache` | `ChallengeCache` of the faucet's proof of work, as operators | |
| `Faucet` | web server, minter, and the node as they see it | `MCFaucet` |
| `ProverProxy` | the callbacks of a request, health check, updates of the pool, workers | `MCProverProxy` |
| `BlockProducerProofs` | what each mempool method does to a consistent mempool; theorems about the block producer | `tlapm` |
| `StoreStateProofs`, `SyncProofs`, `NodeProofs`, `FaucetProofs`, `ProverProxyProofs` | theorems about these modules (section 4) | `tlapm` |
| `BasicLemmas` | lemmas the proofs share; what each operation of the graph does to a sound graph | `tlapm` |

`BlockProducer` extends `Mempool`, which uses two instances of the graph's operators and
`InflightState`; `NtxBuilder` extends `NtxState`, `Sync` extends `Database`, `Node` extends
`Genesis` and `Faucet` extends `ChallengeCache`. `StoreState` shows that a request sees the
database of one block and that a block is applied as one step; `Sync` builds on that and
looks at contents. `Node` treats a block as one step and looks at what happens before. Data objects of the code are records
whose fields carry the code's names, methods are operators with the code's names, and an
action is what one process does while it holds a lock or between two awaits. Every
`expect`, `unwrap` and `assert` of the mempool and of the network state sets a flag
`panicked`; `NoPanic` says it stays down, and nothing but a restart follows a panic.

Abstractions: an account's commitment is its position in the account's history (0: the
account does not exist), a batch id is the sequence of its transactions (the code hashes
them, which has the same collisions for equal batches), a nullifier is the note it belongs
to, a block of `StoreState` is named after the call that brings it. Transaction ids are
numbers that need not follow the order of dependencies, since the code iterates over sets
of ids and ids are hashes. Proving, executing and proposing are one step that succeeds or
fails. Telemetry is left out. In `Sync` an account's state is a record of nonce, storage
slots, fungible balances and non-fungible assets, its commitment is that state, and a delta
is what the code's tables keep of it. In `Faucet` the account's state is the sequence of
transactions that made it (`<< >>`: the account file, unknown to the node), and a challenge
carries its age in place of its time stamp. In `ProverProxy` an age or number of failures
beyond the largest backoff is not told apart from it. In `Node` SQLite's `optimize` creates
its statistics table once, which is what increases the schema version.

`StoreState` distinguishes read endpoints by how they combine the three places: `sync`
(`get_batch_inputs` and similar: read guard over memory and database), `header`
(`get_block_header`: database, then proof from memory), `peaks`
(`get_current_blockchain_data`: guard, then a second guard or the database) and `block`
(`load_block`: memory tip, then file). The lock is tokio's: first come, first served, so
that a queued writer stops later readers.

## 3. Runs

Passing runs:

| run | instance | distinct states | shows |
|---|---|---|---|
| `dependency_graph` | 4 keys, any edges, symmetric | 6,600 | all calls, refused ones too: order, exact roots, no assert, never stuck; the graph implements `TaskOrder` |
| `block_producer` | 3 transactions: a parent of two, which expires first; batches of 2, blocks of 1 batch, 3 blocks, one failed batch, one failed block, one restart | 448,000 | `PartsAgree`: tracker by tracker the same transactions and batches; `InflightExact`: account chains, notes and tip are what the inflight transactions make of the chain; expiry, valid blocks, nothing lost, no panic |
| `block_producer_concurrent` | dependent pair, 2 workers, one failed batch or one lost reply, a subscriber with a channel of 2 | 414,000 | late reports do no harm unless the batch id was reused; a subscriber's view is the mempool's; every transaction leaves the mempool |
| `store_state` | 3 calls, 3 readers, one failure of each kind, crash | 1,800,000 | memory and database agree outside the write lock, replies are true, reads succeed, committed heights have their files |
| `store_state_returns` | 2 calls, 3 readers, invalid block, database error, dropped handler, crash | 360,000 | calls return, the chain only grows by blocks built on it |
| `ntx_builder` | 2 network accounts, one created on the way, 2 notes from 2 users, one failed task, one lost reply, one revert | 597,000 | `ViewMatchesEvents`: accounts and notes are what the events make of them; `SelectionSound`: locks are released, queue, locks and tasks agree, one task per account, no panic; every note is consumed |
| `sync` | 8 block contents, chains of 4 blocks, 5 readers, pages of 1, limit of 2, restarts, lost answers and failed pages at any time | 73,000 | `ClientFollowsChain`, `DeltaExact`, `MemoryReloads`, `AnswersFit`, and readers finish |
| `node` | 24 configurations, 3 deployments, 2 blocks, 2 crashes, one port taken, one overflow | 894,000 | `GenesisSound`, `RestartAccepted`, `ComponentsInSync`, the node comes up |
| `faucet` | 3 clients, 2 accounts, lifetime 1, batches and queue of 2, 2 prior states, one fault, account deployed or not | 340,000 | `MinterFollowsNode`, `ChallengesExact`, every client is served |
| `prover_proxy` | 2 requests, 2 workers, queue of 1, one retry, one fault | 210,000 | `QueueIntact`, `WorkersExact`, every admitted request is answered |

Properties that are conjunctions name their parts in the module, and `PROJECT.json` has a
mutant for each part that matters.

The bounds are named in the configurations. They are small, and chosen so that what is
hard happens: two states of an account and a note crossing batches (so that a batch has a
parent and a mate), a height at which each transaction expires, room for two blocks between
reading inputs and using them, retention of one block so that pruning happens, as many
failures as are needed for a retry; in `sync` an asset that leaves and comes back, a note
consumed between two pages and a reference block that is the latest one; in `node` two
directories for keys, so that a bootstrap is repeated with another configuration, and an
integer of 2 bits in place of 32, so that the backoff overflows; in `faucet` a lifetime of one
second, so that a challenge expires between check and use; in `prover_proxy` a queue shorter
than the number of requests. Each passing property also fails for a mutant of the
code under the same bounds, which shows that the case it is about is reached.

Violation runs. Each states what a comment of the code says and shows a behaviour of the code
that disagrees; `findings` quotes the line.

| run | property | what happens |
|---|---|---|
| `store_state_cancelled` | `MemoryMatchesDatabase` | the handler is dropped while the database commits |
| `faucet_desync` | `DesyncRecovered` | the node's answer to a mismatch does not contain the text `error_recovery` looks for: the minter ends although a prior state is the node's |

### Other disagreements

These behaviours are in the models too. The passing runs keep them out by a bound, or the
property names the exception; the change in the last column brings each one back.

| behaviour | source | where it shows |
|---|---|---|
| the report of a finished job is matched to a batch by its id, a hash of its transactions: the job of a dropped batch is taken for the job of its successor and an `expect` fails ("Such a child job should be ignored", `mempool/tests.rs:74-76`) | `mempool/mod.rs:294` | `NoPanic` under `Spec` with `MaxBatchFailures = 2`, `MaxFaults = 2`, `MaxLostReplies = 0` in `MCBlockProducerConcurrent.cfg` |
| `get_transaction_inputs` stamps inputs with a height read after them, so that inputs older than the overlap pass ("Here we just ensure that this authentication point is still within this overlap zone", `inflight_state/mod.rs:147`) and lead to a block the store refuses | `store/src/server/block_producer.rs:184` | the exception of `BlockAcceptedIfOverlapping`; check `BlockAccepted` in `MCBlockProducer.cfg` |
| the reply of a successful `apply_block` is lost, the block is rolled back and the mempool's "current block height of the chain" (`mempool/mod.rs:164`) stays behind | `block_builder/mod.rs:229` | `InflightExact` (its part `ChainTipInSync`) with `MaxLostReplies = 1` in `MCBlockProducer.cfg` |
| reverted transactions are handled in the order of ids; when a note's creator comes first the `unwrap` in the revert of its consumer fails ("Transactions can be reverted out of order", `state/account.rs:126`) | `ntx-builder/src/state/mod.rs:320` | `Transactions <- MCCreatorsFirst` and `Revertible = {2, 3, 4, 5, 6, 7}` in `MCNtxBuilder.cfg` |
| the queue entry of an account outlives the revert of its creation and fails the `expect` "queue account must be tracked" | `ntx-builder/src/state/mod.rs:305` | `SelectionSound` with `Revertible = {1, 2, 3, 4, 5, 6, 7}` in `MCNtxBuilder.cfg` |
| an account is fetched for a note before its creation is heard of: it is queued twice, and its note is lost when the creation's event replaces it | `ntx-builder/src/state/mod.rs:224` | `ViewMatchesEvents` with `NoteTarget <- MCOneNoteEach` in `MCNtxBuilder.cfg` |
| notes loaded at start are not in the nullifier index and stay available after they were consumed | `ntx-builder/src/state/mod.rs:93` | `ViewMatchesEvents` with `GenesisNotes = {1}` in `MCNtxBuilder.cfg` |
| a task whose accepted submission lost its reply is reported as failed after its event, and unlocks the account its successor works on; an account pruned in between is fetched again from a store that is ahead of the events, and an `expect` fails | `ntx-builder/src/builder/mod.rs:131` | the exception `NoReplyLost`; check `OneTaskPerAccount`, `AccountsMatchEvents`, `NotesMatchEvents` or `NoPanic` in `MCNtxBuilder.cfg` |
| notes are cut off in the order of nullifiers before they are shuffled "to prevent having a failing note always in front" (`transaction.rs:87`) | `ntx-builder/src/state/mod.rs:141` | `EveryNoteConsumed` with `UnviableNotes = {1}`, `MAX_NOTES_PER_TX = 1` in `MCNtxBuilder.cfg` |
| the file write of a rejected block is neither awaited nor aborted and may overwrite the committed block's file | `store/src/state.rs:193` | the exception of `FilesMatchDatabase` |
| a second read guard is requested while holding one, a queued writer makes both wait (no caller names a block number today, the interface allows it) | `store/src/state.rs:434` | a deadlock (and `ApplyReturns`) with `Endpoint = {"peaks"}` in `MCStoreStateReturns.cfg` |
| one task more than `MAX_IN_PROGRESS_TXS` runs | `ntx-builder/src/builder/mod.rs:92` | `AtCapacity` has the code's comparison |
| a retry after a failed connection takes another worker and overwrites the first one in the context, which is never given back ("set the worker as available", `proxy/mod.rs:325-326`); with a single worker the request waits for the worker it holds itself | `remote-prover/src/proxy/mod.rs:421` | `NoWorkerLost` in `MCProverProxy.cfg`; the exception `abandoned` of `WorkersExact` and `EveryRequestAnswered` |
| a health check that the backoff skips returns `Ok`, and the worker counts as healthy ("`Ok(())` if the worker is healthy and compatible", `worker.rs:164`); a busy worker may be offered again | `remote-prover/src/proxy/worker.rs:170` | `OfferedIsReady` in `MCProverProxy.cfg`; the exception `contended` of `WorkersExact` |
| a request is tried once more than `max_retries_per_request` says (`proxy/mod.rs:323`) | `remote-prover/src/proxy/mod.rs:490` | `FailToConnect` has the code's comparison |
| the length of the queue is checked before the request is enqueued, so that concurrent requests exceed the limit | `remote-prover/src/proxy/mod.rs:385` | `RequestFilter` and `Enqueue` are two steps |
| a worker that cannot be reached is added unavailable ("add it and mark it as available") | `remote-prover/src/proxy/mod.rs:138` | `NewWorker` |
| a challenge that expires between its check and the lock of the cache may be accepted twice, since the clean-up forgets it in between; a restart forgets all of them | `faucet/src/server/pow.rs:83` | the value `late` of `used`, which `ChallengesExact` leaves out |
| a full channel refuses a request although its challenge is spent | `faucet/src/server/get_tokens.rs:217` | `SubmitChallenge`; clients have to ask again |
| the answer of a node that does not know the account matches no prior state, so that a rollback could not be used after losing the first transaction, whatever the message | `faucet/src/faucet/mod.rs:362` | `RollbackPositions` |
| a minter started while its transactions are inflight starts from the committed state and ends with its first desync | `faucet/src/faucet/mod.rs:165` | the exception `behind` of `InStep` and `StateKept` |
| the backoff shifts a `u32` by the number of retries: it panics in debug builds and starts over in release builds ("max 30s") | `block-producer/src/server/mod.rs:91` | `Retried`, `Overflows` |
| the bundled node binds the block producer's port to choose it and releases it again ("Start listening on all gRPC urls so that inter-component connections can be created before each component is fully started up") | `node/src/commands/bundled.rs` | the second disjunct of `Bind` |
| the maintenance task may change the schema version that only `apply_migrations` saves | `store/src/server/db_maintenance.rs` | `RestartAccepted` rests on SQLite creating its statistics at the first `optimize`, at bootstrap |

So the passing runs are restricted as follows: `block_producer` has one worker and no lost
replies; `store_state` drops no handler; in `ntx_builder` the consumers of notes have the
smaller ids, no account creation is reverted (`Revertible`), no note is for an account whose
creation may not have been heard of, no note is there from the start and every note can be
consumed. A lost reply is part of `ntx_builder`: what holds in spite of it is the type
invariant, the queue, the release of locks and, as long as the builder does not panic, that notes are
consumed; the rest of its properties makes the exception `NoReplyLost`. The exceptions of the
block producer's, the faucet's and the proxy's properties are history variables, so that the
runs contain these behaviours and the properties say what still holds.

Deadlock is checked in every passing run but `store_state`, whose `peaks` reader can really
deadlock with a writer, `ntx_builder`, whose builder stops at a panic, and `sync`, `faucet` and `prover_proxy`, in which everything may be
done: the chain is at its bound and the readers have finished, the clients have their tokens,
the requests are answered.

### Fairness

* `BlockProducer`: each batch worker and the block builder keep taking steps while they
  have something to do. Both loops are driven by interval ticks that never stop, and proving
  jobs end with a proof or an error. Users need not submit and nothing has to fail. The
  formula spells out weak fairness with `[]<>` instead of `WF`, since computing `ENABLED` of
  these actions dominates TLC's time.
* `StoreState`: weak fairness of the handler's steps, of the tasks it spawns and of the
  readers: tokio polls a task whose wake-up is due. Only the steps that inject no fault are
  fair, so fairness never forces a failed write or a cancelled request.
* `Sync`: weak fairness of the loops of client, pager and collector, whose pages fail finitely
  often (a failure ends the builder, and a start loads from the first page); strong fairness of the
  client taking an answer and of the later queries of a collector, which lost replies and
  restarts of the store disable again and again: not all of them are lost.
* `Node`: weak fairness of the steps of running processes that inject no fault, and of
  starting what is down, as a service manager does. Nobody has to bootstrap, to submit or to
  produce a block.
* `Faucet`: weak fairness of the minter, the clean-up, the clock, the node's blocks and the
  restart of the process, since every mismatch ends it and nothing else leads back to service; a
  client keeps asking, with strong fairness of sending a challenge before it expires.
* `ProverProxy`: weak fairness of each request's task (connections and answers have
  timeouts), of the health check and of the clock. That a proof ends is not assumed, since the
  read timeout ends the request.
* `NtxBuilder`: weak fairness of each branch of the `select!` loop (its branches are polled
  in random order), of tasks and of block production; after a panic of nothing. It is stated of
  what an action does to one variable where no other action does that (only `ReceiveEvent`
  shortens the stream), and for ticks with `[]<>`, for the same reason as in `BlockProducer`.

## 4. Proofs

Each component's theorems are in a module of their own next to the component. All are for every value of the constants that satisfies the module's named
assumption: any number of calls, keys, requests, workers, configurations, any bound on faults.

| module | theorems (`Spec => []P` unless said otherwise) |
|---|---|
| `BasicLemmas` | lemmas only: least naturals (the induction step of many proofs), sequences, counting, sorting; what each graph method does to a sound graph |
| `DependencyGraphProofs` | `TypeOK`, `RootsExact`, `ProcessedInOrder`, `NeverStuck`; `Spec => ImplementsTaskOrder` |
| `BlockProducerProofs` | `PartsAgree`, `NotExpired`, `ConsistentUnlessReused`, `InflightExact` (with no lost reply and no panic; `AccountChains` and `NotesExact` always), `BlockAcceptedIfOverlapping`, `SubscriberInSync`; the action property `NothingLost`; with one worker `NoPanic` |
| `StoreStateProofs` | `TypeOK`, `ReplyMatchesState`; the action property `ChainExtends`; as long as no handler was dropped `MemoryMatchesDatabase`, `FilesMatchDatabase` and, without `load_block`, `ReadersServed` |
| `ProverProxyProofs` | `QueueIntact`, `WorkersExact` |
| `FaucetProofs` | `MinterFollowsNode`, `ChallengesExact` |
| `NodeProofs` | `GenesisSound`, `RestartAccepted`, `ComponentsInSync` |
| `SyncProofs` | `ClientFollowsChain`, `AnswersFit`, `MemoryReloads` |

Each proof has the same shape: an inductive invariant `Inv` (checked by TLC before it was
proved), `InvInit`, one lemma per action or per conjunct of `Inv` for the step, `Invariance`,
and the theorems from it. What the invariants need beyond the properties:

* **Graph.** That roots are exact after a revert needs that children mirror parents, since the
  code walks down the children and decides by the parents; that pruning leaves no dangling edge
  needs that processed nodes have processed parents. The walk over descendants is a closure in
  the model (`Reached`: the least set that contains the start and is closed under children), so
  that no induction over data is needed. `NeverStuck` needs that there is no cycle, stated
  without paths: every nonempty set of nodes has a member without parent in the set
  (`Acyclic`). Every step of `TaskOrder` preserves it, so the refinement is used in the proof.
* **Block producer.** The mempool is one value, and the proof is about its methods. `Sound`
  says what its parts have in common: both graphs are sound, the batches are a partition of the
  processed transactions and their edges those the transactions induce (`BatchesOK`), the states
  of an account are those of its retained and its inflight transactions, each depending on the
  one before (`ChainOK`), nullifiers and notes are those of these transactions, without overlap
  (`NotesAre`). `Consistent` adds that nothing has expired, which fails inside `commit_block`
  between the new tip and the reverts. There is one lemma per method (`AddOK`,
  `SelectBatchOK`, `RevertOK`, ...): from a consistent mempool to a consistent one and, where the code has
  an `expect`, that it is met. Two of them carry the weight. Committing takes transactions off
  with all they depend on and so moves the border between committed and inflight up each
  account's chain (`ChainCommit`); reverting takes them off with all that depend on them and so
  cuts the end of each chain (`ChainRevert`): the code only counts the transactions per account
  (`account_commit(n)`, `account_revert(n)`), and that the count hits the right ones is what
  these lemmas say. `RevertOK` shows that no batch is left with a part
  of its transactions: those that hold a reverted one are dissolved with all that depend on
  them, and their other transactions wait again. `Undisturbed` relates the jobs to the pending batches and
  the block in progress to the processed ones; it holds until a stale job's id names a batch in
  the mempool (`reused`). The hypothesis is the code's own limit: the disagreements above list
  the panic that follows. With one worker it can be dropped (`NoReuse`): a second batch of the
  same id is selected only when the worker is idle, and then no stale job is left.
  `NothingLost` needs no hypothesis.
* **Block producer and chain.** A second invariant, `ChainInv`, says what the mempool and its
  subscriber have to do with the store's chain; it is preserved given the first one. Its steps
  are sorted by what they do to the transactions (`Kinds`: add, select, apply, commit, roll
  back, panic, restart, or nothing), so that each of its parts is proved once per kind. The
  tips and the retained blocks are the end of the chain (`Reported`); the block in progress is
  inflight and closed under dependencies (`SelectedClosed`); what an open request holds was true
  at the height at which it was read, and is still true but for later blocks (`RequestsFit`).
  From these, as long as every transaction was accepted with inputs no older than the oldest
  state the mempool retained, `Settled`: the nullifiers
  of what is inflight are unspent, its unauthenticated notes are committed or created by a
  parent, and each account's inflight transactions continue from the state the store has. That
  the selected block is valid then needs an order in which the store can apply its transactions:
  ranks on the transaction graph (which has no cycle) give one, by sorting. For the subscriber
  the invariant is the property with the channel in front of it: what the view becomes when the
  queued events are received (`CaughtUp`), and what was loaded before subscribing (`Loaded`);
  each event is one lemma, and the replay of `subscribe` an induction over the replay list.
  Both theorems keep the hypotheses of their properties: no reply of the store was lost, and for
  the block no transaction slipped through the overlap check.
* **Store.** `Exclusive` (who is behind the writer lock), `Handshake` (what the stage of a
  handler says about its database transaction, its channel and its file), `Chained` (the block
  of a call follows the chain it was checked against) hold whatever is dropped; `InStep` and
  `Filed` hold until a handler is dropped. The hypothesis `Undropped` is the code's own limit:
  the violation run shows what a dropped handler does. `ReadersServed` excludes `load_block`,
  whose file may be that of a refused block.
* **Proxy.** Between its look at the front and its dequeue a request is the front of the queue,
  which is what makes the three separate locks safe; a worker's holders are the requests whose
  context names it. Assumed: the workers given at start have different addresses and the
  largest backoff exponent is positive, as in the code.
* **Faucet.** The minter's state is the node's plus what it has not heard of (`InStep`), until the
  node drops transactions. From then on the node's state is a beginning of the minter's, and it
  does not go back further than the committed state (`Behind`); the states the minter keeps are
  beginnings of its own, each one transaction shorter than the next (`Steps`), so that the node's
  is among them (`StateKept`) unless the limit on prior states made it drop some (`forgotten`). The code for the
  rollback is part of `ErrorRecovery` and covered by the proof, but no step of the model takes it: `IsDesync`
  is false of the node's message, which is what the run `faucet_desync` shows. The cache's two counters
  are cardinalities of sets of challenges; removing one challenge lowers exactly one of each.
* **Node.** `Migration` says at which of the steps of `apply_migrations` the saved version may
  differ from the database's; `FilesWritten` which files exist at each step of bootstrap;
  `BuilderStarted` and `BuilderInSync` what the network transaction builder has heard of at each
  step of its start, which rests on the checkpoint. `Balanced` is proved by induction over the
  wallets of a configuration, as a least counterexample in the recursive function.

* **Sync.** `ChainOK`: the tables hold the blocks 0 to the tip, with every nullifier
  once, memory is what `load` would read, and the history ends
  with it. A block adds rows of its own height only and changes none but to mark notes consumed
  (`Grown`), so whatever a reader knows about lower heights survives it. The client's invariant
  is the property with the answer under way in front of it: an answer is exactly the difference
  between the client's block and the answer's header (`Answers`), and where an account in it is
  outdated by now, the account changed after that header. The note rows of an
  answer are a set, since the query orders nothing, and that nothing lies between two headers
  rests on the first matching block being the next header (`NextNotes`). Of the
  pages: what is collected lies before the token, what is not is consumed or at or after it. Of the
  inputs: what was read is at or below the reference block, and its history does not change.

Assumptions about constants are the `ASSUME`s of the component modules, which TLC evaluates:
sets are sets of the right kind, bounds are natural numbers, different control values differ.
`Transactions` assumes that a transaction never lowers the state of its account: the protocol
requires a transaction that changes its account to increase the nonce, so no commitment comes
back.

Left to TLC:

* liveness under fairness, everywhere;
* `NtxBuilder`: its invariants hold for the instances of the runs and not for all constants,
  since the code does not guarantee them (see the disagreements above: ids that put creators
  first, reverted creations, lost replies, notes heard of before their account);
* `DeltaExact` of `Sync`: a merged delta is a sum over a set and a fold over a sequence of
  rows, which needs induction over data.

## 5. Not modelled, and the plan

Not modelled:

* generated protocol code and field-by-field conversions (`proto`): no state and no decisions;
* what is inside proofs, Merkle trees, signatures and hashes: a proof succeeds or fails, a tree
  is the map it represents;
* the remote prover's client (a lazily connected stub) and the proxy's status page and metrics
  (copies that nothing reads back);
* logging, telemetry, command-line parsing, web pages, the load generator;
* SQL look-ups by a single key, which return a row or nothing (`select_notes_by_id`,
  `select_accounts_by_ids`); endpoints that only forward;
* the RPC server as a process: it keeps no state, so its rules are guards of the other models.

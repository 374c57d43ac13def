------------------------------ MODULE NtxBuilder ------------------------------
(***************************************************************************)
(* The network transaction builder (crates/ntx-builder/src/): a loop that  *)
(* selects an account with notes and spawns a task that builds and submits *)
(* a transaction, follows the mempool's events and collects finished       *)
(* tasks.  The mempool and the store are what the builder can see of them: *)
(* transactions are accepted, applied in blocks, reported and reverted;    *)
(* BlockProducer models them in detail.                                    *)
(***************************************************************************)
EXTENDS NtxState

CONSTANTS
    GenesisAccounts,        \* committed account states at the start
    GenesisNotes,           \* committed, unconsumed notes at the start
    UnviableNotes,          \* notes no transaction can consume
    MAX_IN_PROGRESS_TXS,    \* the limit on tasks
    MAX_NOTES_PER_TX,       \* notes of one network transaction
    Revertible,             \* bound: transactions that may be reverted
    MaxReverts,             \* bound on reverted sets of transactions
    MaxTaskFailures,        \* bound on tasks that fail before they submit
    MaxLostReplies          \* bound on accepted submissions reported as failed

ASSUME NtxBuilderAssumption ==
    /\ GenesisAccounts \in [Account -> Nat]
    /\ GenesisNotes \subseteq Note
    /\ UnviableNotes \subseteq Note
    /\ Revertible \subseteq Tx
    /\ {MAX_IN_PROGRESS_TXS, MaxReverts, MaxTaskFailures, MaxLostReplies} \subseteq Nat
    /\ MAX_NOTES_PER_TX \in Nat \ {0}

VARIABLES
    ntx,        \* State
    tasks,      \* the JoinSet of network transaction tasks
    subscribed, \* mempool events flow
    events,     \* the event stream: sent and not yet received
    pool,       \* transactions in the mempool, in the order they came
    store,      \* committed account states and transactions
    block,      \* transactions applied to the store, not yet reported
    seen,       \* history: the transactions of the events received so far
    faults      \* how often each bounded fault happened

chain == <<pool, store, block>>
vars == <<ntx, tasks, subscribed, events, seen, faults, chain>>

(* State::load runs before block production starts.                         *)
Init ==
    /\ store = [accounts |-> GenesisAccounts, txs |-> {}]
    /\ pool = <<>>
    /\ block = {}
    /\ events = <<>>
    /\ subscribed = FALSE
    /\ ntx = load(GenesisNotes \cap NetworkNote, GenesisAccounts)
    /\ tasks = <<>>
    /\ seen = [inflight |-> {}, committed |-> {}]
    /\ faults = [revert |-> 0, task |-> 0, lost |-> 0]

Fault(kind, bound) ==
    /\ faults[kind] < bound
    /\ faults' = [faults EXCEPT ![kind] = @ + 1]

-----------------------------------------------------------------------------
(* The mempool and the store.                                               *)

Inflight == ToSet(pool)
Live == Inflight \cup store.txs
Created(txs) == UNION {output_note_ids(t) : t \in txs}
Spent(txs) == UNION {nullifiers(t) : t \in txs}

CurrentState(a) ==
    LET mine == {i \in DOMAIN pool : account_id(pool[i]) = a} IN
    IF mine = {} THEN store.accounts[a] ELSE final_state(pool[Max(mine)])

Acceptable(t) ==
    /\ t \notin Live
    /\ initial_state(t) = CurrentState(account_id(t))
    /\ nullifiers(t) \cap Spent(Live) = {}
    /\ nullifiers(t) \subseteq GenesisNotes \cup Created(Live)
    /\ output_note_ids(t) \cap (GenesisNotes \cup Created(Live)) = {}

DependsOn(t, u) ==
    \/ account_id(t) = account_id(u) /\ initial_state(t) >= final_state(u)
    \/ nullifiers(t) \cap output_note_ids(u) # {}

Event(type, txs) == [type |-> type, txs |-> txs]
Send(event) == events' = IF subscribed THEN Append(events, event) ELSE events

(* The RPC lets users submit no update of an existing network account.      *)
UserTx == {t \in Tx : account_id(t) \notin NetworkAccounts \/ initial_state(t) = 0}
NetworkTx == Tx \ UserTx

Accept(t) ==
    /\ pool' = Append(pool, t)
    /\ Send(Event("added", {t}))
    /\ UNCHANGED <<store, block>>

SubmitUserTx(t) ==
    /\ t \in UserTx
    /\ Acceptable(t)
    /\ Accept(t)
    /\ UNCHANGED <<ntx, tasks, subscribed, seen, faults>>

(* Blocks are produced once the builder has passed the checkpoint.          *)
ApplyBlock ==
    /\ subscribed /\ block = {}
    /\ \E txs \in SUBSET Inflight \ {{}} :
         /\ \A t \in txs, u \in Inflight \ txs : ~DependsOn(t, u)
         /\ block' = txs
         /\ store' = [txs |-> store.txs \cup txs,
                      accounts |-> [a \in Account |->
                        Max({store.accounts[a]}
                            \cup {final_state(t) : t \in {u \in txs : account_id(u) = a}})]]
    /\ UNCHANGED <<ntx, tasks, subscribed, events, seen, faults, pool>>

CommitBlock ==
    /\ block # {}
    /\ pool' = SelectSeq(pool, LAMBDA t : t \notin block)
    /\ block' = {}
    /\ Send(Event("committed", block))
    /\ UNCHANGED <<ntx, tasks, subscribed, seen, faults, store>>

(* A failed block or an expiry, with everything that depends on it.         *)
RevertTransactions ==
    /\ subscribed /\ block = {}
    /\ Fault("revert", MaxReverts)
    /\ \E txs \in SUBSET (Inflight \cap Revertible) \ {{}} :
         /\ \A t \in Inflight \ txs, u \in txs : ~DependsOn(t, u)
         /\ pool' = SelectSeq(pool, LAMBDA t : t \notin txs)
         /\ Send(Event("reverted", txs))
    /\ UNCHANGED <<ntx, tasks, subscribed, seen, store, block>>

-----------------------------------------------------------------------------
(* serve_new: subscribe, which replays the mempool, pass the checkpoint and *)
(* enter the loop.                                                          *)
Subscribe ==
    /\ ~subscribed
    /\ subscribed' = TRUE
    /\ events' = [i \in DOMAIN pool |-> Event("added", {pool[i]})]
    /\ UNCHANGED <<ntx, tasks, seen, faults, chain>>

AtCapacity == Len(tasks) > MAX_IN_PROGRESS_TXS

(* interval.tick: at capacity nothing happens.                              *)
Tick ==
    LET selection == select_candidate(ntx) IN
    /\ subscribed /\ ~AtCapacity
    /\ ntx' = selection.s
    /\ \/ selection.found = {} /\ UNCHANGED tasks
       \/ \E a \in selection.found :
            LET acc == ntx.accounts[a] IN
            tasks' = Append(tasks,
                       [account |-> a,
                        state   |-> latest_account(acc),
                        notes   |-> TakeFirst(acc.available, MAX_NOTES_PER_TX),
                        result  |-> "running"])
    /\ UNCHANGED <<subscribed, events, seen, faults, chain>>

(* The history after an event.                                              *)
Seen(event) ==
    [inflight  |-> IF event.type = "added" THEN seen.inflight \cup event.txs
                   ELSE seen.inflight \ event.txs,
     committed |-> IF event.type = "committed" THEN seen.committed \cup event.txs
                   ELSE seen.committed]

ReceiveEvent ==
    /\ events # <<>>
    /\ ntx' = mempool_update(ntx, Head(events), store.accounts)
    /\ events' = Tail(events)
    /\ seen' = Seen(Head(events))
    /\ UNCHANGED <<tasks, subscribed, faults, chain>>

(* A failed task frees its account; a submitted one leaves that to the      *)
(* mempool's event.                                                         *)
JoinTask(i) ==
    /\ tasks[i].result # "running"
    /\ tasks' = RemoveAt(tasks, i)
    /\ ntx' = IF tasks[i].result = "failed" THEN candidate_failed(ntx, tasks[i].account)
              ELSE ntx
    /\ UNCHANGED <<subscribed, events, seen, faults, chain>>

-----------------------------------------------------------------------------
(* execute_transaction: filter, execute, prove, submit.  The transaction    *)
(* consumes the viable notes, and the mempool may refuse it.                *)

Viable(task) == task.notes \ UnviableNotes

Built(task) ==
    {t \in NetworkTx : /\ Viable(task) # {}
                       /\ account_id(t) = task.account
                       /\ initial_state(t) = task.state
                       /\ nullifiers(t) = Viable(task)}

Ends(i, result) == tasks' = [tasks EXCEPT ![i].result = result]

SubmitTask(i) ==
    /\ tasks[i].result = "running"
    /\ \E t \in Built(tasks[i]) :
         IF Acceptable(t)
         THEN /\ Accept(t)
              /\ \/ Ends(i, "ok") /\ UNCHANGED faults
                 \/ Ends(i, "failed") /\ Fault("lost", MaxLostReplies)
         ELSE Ends(i, "failed") /\ UNCHANGED <<events, faults, chain>>
    /\ UNCHANGED <<ntx, subscribed, seen>>

(* A stage fails, or no note is viable, or the account has no transaction.  *)
FailTask(i) ==
    /\ tasks[i].result = "running"
    /\ IF Built(tasks[i]) = {} THEN UNCHANGED faults ELSE Fault("task", MaxTaskFailures)
    /\ Ends(i, "failed")
    /\ UNCHANGED <<ntx, subscribed, events, seen, chain>>

-----------------------------------------------------------------------------
Next ==
    /\ ~ntx.panicked
    /\ \/ \E t \in Tx : SubmitUserTx(t)
       \/ ApplyBlock \/ CommitBlock \/ RevertTransactions
       \/ Subscribe \/ Tick \/ ReceiveEvent
       \/ \E i \in DOMAIN tasks : JoinTask(i) \/ SubmitTask(i) \/ FailTask(i)

(***************************************************************************)
(* The builder's loop takes each of its branches in time, tasks end, and   *)
(* blocks are built.  Users need not submit and nothing has to fail.  A    *)
(* panic ends all of it.  Fairness is stated of what an action does to one *)
(* variable where no other action does it: only ReceiveEvent takes an      *)
(* event, only SubmitTask and FailTask end a task, of which one is enabled *)
(* while the task runs, and ApplyBlock can always take all there is.  The  *)
(* ticks' fairness is spelled out: ENABLED Tick takes TLC too long.        *)
(***************************************************************************)
Slot == 1 .. MAX_IN_PROGRESS_TXS + 1

TakesEvent == events # <<>> /\ events' = Tail(events)
TaskEnds(i) ==
    /\ i \in DOMAIN tasks /\ tasks[i].result = "running"
    /\ \E result \in {"ok", "failed"} : Ends(i, result)
TaskJoined(i) ==
    /\ i \in DOMAIN tasks /\ tasks[i].result # "running"
    /\ tasks' = RemoveAt(tasks, i)
BlockApplied ==
    /\ subscribed /\ block = {} /\ pool # <<>>
    /\ \E txs \in SUBSET Inflight \ {{}} : block' = txs
BlockCommitted == block # {} /\ block' = {}

Running == ~ntx.panicked

CanSelect == Running /\ subscribed /\ ~AtCapacity /\ select_candidate(ntx).found # {}

Fairness ==
    /\ WF_vars(Running /\ Subscribe)
    /\ []<>~CanSelect \/ []<><<Len(tasks') > Len(tasks)>>_tasks
    /\ WF_events(Running /\ TakesEvent)
    /\ WF_block(Running /\ BlockApplied) /\ WF_block(Running /\ BlockCommitted)
    /\ \A i \in Slot : /\ WF_tasks(Running /\ TaskJoined(i))
                       /\ WF_tasks(Running /\ TaskEnds(i))

Spec == Init /\ [][Next]_vars
FairSpec == Spec /\ Fairness
-----------------------------------------------------------------------------
(* PROPERTIES                                                               *)

AccountStates ==
    [committed : Nat, inflight : Seq(Nat), available : SUBSET NetworkNote,
     nullified : SUBSET NetworkNote]

(* Every piece of state has its shape, and no note of an account is both    *)
(* available and nullified.                                                 *)
TypeOK ==
    /\ DOMAIN ntx.accounts \subseteq NetworkAccounts
    /\ \A a \in DOMAIN ntx.accounts :
         /\ ntx.accounts[a] \in AccountStates
         /\ ntx.accounts[a].available \cap ntx.accounts[a].nullified = {}
    /\ ntx.queue \in Seq(NetworkAccounts)
    /\ ntx.in_progress \subseteq NetworkAccounts
    /\ DOMAIN ntx.inflight_txs \subseteq Tx
    /\ ntx.nullifier_idx \subseteq NetworkNote
    /\ tasks \in Seq([account : NetworkAccounts, state : Nat, notes : SUBSET NetworkNote,
                      result : {"running", "ok", "failed"}])
    /\ events \in Seq([type : {"added", "committed", "reverted"}, txs : SUBSET Tx])
    /\ pool \in Seq(Tx) /\ block \subseteq Inflight
    /\ store \in [accounts : [Account -> Nat], txs : SUBSET Tx]
    /\ seen \in [inflight : SUBSET Tx, committed : SUBSET Tx]

(* No expect or unwrap of the builder fails and no event ends the service,  *)
(* in whatever order events, ticks and tasks are handled.  Three orders do  *)
(* make one fail: the creator of a note reverted before its consumer, the   *)
(* creation of an account reverted, and an account fetched for a note       *)
(* before its creation is heard of.                                         *)
NoPanic == ~ntx.panicked

(* Every tracked account is in the queue once and nothing else is: the      *)
(* selection expects to know every account it finds there.                  *)
QueueMatchesAccounts ==
    /\ ToSet(ntx.queue) = DOMAIN ntx.accounts
    /\ Len(ntx.queue) = Cardinality(DOMAIN ntx.accounts)

(* A tracked account is what the events received so far make of it, through *)
(* creation, commits, reverts, pruning and being fetched again, as long as  *)
(* it is fetched when the store is not ahead of the events for it.          *)
AccountsMatchEvents ==
    \A a \in DOMAIN ntx.accounts :
        LET acc     == ntx.accounts[a]
            mine(T) == {final_state(t) : t \in {u \in T : account_id(u) = a}}
        IN  /\ ToSet(acc.inflight) = mine(seen.inflight)
            /\ \A i \in 2 .. Len(acc.inflight) : acc.inflight[i - 1] < acc.inflight[i]
            /\ acc.committed = Max({GenesisAccounts[a]} \cup mine(seen.committed))

(* The notes of the accounts are what the events received so far make of    *)
(* them: available once created, nullified while a consumer is inflight,    *)
(* gone once it is committed and available again if it is reverted.         *)
NotesMatchEvents ==
    \A a \in NetworkAccounts :
        LET txs   == seen.inflight \cup seen.committed
            known == {n \in (GenesisNotes \cup Created(txs)) \cap NetworkNote :
                        NoteTarget[n] = a}
            acc   == IF a \in DOMAIN ntx.accounts THEN ntx.accounts[a]
                     ELSE from_committed_account(0)
        IN  /\ acc.available = known \ Spent(txs)
            /\ acc.nullified = known \cap Spent(seen.inflight)

(* No accepted submission was reported as failed.  After one that was, the  *)
(* account is unlocked twice, and it may be pruned and fetched again from a *)
(* store that is ahead of the events.                                       *)
NoReplyLost == faults.lost = 0

(* The builder's view of accounts and notes is what the events make of it,  *)
(* unless a reply was lost.                                                 *)
ViewMatchesEvents == NoReplyLost => AccountsMatchEvents /\ NotesMatchEvents

(* A locked account will be unlocked: its task runs or has failed, or the   *)
(* event of the transaction it submitted is on its way.                     *)
InProgressReleased ==
    \A a \in ntx.in_progress :
        \/ \E i \in DOMAIN tasks : tasks[i].account = a /\ tasks[i].result # "ok"
        \/ \E i \in DOMAIN events : /\ events[i].type = "added"
                                    /\ a \in {account_id(t) : t \in events[i].txs}

(* Two tasks never build transactions for the same account: a selected      *)
(* account "cannot be selected again until" its task has failed or its      *)
(* transaction was submitted.                                               *)
OneTaskPerAccount ==
    \A i, j \in DOMAIN tasks :
        /\ tasks[i].account = tasks[j].account
        /\ tasks[i].result = "running" /\ tasks[j].result = "running"
        => i = j

(* Selection works on sound data and does not fail: the queue holds the     *)
(* tracked accounts, every lock will be released and, unless a reply was    *)
(* lost, an account has one task and nothing panics.                        *)
SelectionSound ==
    /\ TypeOK /\ QueueMatchesAccounts /\ InProgressReleased
    /\ NoReplyLost => NoPanic /\ OneTaskPerAccount

(* A committed note that can be consumed is consumed in the end, although   *)
(* a task fails before or after it submitted (a lost reply), and although   *)
(* the transaction that consumed the note, its creator or both are reverted *)
(* and the note is offered again; as long as the builder does not panic and *)
(* no MAX_NOTES_PER_TX notes that nothing can consume are in front of it.   *)
EveryNoteConsumed ==
    \A n \in NetworkNote \ UnviableNotes :
        n \in GenesisNotes \cup Created(store.txs)
            ~> n \in Spent(store.txs) \/ ntx.panicked
=============================================================================

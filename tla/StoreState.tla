----------------------------- MODULE StoreState -----------------------------
(***************************************************************************)
(* The store's State (crates/store/src/state.rs): the in-memory trees and  *)
(* chain behind a write-preferring RwLock, the SQLite database, the block  *)
(* files, and State::apply_block, which brings a block into all three from *)
(* three tasks: the handler, the database transaction it spawns and the    *)
(* file write it spawns.  Handlers of read endpoints run along with it.    *)
(*                                                                         *)
(* The content of a block does not matter here, only which block it is: a  *)
(* block is named after the apply_block call that brings it, and a chain   *)
(* is the sequence of its blocks after genesis.  `memory' stands for       *)
(* InnerState, whose chain and trees change together.                      *)
(***************************************************************************)
EXTENDS Naturals, Sequences, FiniteSets, SequencesExt

CONSTANTS
    ApplyCall,      \* calls of apply_block
    Endpoint,       \* read endpoints being called, of AllEndpoints
    Connections,    \* size of the database connection pool
    MaxInvalid,     \* bound on blocks that fail a root check
    MaxDbErrors,    \* bound on failures of a database transaction
    MaxSaveErrors,  \* bound on failures to write a block file
    MaxCancelled,   \* bound on handlers dropped by a lost connection
    MaxCrashes      \* bound on crashes of the store

AllEndpoints == {"sync", "header", "peaks", "block"}

ASSUME StoreStateAssumption ==
    /\ Endpoint \subseteq AllEndpoints
    /\ ApplyCall \cap AllEndpoints = {}
    /\ IsFiniteSet(ApplyCall)
    /\ {Connections, MaxInvalid, MaxDbErrors, MaxSaveErrors, MaxCancelled,
        MaxCrashes} \subseteq Nat
    /\ Connections >= 2

VARIABLES
    db,         \* the committed chain in the database
    memory,     \* the chain of InnerState
    files,      \* block files: height -> the block last written there
    writer,     \* who holds the writer mutex
    lock,       \* the RwLock around InnerState
    pc,         \* where each apply_block handler stands
    base,       \* the chain each call's block was built on
    dbtx,       \* the database transaction each call spawned
    done_signal,\* the acquire_done channel between handler and transaction
    save,       \* the file write each call spawned
    reader,     \* handlers of the read endpoints
    faults      \* how often each bounded fault happened

applying == <<writer, pc, base, dbtx, done_signal, save>>
vars == <<db, memory, files, lock, reader, faults, applying>>

Init ==
    /\ db = <<>>
    /\ memory = <<>>
    /\ files = <<>>
    /\ writer = {}
    /\ lock = [readers |-> {}, writer |-> {}, queue |-> <<>>]
    /\ pc = [c \in ApplyCall |-> "idle"]
    /\ base = [c \in ApplyCall |-> <<>>]
    /\ dbtx = [c \in ApplyCall |-> "none"]
    /\ done_signal = [c \in ApplyCall |-> "open"]
    /\ save = [c \in ApplyCall |-> "none"]
    /\ reader = [e \in Endpoint |-> [step |-> "idle", seen |-> 0, reply |-> "none"]]
    /\ faults = [invalid |-> 0, db |-> 0, save |-> 0, cancel |-> 0, crash |-> 0]

Fault(kind, bound) ==
    /\ faults[kind] < bound
    /\ faults' = [faults EXCEPT ![kind] = @ + 1]

-----------------------------------------------------------------------------
(* tokio's RwLock: requests are served in the order they were made.         *)

Enqueued(p) == [lock EXCEPT !.queue = Append(@, p)]
Served == [lock EXCEPT !.queue = Tail(@)]
ReadGranted(p) == lock.queue # <<>> /\ Head(lock.queue) = p /\ lock.writer = {}

(* Mutant: the writer does not wait for readers.                            *)
WriteGranted_over_readers(p) == ReadGranted(p)

WriteGranted(p) == ReadGranted(p) /\ lock.readers = {}

(* Dropping a future takes its guard and its request along; a task has at   *)
(* most one request in the queue.                                           *)
Dropped(p) == [readers |-> lock.readers \ {p}, writer |-> lock.writer \ {p},
               queue |-> RemoveFirst(lock.queue, p)]

(* A connection is taken from the pool and not held by a transaction.       *)
ConnectionFree ==
    Cardinality({c \in ApplyCall : dbtx[c] = "waiting"}) < Connections

-----------------------------------------------------------------------------
(* apply_block.  Every return and every drop of the handler releases the    *)
(* mutex and the lock and closes the channel to the transaction.            *)

(* Mutant: the transaction is never told that the handler is gone.          *)
Leave_channel_open(c, how) ==
    /\ pc' = [pc EXCEPT ![c] = how]
    /\ writer' = writer \ {c}
    /\ UNCHANGED done_signal

Leave(c, how) ==
    /\ pc' = [pc EXCEPT ![c] = how]
    /\ writer' = writer \ {c}
    /\ done_signal' = [done_signal EXCEPT ![c] = IF @ = "open" THEN "dropped" ELSE @]

(* The block producer builds a block on the state the store shows.          *)
Propose(c) ==
    /\ pc[c] = "idle"
    /\ lock.writer = {}
    /\ pc' = [pc EXCEPT ![c] = "called"]
    /\ base' = [base EXCEPT ![c] = memory]
    /\ UNCHANGED <<db, memory, files, lock, reader, faults, writer, dbtx, done_signal, save>>

(* A concurrent call and a block whose transactions do not match its header *)
(* are refused at once.                                                     *)
TryLockWriter(c) ==
    /\ pc[c] = "called"
    /\ \/ /\ writer = {}
          /\ writer' = {c}
          /\ pc' = [pc EXCEPT ![c] = "header"]
          /\ UNCHANGED faults
       \/ /\ IF writer = {} THEN Fault("invalid", MaxInvalid) ELSE UNCHANGED faults
          /\ pc' = [pc EXCEPT ![c] = "failed"]
          /\ UNCHANGED writer
    /\ UNCHANGED <<db, memory, files, lock, reader, base, dbtx, done_signal, save>>

(* The header must extend the database's tip; then the file is written in   *)
(* the background.                                                          *)
CheckHeader(c) ==
    /\ pc[c] = "header"
    /\ ConnectionFree
    /\ \/ /\ base[c] = db
          /\ pc' = [pc EXCEPT ![c] = "reading"]
          /\ save' = [save EXCEPT ![c] = "running"]
          /\ lock' = Enqueued(c)
          /\ UNCHANGED <<writer, done_signal, faults>>
       \/ /\ IF base[c] = db THEN Fault("db", MaxDbErrors) ELSE UNCHANGED faults
          /\ Leave(c, "failed")
          /\ UNCHANGED <<save, lock>>
    /\ UNCHANGED <<db, memory, files, reader, base, dbtx>>

(* Under the read lock: check the block against the trees and compute the   *)
(* mutations; then the database transaction is spawned.                     *)
Validate(c) ==
    /\ pc[c] = "reading"
    /\ ReadGranted(c)
    /\ lock' = Served
    /\ \/ /\ base[c] = memory
          /\ pc' = [pc EXCEPT ![c] = "allowed"]
          /\ dbtx' = [dbtx EXCEPT ![c] = "writing"]
          /\ UNCHANGED <<writer, done_signal, faults>>
       \/ /\ IF base[c] = memory THEN Fault("invalid", MaxInvalid) ELSE UNCHANGED faults
          /\ Leave(c, "failed")
          /\ UNCHANGED dbtx
    /\ UNCHANGED <<db, memory, files, reader, base, save>>

(* acquired_allowed: the transaction is written, or it failed.              *)
AwaitAllowed(c) ==
    /\ pc[c] = "allowed"
    /\ \/ /\ dbtx[c] = "waiting"
          /\ pc' = [pc EXCEPT ![c] = "saving"]
          /\ UNCHANGED <<writer, done_signal>>
       \/ dbtx[c] = "failed" /\ Leave(c, "failed")
    /\ UNCHANGED <<db, memory, files, lock, reader, faults, base, dbtx, save>>

(* Mutant: a failed file write is ignored.                                  *)
AwaitSave_unchecked(c) ==
    /\ pc[c] = "saving"
    /\ save[c] \in {"done", "failed"}
    /\ pc' = [pc EXCEPT ![c] = "locking"]
    /\ lock' = Enqueued(c)
    /\ UNCHANGED <<db, memory, files, reader, faults, writer, base, dbtx, done_signal, save>>

AwaitSave(c) ==
    /\ pc[c] = "saving"
    /\ \/ /\ save[c] = "done"
          /\ pc' = [pc EXCEPT ![c] = "locking"]
          /\ lock' = Enqueued(c)
          /\ UNCHANGED <<writer, done_signal>>
       \/ save[c] = "failed" /\ Leave(c, "failed") /\ UNCHANGED lock
    /\ UNCHANGED <<db, memory, files, reader, faults, base, dbtx, save>>

(* With the write lock: nothing may have changed since validation; then the *)
(* transaction is told to commit.                                           *)
LockMemory(c) ==
    /\ pc[c] = "locking"
    /\ WriteGranted(c)
    /\ IF memory = base[c]
       THEN /\ lock' = [Served EXCEPT !.writer = {c}]
            /\ pc' = [pc EXCEPT ![c] = "committing"]
            /\ done_signal' = [done_signal EXCEPT ![c] = "sent"]
            /\ UNCHANGED writer
       ELSE lock' = Served /\ Leave(c, "failed")
    /\ UNCHANGED <<db, memory, files, reader, faults, base, dbtx, save>>

(* Mutant: the trees are updated whether or not the commit succeeded.       *)
UpdateMemory_unchecked(c) ==
    /\ pc[c] = "committing"
    /\ dbtx[c] \in {"committed", "failed"}
    /\ lock' = Dropped(c)
    /\ memory' = Append(memory, c)
    /\ Leave(c, "ok")
    /\ UNCHANGED <<db, files, reader, faults, base, dbtx, save>>

(* The transaction is over; the trees follow if it was committed.           *)
UpdateMemory(c) ==
    /\ pc[c] = "committing"
    /\ lock' = Dropped(c)
    /\ \/ dbtx[c] = "committed" /\ memory' = Append(memory, c) /\ Leave(c, "ok")
       \/ dbtx[c] = "failed" /\ Leave(c, "failed") /\ UNCHANGED memory
    /\ UNCHANGED <<db, files, reader, faults, base, dbtx, save>>

(* The client goes away while the handler awaits: its future is dropped.    *)
Cancel(c) ==
    /\ pc[c] \in {"header", "reading", "allowed", "saving", "locking", "committing"}
    /\ Fault("cancel", MaxCancelled)
    /\ Leave(c, "cancelled")
    /\ lock' = Dropped(c)
    /\ UNCHANGED <<db, memory, files, reader, base, dbtx, save>>

-----------------------------------------------------------------------------
(* Db::apply_block, on a blocking thread: write everything, signal, wait to *)
(* be told to commit.  SQLite has one writing transaction at a time; the    *)
(* header of a height that exists is refused.                               *)

(* Mutant: a header of the same height is replaced.                         *)
DbWrite_replacing(c) ==
    /\ dbtx[c] = "writing"
    /\ \A d \in ApplyCall : dbtx[d] # "waiting"
    /\ dbtx' = [dbtx EXCEPT ![c] = "waiting"]
    /\ UNCHANGED <<db, memory, files, lock, reader, faults, writer, pc, base, done_signal, save>>

DbWrite(c) ==
    /\ dbtx[c] = "writing"
    /\ ConnectionFree
    /\ \/ /\ \A d \in ApplyCall : dbtx[d] # "waiting"
          /\ dbtx' = [dbtx EXCEPT ![c] =
                        IF Len(db) = Len(base[c]) THEN "waiting" ELSE "failed"]
          /\ UNCHANGED faults
       \/ Fault("db", MaxDbErrors) /\ dbtx' = [dbtx EXCEPT ![c] = "failed"]
    /\ UNCHANGED <<db, memory, files, lock, reader, writer, pc, base, done_signal, save>>

DbCommit(c) ==
    /\ dbtx[c] = "waiting"
    /\ \/ /\ done_signal[c] = "sent"
          /\ db' = Append(db, c)
          /\ dbtx' = [dbtx EXCEPT ![c] = "committed"]
          /\ UNCHANGED faults
       \/ /\ CASE done_signal[c] = "sent" -> Fault("db", MaxDbErrors)
               [] done_signal[c] = "dropped" -> UNCHANGED faults
               [] OTHER -> FALSE
          /\ dbtx' = [dbtx EXCEPT ![c] = "failed"]
          /\ UNCHANGED db
    /\ UNCHANGED <<memory, files, lock, reader, writer, pc, base, done_signal, save>>

(* BlockStore::save_block, a task that nobody cancels.                      *)
SaveBlock(c) ==
    /\ save[c] = "running"
    /\ \/ /\ save' = [save EXCEPT ![c] = "done"]
          /\ files' = [n \in DOMAIN files \cup {Len(base[c]) + 1} |->
                         IF n = Len(base[c]) + 1 THEN c ELSE files[n]]
          /\ UNCHANGED faults
       \/ /\ save' = [save EXCEPT ![c] = "failed"]
          /\ Fault("save", MaxSaveErrors)
          /\ UNCHANGED files
    /\ UNCHANGED <<db, memory, lock, reader, writer, pc, base, dbtx, done_signal>>

-----------------------------------------------------------------------------
(* The read endpoints, by the order in which they use lock and database.    *)

At(e, step) == e \in Endpoint /\ reader[e].step = step
GoTo(e, step, seen) ==
    reader' = [reader EXCEPT ![e] = [step |-> step, seen |-> seen, reply |-> "none"]]
Reply(e, ok) ==
    reader' = [reader EXCEPT ![e] = [step |-> "idle", seen |-> 0,
                                     reply |-> IF ok THEN "ok" ELSE "error"]]
Reading == UNCHANGED <<db, memory, files, faults, applying>>

RequestRead(e) ==
    /\ At(e, IF e = "header" THEN "queried" ELSE "idle")
    /\ lock' = Enqueued(e)
    /\ GoTo(e, "waiting", reader[e].seen)
    /\ Reading

(* Mutant: the guard is dropped before the database is queried.             *)
SyncLock_released ==
    /\ At("sync", "waiting")
    /\ ReadGranted("sync")
    /\ lock' = Served
    /\ GoTo("sync", "holding", 0)
    /\ Reading

(* sync_state, sync_notes, get_account_proofs, get_transaction_inputs: the  *)
(* database is queried while the guard is held and the result must match.   *)
SyncLock ==
    /\ At("sync", "waiting")
    /\ ReadGranted("sync")
    /\ lock' = [Served EXCEPT !.readers = @ \cup {"sync"}]
    /\ GoTo("sync", "holding", 0)
    /\ Reading

SyncQuery ==
    /\ At("sync", "holding")
    /\ ConnectionFree
    /\ lock' = Dropped("sync")
    /\ Reply("sync", db = memory)
    /\ Reading

(* get_block_header with proof, get_batch_inputs, get_block_inputs: the     *)
(* database first, then the lock; memory must know what the query returned. *)
HeaderQuery ==
    /\ At("header", "idle")
    /\ ConnectionFree
    /\ GoTo("header", "queried", Len(db))
    /\ UNCHANGED lock
    /\ Reading

HeaderOpen ==
    /\ At("header", "waiting")
    /\ ReadGranted("header")
    /\ lock' = Served
    /\ \/ Reply("header", reader["header"].seen <= Len(memory))
       \/ /\ reader["header"].seen <= Len(memory)
          /\ GoTo("header", "loading", Len(memory))
    /\ Reading

(* The batch and block inputs also need the header of memory's tip.         *)
HeaderLoad ==
    /\ At("header", "loading")
    /\ ConnectionFree
    /\ Reply("header", reader["header"].seen <= Len(db))
    /\ UNCHANGED lock
    /\ Reading

(* get_current_blockchain_data holds one guard and, if the client gave a    *)
(* block number, asks for another to compare it with the tip.               *)
PeaksLock ==
    /\ At("peaks", "waiting")
    /\ ReadGranted("peaks")
    /\ \/ /\ lock' = [Served EXCEPT !.readers = @ \cup {"peaks"}]
          /\ GoTo("peaks", "holding", 0)
       \/ /\ lock' = [Served EXCEPT !.readers = @ \cup {"peaks"},
                                    !.queue = Append(@, "peaks")]
          /\ GoTo("peaks", "comparing", 0)
    /\ Reading

(* The client is up to date, or the tip's header is needed.                 *)
PeaksCompare ==
    /\ At("peaks", "comparing")
    /\ ReadGranted("peaks")
    /\ \/ lock' = [Served EXCEPT !.readers = @ \ {"peaks"}] /\ Reply("peaks", TRUE)
       \/ lock' = Served /\ GoTo("peaks", "holding", 0)
    /\ Reading

PeaksQuery ==
    /\ At("peaks", "holding")
    /\ ConnectionFree
    /\ lock' = Dropped("peaks")
    /\ Reply("peaks", Len(db) <= Len(memory))
    /\ Reading

(* load_block: only blocks up to the tip are read from the files.           *)
BlockCheck ==
    /\ At("block", "waiting")
    /\ ReadGranted("block")
    /\ lock' = Served
    /\ \/ Reply("block", TRUE)
       \/ \E n \in 1 .. Len(memory) : GoTo("block", "loading", n)
    /\ Reading

BlockLoad ==
    /\ At("block", "loading")
    /\ LET n == reader["block"].seen IN
       Reply("block", n \in DOMAIN files /\ files[n] = db[n])
    /\ UNCHANGED lock
    /\ Reading

-----------------------------------------------------------------------------
(* A crash ends every task; open transactions are rolled back.  State::load *)
(* rebuilds the trees from the database.                                    *)
Crash ==
    /\ Fault("crash", MaxCrashes)
    /\ memory' = db
    /\ writer' = {}
    /\ lock' = [readers |-> {}, writer |-> {}, queue |-> <<>>]
    /\ pc' = [c \in ApplyCall |-> IF pc[c] \in {"idle", "ok", "failed", "cancelled"}
                                  THEN pc[c] ELSE "crashed"]
    /\ dbtx' = [c \in ApplyCall |-> IF dbtx[c] \in {"writing", "waiting"}
                                    THEN "failed" ELSE dbtx[c]]
    /\ save' = [c \in ApplyCall |-> IF save[c] = "running" THEN "failed" ELSE save[c]]
    /\ reader' = [e \in Endpoint |-> [step |-> "idle", seen |-> 0, reply |-> "none"]]
    /\ UNCHANGED <<db, files, base, done_signal>>

ApplyStep(c) ==
    \/ TryLockWriter(c) \/ CheckHeader(c) \/ Validate(c) \/ AwaitAllowed(c)
    \/ AwaitSave(c) \/ LockMemory(c) \/ UpdateMemory(c)

TaskStep(c) == DbWrite(c) \/ DbCommit(c) \/ SaveBlock(c)

ReaderStep ==
    \/ SyncLock \/ SyncQuery \/ HeaderOpen \/ HeaderLoad \/ PeaksLock
    \/ PeaksCompare \/ PeaksQuery \/ BlockCheck \/ BlockLoad

Next ==
    \/ \E c \in ApplyCall : Propose(c) \/ ApplyStep(c) \/ TaskStep(c) \/ Cancel(c)
    \/ \E e \in Endpoint : RequestRead(e)
    \/ HeaderQuery \/ ReaderStep
    \/ Crash

(* Tasks and handlers that can go on do; nobody has to call and nothing has *)
(* to fail.                                                                 *)
Fairness ==
    /\ \A c \in ApplyCall : /\ WF_vars(ApplyStep(c) /\ UNCHANGED faults)
                            /\ WF_vars(DbWrite(c) /\ UNCHANGED faults)
                            /\ WF_vars(DbCommit(c) /\ UNCHANGED faults)
                            /\ WF_vars(SaveBlock(c) /\ UNCHANGED faults)
    /\ WF_vars(SyncLock \/ SyncQuery)
    /\ WF_vars(HeaderOpen \/ HeaderLoad \/ (At("header", "queried") /\ RequestRead("header")))
    /\ WF_vars(PeaksLock \/ PeaksCompare \/ PeaksQuery)
    /\ WF_vars(BlockCheck \/ BlockLoad)

Spec == Init /\ [][Next]_vars
FairSpec == Spec /\ Fairness

-----------------------------------------------------------------------------
(* PROPERTIES                                                               *)

Returned == {"ok", "failed", "cancelled", "crashed"}

DataType ==
    /\ db \in Seq(ApplyCall) /\ memory \in Seq(ApplyCall)
    /\ DOMAIN files \subseteq Nat /\ \A n \in DOMAIN files : files[n] \in ApplyCall

CallType ==
    /\ writer \in SUBSET ApplyCall
    /\ pc \in [ApplyCall -> Returned \cup {"idle", "called", "header", "reading",
                            "allowed", "saving", "locking", "committing"}]
    /\ base \in [ApplyCall -> Seq(ApplyCall)]
    /\ dbtx \in [ApplyCall -> {"none", "writing", "waiting", "committed", "failed"}]
    /\ done_signal \in [ApplyCall -> {"open", "sent", "dropped"}]
    /\ save \in [ApplyCall -> {"none", "running", "done", "failed"}]

LockType ==
    lock \in [readers : SUBSET Endpoint, writer : SUBSET ApplyCall,
              queue : Seq(ApplyCall \cup Endpoint)]

ReaderType ==
    reader \in [Endpoint -> [step : {"idle", "queried", "waiting", "holding",
                                    "comparing", "loading"},
                             seen : Nat, reply : {"none", "ok", "error"}]]

FaultType ==
    faults \in [{"invalid", "db", "save", "cancel", "crash"} -> Nat]

(* Every variable has its shape, and the lock is held by one writer or by   *)
(* readers.                                                                 *)
TypeOK ==
    /\ DataType /\ CallType /\ LockType /\ ReaderType /\ FaultType
    /\ lock.writer = {} \/ lock.readers = {}

(* Whoever may read the trees sees the chain the database has: only between *)
(* the commit and the update they differ, under the write lock.             *)
MemoryMatchesDatabase == lock.writer = {} => memory = db

(* A block is in the database, in memory and in its file when apply_block   *)
(* said so, and in neither database nor memory when it said it failed: the  *)
(* block producer drops the block's transactions on an error.               *)
ReplyMatchesState ==
    \A c \in ApplyCall :
        /\ pc[c] = "ok" => c \in ToSet(db) /\ c \in ToSet(memory) /\ save[c] = "done"
        /\ pc[c] = "failed" => c \notin ToSet(db) /\ c \notin ToSet(memory)

(* Every committed height has its file, and the file holds the committed    *)
(* block, but for a candidate for that height that was given up and whose   *)
(* file write, which nobody awaits or aborts, came last.                    *)
FilesMatchDatabase ==
    \A n \in DOMAIN db :
        /\ n \in DOMAIN files
        /\ \/ files[n] = db[n]
           \/ pc[files[n]] = "failed" /\ Len(base[files[n]]) = n - 1

(* No read endpoint fails because database and memory are out of step.      *)
ReadsSucceed == \A e \in Endpoint : reader[e].reply # "error"

(* Calls, locks and signals are what they may be, no reader shares the lock *)
(* with a writer, and no read endpoint runs into a gap between the two.     *)
ReadersServed == TypeOK /\ ReadsSucceed

(* The chain only grows, by blocks that were built on all of it.            *)
ChainExtends ==
    [][db' # db => \E c \in ApplyCall : base[c] = db /\ db' = Append(db, c)]_vars

(* Every call of apply_block returns: handshake, locks and connection pool  *)
(* do not wait for each other.                                              *)
ApplyReturns == \A c \in ApplyCall : (pc[c] = "called") ~> (pc[c] \in Returned)
=============================================================================

-------------------------- MODULE StoreStateProofs --------------------------
(***************************************************************************)
(* Proofs about apply_block and the read endpoints, for every set of calls *)
(* and every bound on faults.  The inductive invariant has one part for    *)
(* who holds the mutex and the write lock, one for the handshake between   *)
(* handler, transaction and file task, one for the chain in the database,  *)
(* and three that hold as long as no handler was dropped: memory in step,  *)
(* files in step, readers served.                                          *)
(***************************************************************************)
EXTENDS StoreState, BasicLemmas

Holding == {"header", "reading", "allowed", "saving", "locking", "committing"}

(* One call holds the mutex from its check to its return, and the write     *)
(* lock while it commits.                                                   *)
Exclusive ==
    /\ writer = {c \in ApplyCall : pc[c] \in Holding}
    /\ \A c, d \in writer : c = d
    /\ lock.writer = {c \in ApplyCall : pc[c] = "committing"}

(* What transaction, channel and file task of a call can be at each point.  *)
Handshake ==
    \A c \in ApplyCall :
        /\ pc[c] \in {"idle", "called", "header", "reading"} =>
             dbtx[c] = "none" /\ done_signal[c] = "open"
        /\ pc[c] = "allowed" =>
             dbtx[c] \in {"writing", "waiting", "failed"} /\ done_signal[c] = "open"
        /\ pc[c] \in {"saving", "locking"} => dbtx[c] = "waiting" /\ done_signal[c] = "open"
        /\ pc[c] = "committing" =>
             dbtx[c] \in {"waiting", "committed", "failed"} /\ done_signal[c] = "sent"
        /\ pc[c] = "ok" => dbtx[c] = "committed"
        /\ pc[c] = "failed" =>
             /\ dbtx[c] # "committed"
             /\ dbtx[c] \in {"writing", "waiting"} => done_signal[c] = "dropped"
        /\ pc[c] = "crashed" => dbtx[c] \notin {"writing", "waiting"}
        /\ pc[c] \in {"idle", "called", "header"} => save[c] = "none"
        /\ pc[c] \in {"locking", "committing", "ok"} => save[c] = "done"
        /\ pc[c] = "crashed" => save[c] # "running"

BuiltOn(s, t) == Len(s) <= Len(t) /\ \A i \in 1 .. Len(s) : s[i] = t[i]

(* A call's block against the chain: a transaction that waits for its       *)
(* commit was written on top of all of it, and a committed block stands     *)
(* where it was built.                                                      *)
Positioned(c) ==
    /\ pc[c] = "reading" \/ dbtx[c] = "writing" => BuiltOn(base[c], db)
    /\ dbtx[c] = "waiting" => base[c] = db
    /\ dbtx[c] = "committed" => Len(base[c]) < Len(db) /\ db[Len(base[c]) + 1] = c
    /\ pc[c] = "ok" => c \in ToSet(memory)

OneWaiting == \A c, d \in ApplyCall : dbtx[c] = "waiting" /\ dbtx[d] = "waiting" => c = d

Chained ==
    /\ \A c \in ApplyCall : Positioned(c)
    /\ OneWaiting
    /\ \A c \in ToSet(db) : dbtx[c] = "committed"
    /\ ToSet(memory) \subseteq ToSet(db)

(* No handler was dropped so far.                                           *)
Undropped == faults.cancel = 0

(* Memory is the database's chain, but for the block being committed under  *)
(* the write lock.                                                          *)
InStep ==
    Undropped =>
        /\ \A c \in ApplyCall : pc[c] # "cancelled"
        /\ lock.writer = {} => memory = db
        /\ \A c \in ApplyCall :
             pc[c] = "committing" =>
               IF dbtx[c] = "committed" THEN db = Append(memory, c) ELSE db = memory
        /\ \A c \in ApplyCall :
             pc[c] \in {"reading", "allowed", "saving", "locking"} => base[c] = db

(* The file of height n holds block c or a refused candidate for n.         *)
Stored(n, c) ==
    /\ n \in DOMAIN files
    /\ \/ files[n] = c
       \/ pc[files[n]] = "failed" /\ Len(base[files[n]]) = n - 1

(* Committed blocks have their files, and so has the block to be committed. *)
Filed ==
    Undropped =>
        /\ \A n \in DOMAIN db : Stored(n, db[n])
        /\ \A c \in ApplyCall :
             pc[c] \in Holding /\ save[c] = "done" => Stored(Len(base[c]) + 1, c)

(* A reader that queries under the lock holds it.                           *)
Guarded(e) == reader[e].step \in {"holding", "comparing"} => e \in lock.readers

(* What a reader has seen is still there, and it got no error.              *)
Answered(e) ==
    /\ e = "header" /\ reader[e].step \in {"queried", "waiting", "loading"} =>
         reader[e].seen <= Len(db)
    /\ reader[e].reply # "error"

(* No endpoint fails but load_block, which depends on the files.            *)
ReadersSafe ==
    /\ \A e \in Endpoint : Guarded(e)
    /\ Undropped => \A e \in Endpoint \ {"block"} : Answered(e)

Inv == TypeOK /\ Exclusive /\ Handshake /\ Chained /\ InStep /\ Filed /\ ReadersSafe

-----------------------------------------------------------------------------
(* A step of a read endpoint.                                               *)
Read == (\E e \in Endpoint : RequestRead(e)) \/ HeaderQuery \/ ReaderStep

(* What a request, a grant and a dropped task make of the lock.             *)
LEMMA LockSteps ==
    ASSUME LockType
    PROVE  LET Locks == [readers : SUBSET Endpoint, writer : SUBSET ApplyCall,
                         queue : Seq(ApplyCall \cup Endpoint)]
           IN  /\ \A p \in ApplyCall \cup Endpoint :
                    /\ Enqueued(p) \in Locks
                    /\ Enqueued(p).readers = lock.readers /\ Enqueued(p).writer = lock.writer
               /\ lock.queue # <<>> =>
                    /\ Served \in Locks
                    /\ Served.readers = lock.readers /\ Served.writer = lock.writer
               /\ \A p :
                    /\ Dropped(p) \in Locks
                    /\ Dropped(p).readers = lock.readers \ {p}
                    /\ Dropped(p).writer = lock.writer \ {p}
<1>1. ASSUME NEW p \in ApplyCall \cup Endpoint
      PROVE  Append(lock.queue, p) \in Seq(ApplyCall \cup Endpoint)
  BY AppendProperties DEF LockType
<1>2. ASSUME NEW p
      PROVE  RemoveFirst(lock.queue, p) \in Seq(ApplyCall \cup Endpoint)
  BY RemoveFirstType DEF LockType
<1>3. lock.queue # <<>> => Tail(lock.queue) \in Seq(ApplyCall \cup Endpoint)
  BY HeadTailProperties DEF LockType
<1> QED BY <1>1, <1>2, <1>3 DEF LockType, Enqueued, Served, Dropped

(* Reads change the readers and the lock's queue and guards, nothing else.  *)
LEMMA ReadFrame ==
    ASSUME LockType, Read
    PROVE  UNCHANGED <<db, memory, files, faults, applying>> /\ lock'.writer = lock.writer
<1>1. UNCHANGED <<db, memory, files, faults, applying>>
  BY DEF Read, RequestRead, HeaderQuery, ReaderStep, SyncLock, SyncQuery, HeaderOpen,
         HeaderLoad, PeaksLock, PeaksCompare, PeaksQuery, BlockCheck, BlockLoad, Reading
<1> SUFFICES lock'.writer = lock.writer
  BY <1>1
<1>2. ASSUME NEW e \in Endpoint
      PROVE  Dropped(e).writer = lock.writer
  <2>1. Dropped(e).writer = lock.writer \ {e}
    BY LockSteps
  <2>2. lock.writer \subseteq ApplyCall
    BY DEF LockType
  <2> QED BY <2>1, <2>2, StoreStateAssumption
<1>3. CASE \E e \in Endpoint : RequestRead(e)
  BY <1>3, LockSteps DEF RequestRead
<1>4. CASE HeaderQuery \/ HeaderLoad \/ BlockLoad
  BY <1>4 DEF HeaderQuery, HeaderLoad, BlockLoad
<1>5. CASE SyncLock \/ HeaderOpen \/ PeaksLock \/ PeaksCompare \/ BlockCheck
  BY <1>5 DEF SyncLock, HeaderOpen, PeaksLock, PeaksCompare, BlockCheck, Served, LockType
<1>6. CASE SyncQuery \/ PeaksQuery
  BY <1>2, <1>6 DEF SyncQuery, PeaksQuery, At
<1> QED BY <1>3, <1>4, <1>5, <1>6 DEF Read, ReaderStep

(* The next-state relation by the actions' names.                           *)
LEMMA NextCases ==
    ASSUME [Next]_vars
    PROVE  \/ \E c \in ApplyCall :
                \/ Propose(c) \/ TryLockWriter(c) \/ CheckHeader(c) \/ Validate(c)
                \/ AwaitAllowed(c) \/ AwaitSave(c) \/ LockMemory(c) \/ UpdateMemory(c)
                \/ Cancel(c) \/ DbWrite(c) \/ DbCommit(c) \/ SaveBlock(c)
           \/ Read \/ Crash \/ UNCHANGED vars
BY DEF Next, ApplyStep, TaskStep, Read

-----------------------------------------------------------------------------
(* Types                                                                    *)

(* The types hold when the store starts.                                    *)
LEMMA TypeInit == Init => TypeOK
BY DEF Init, TypeOK, DataType, CallType, LockType, ReaderType, FaultType, Returned

(* Faults are only counted up, so a dropped call stays counted.             *)
LEMMA FaultTypeStep ==
    ASSUME TypeOK, [Next]_vars
    PROVE  FaultType' /\ (Undropped' => Undropped)
<1> USE DEF TypeOK, FaultType, Undropped
<1>1. CASE \E c \in ApplyCall : TryLockWriter(c) \/ CheckHeader(c) \/ Validate(c) \/ Cancel(c)
  BY <1>1 DEF TryLockWriter, CheckHeader, Validate, Cancel, Fault
<1>2. CASE \E c \in ApplyCall : DbWrite(c) \/ DbCommit(c) \/ SaveBlock(c)
  BY <1>2 DEF DbWrite, DbCommit, SaveBlock, Fault
<1>3. CASE \E c \in ApplyCall : \/ Propose(c) \/ AwaitAllowed(c) \/ AwaitSave(c)
                               \/ LockMemory(c) \/ UpdateMemory(c)
  BY <1>3 DEF Propose, AwaitAllowed, AwaitSave, LockMemory, UpdateMemory
<1>4. CASE Read \/ Crash \/ UNCHANGED vars
  BY <1>4, ReadFrame DEF Crash, Fault, vars
<1> QED BY <1>1, <1>2, <1>3, <1>4, NextCases

(* Every step keeps the types of the apply_block calls.                     *)
LEMMA CallTypeStep ==
    ASSUME TypeOK, [Next]_vars
    PROVE  CallType'
<1> USE DEF CallType, Returned
<1>0. CallType
  BY DEF TypeOK
<1>1. ASSUME NEW c \in ApplyCall, Propose(c)
      PROVE  CallType'
  BY <1>0, <1>1 DEF Propose, TypeOK, DataType
<1>2. ASSUME NEW c \in ApplyCall, TryLockWriter(c) \/ CheckHeader(c)
      PROVE  CallType'
  BY <1>0, <1>2 DEF TryLockWriter, CheckHeader, Leave
<1>3. ASSUME NEW c \in ApplyCall, Validate(c) \/ AwaitAllowed(c) \/ AwaitSave(c)
      PROVE  CallType'
  BY <1>0, <1>3 DEF Validate, AwaitAllowed, AwaitSave, Leave
<1>4. ASSUME NEW c \in ApplyCall, LockMemory(c) \/ UpdateMemory(c) \/ Cancel(c)
      PROVE  CallType'
  BY <1>0, <1>4 DEF LockMemory, UpdateMemory, Cancel, Leave
<1>5. ASSUME NEW c \in ApplyCall, DbWrite(c) \/ DbCommit(c) \/ SaveBlock(c)
      PROVE  CallType'
  BY <1>0, <1>5 DEF DbWrite, DbCommit, SaveBlock
<1>6. CASE Crash
  BY <1>0, <1>6 DEF Crash
<1>7. CASE Read \/ UNCHANGED vars
  BY <1>0, <1>7, ReadFrame DEF TypeOK, vars, applying
<1> QED BY <1>1, <1>2, <1>3, <1>4, <1>5, <1>6, <1>7, NextCases

(* Every step keeps the types of database, memory, files and replies.       *)
LEMMA DataTypeStep ==
    ASSUME TypeOK, [Next]_vars
    PROVE  DataType'
<1> USE DEF DataType
<1>0. DataType
  BY DEF TypeOK
<1>1. ASSUME NEW c \in ApplyCall, UpdateMemory(c) \/ DbCommit(c)
      PROVE  DataType'
  <2>1. Append(memory, c) \in Seq(ApplyCall) /\ Append(db, c) \in Seq(ApplyCall)
    BY <1>0, AppendProperties
  <2> QED BY <1>0, <1>1, <2>1 DEF UpdateMemory, DbCommit
<1>2. ASSUME NEW c \in ApplyCall, SaveBlock(c)
      PROVE  DataType'
  <2>1. Len(base[c]) + 1 \in Nat
    BY DEF TypeOK, CallType
  <2>2. /\ UNCHANGED <<db, memory>>
        /\ \/ UNCHANGED files
           \/ files' = [n \in DOMAIN files \cup {Len(base[c]) + 1} |->
                         IF n = Len(base[c]) + 1 THEN c ELSE files[n]]
    BY <1>2 DEF SaveBlock
  <2> QED BY <1>0, <2>1, <2>2
<1>3. ASSUME NEW c \in ApplyCall,
             \/ Propose(c) \/ TryLockWriter(c) \/ CheckHeader(c) \/ Validate(c)
             \/ AwaitAllowed(c) \/ AwaitSave(c) \/ LockMemory(c) \/ Cancel(c) \/ DbWrite(c)
      PROVE  DataType'
  BY <1>0, <1>3 DEF Propose, TryLockWriter, CheckHeader, Validate, AwaitAllowed,
                    AwaitSave, LockMemory, Cancel, DbWrite
<1>4. CASE Read \/ Crash \/ UNCHANGED vars
  BY <1>0, <1>4, ReadFrame DEF TypeOK, Crash, vars
<1> QED BY <1>1, <1>2, <1>3, <1>4, NextCases

(* The lock never has a writer and readers.                                 *)
Exclusion == lock.writer = {} \/ lock.readers = {}

(* Every step keeps the types of the locks, and the lock discipline: no     *)
(* reader while there is a writer.                                          *)
LEMMA LockTypeStep ==
    ASSUME TypeOK, [Next]_vars
    PROVE  LockType' /\ Exclusion'
<1> USE DEF Exclusion
<1>0. LockType /\ Exclusion
  BY DEF TypeOK
<1> DEFINE Locks == [readers : SUBSET Endpoint, writer : SUBSET ApplyCall,
                     queue : Seq(ApplyCall \cup Endpoint)]
<1> SUFFICES lock' \in Locks /\ Exclusion'
  BY DEF LockType
<1>1. lock \in Locks
  BY <1>0 DEF LockType
<1> HIDE DEF Locks
<1>2. ASSUME NEW p, lock' = Dropped(p)
      PROVE  lock' \in Locks /\ Exclusion'
  BY <1>0, <1>2, LockSteps DEF Locks
<1>3. ASSUME NEW p \in ApplyCall \cup Endpoint, lock' = Enqueued(p)
      PROVE  lock' \in Locks /\ Exclusion'
  BY <1>0, <1>3, LockSteps DEF Locks
<1>4. ASSUME lock.queue # <<>>, lock' = Served
      PROVE  lock' \in Locks /\ Exclusion'
  BY <1>0, <1>4, LockSteps DEF Locks
<1>5. ASSUME lock' = lock
      PROVE  lock' \in Locks /\ Exclusion'
  BY <1>0, <1>1, <1>5
<1>6. ASSUME NEW c \in ApplyCall, CheckHeader(c) \/ AwaitSave(c)
      PROVE  lock' \in Locks /\ Exclusion'
  BY <1>3, <1>5, <1>6 DEF CheckHeader, AwaitSave
<1>7. ASSUME NEW c \in ApplyCall, Validate(c)
      PROVE  lock' \in Locks /\ Exclusion'
  BY <1>4, <1>7 DEF Validate, ReadGranted
<1>8. ASSUME NEW c \in ApplyCall, LockMemory(c)
      PROVE  lock' \in Locks /\ Exclusion'
  <2>1. lock.queue # <<>> /\ lock.readers = {}
    BY <1>8 DEF LockMemory, WriteGranted, ReadGranted
  <2>2. CASE lock' = [Served EXCEPT !.writer = {c}]
    BY <1>0, <2>1, <2>2, LockSteps DEF Locks
  <2> QED BY <1>4, <1>8, <2>1, <2>2 DEF LockMemory
<1>9. ASSUME NEW c \in ApplyCall, UpdateMemory(c) \/ Cancel(c)
      PROVE  lock' \in Locks /\ Exclusion'
  BY <1>2, <1>9 DEF UpdateMemory, Cancel
<1>10. ASSUME NEW c \in ApplyCall,
              \/ Propose(c) \/ TryLockWriter(c) \/ AwaitAllowed(c)
              \/ DbWrite(c) \/ DbCommit(c) \/ SaveBlock(c)
       PROVE  lock' \in Locks /\ Exclusion'
  BY <1>5, <1>10 DEF Propose, TryLockWriter, AwaitAllowed, DbWrite, DbCommit, SaveBlock
<1>11. CASE Read
  <2>1. CASE \E e \in Endpoint : RequestRead(e)
    BY <1>3, <2>1 DEF RequestRead
  <2>2. CASE HeaderQuery \/ HeaderLoad \/ BlockLoad
    BY <1>5, <2>2 DEF HeaderQuery, HeaderLoad, BlockLoad
  <2>3. CASE HeaderOpen \/ BlockCheck
    BY <1>4, <2>3 DEF HeaderOpen, BlockCheck, ReadGranted
  <2>4. CASE SyncQuery \/ PeaksQuery
    BY <1>2, <2>4 DEF SyncQuery, PeaksQuery
  <2>5. CASE SyncLock \/ PeaksLock \/ PeaksCompare
    <3>1. lock.queue # <<>> /\ lock.writer = {}
      BY <2>5 DEF SyncLock, PeaksLock, PeaksCompare, ReadGranted
    <3>2. Served \in Locks /\ Served.writer = {}
      BY <1>0, <3>1, LockSteps DEF Locks
    <3>3. CASE SyncLock
      BY <3>2, <3>3 DEF SyncLock, At, Locks
    <3>4. CASE PeaksLock
      <4>1. "peaks" \in Endpoint /\ Served.queue \in Seq(ApplyCall \cup Endpoint)
        BY <3>2, <3>4 DEF PeaksLock, At, Locks
      <4>2. Append(Served.queue, "peaks") \in Seq(ApplyCall \cup Endpoint)
        BY <4>1, AppendProperties
      <4> QED BY <3>2, <3>4, <4>1, <4>2 DEF PeaksLock, Locks
    <3>5. CASE PeaksCompare
      BY <3>2, <3>5 DEF PeaksCompare, At, Locks
    <3> QED BY <2>5, <3>3, <3>4, <3>5
  <2> QED BY <1>11, <2>1, <2>2, <2>3, <2>4, <2>5 DEF Read, ReaderStep
<1>12. CASE Crash
  BY <1>12 DEF Crash, Locks
<1>13. CASE UNCHANGED vars
  BY <1>5, <1>13 DEF vars
<1> QED
  BY <1>6, <1>7, <1>8, <1>9, <1>10, <1>11, <1>12, <1>13, NextCases

(* Every step keeps the types of the readers.                               *)
LEMMA ReaderTypeStep ==
    ASSUME TypeOK, [Next]_vars
    PROVE  ReaderType'
<1>0. ReaderType
  BY DEF TypeOK
<1>1. ASSUME NEW e \in Endpoint,
             NEW step \in {"idle", "queried", "waiting", "holding", "comparing", "loading"},
             NEW seen \in Nat, GoTo(e, step, seen)
      PROVE  ReaderType'
  BY <1>0, <1>1 DEF GoTo, ReaderType
<1>2. ASSUME NEW e \in Endpoint, NEW ok, Reply(e, ok)
      PROVE  ReaderType'
  BY <1>0, <1>2 DEF Reply, ReaderType
<1>3. CASE Read
  <2>1. ASSUME NEW e \in Endpoint, RequestRead(e)
        PROVE  ReaderType'
    BY <1>0, <1>1, <2>1 DEF RequestRead, ReaderType
  <2>2. Len(db) \in Nat /\ Len(memory) \in Nat
    BY DEF TypeOK, DataType
  <2>3. CASE HeaderQuery \/ HeaderOpen \/ HeaderLoad
    BY <1>1, <1>2, <2>2, <2>3 DEF HeaderQuery, HeaderOpen, HeaderLoad, At
  <2>4. CASE SyncLock \/ SyncQuery
    BY <1>1, <1>2, <2>4 DEF SyncLock, SyncQuery, At
  <2>5. CASE PeaksLock \/ PeaksCompare \/ PeaksQuery
    BY <1>1, <1>2, <2>5 DEF PeaksLock, PeaksCompare, PeaksQuery, At
  <2>6. CASE BlockCheck \/ BlockLoad
    <3>1. CASE BlockCheck
      <4>1. ASSUME NEW n \in 1 .. Len(memory), GoTo("block", "loading", n)
            PROVE  ReaderType'
        BY <1>1, <2>2, <3>1, <4>1 DEF BlockCheck, At
      <4> QED BY <1>2, <3>1, <4>1 DEF BlockCheck, At
    <3>2. CASE BlockLoad
      BY <1>2, <3>2 DEF BlockLoad, At
    <3> QED BY <2>6, <3>1, <3>2
  <2> QED BY <1>3, <2>1, <2>3, <2>4, <2>5, <2>6 DEF Read, ReaderStep
<1>4. ASSUME NEW c \in ApplyCall,
             \/ Propose(c) \/ TryLockWriter(c) \/ CheckHeader(c) \/ Validate(c)
             \/ AwaitAllowed(c) \/ AwaitSave(c) \/ LockMemory(c) \/ UpdateMemory(c)
             \/ Cancel(c) \/ DbWrite(c) \/ DbCommit(c) \/ SaveBlock(c)
      PROVE  reader' = reader
  BY <1>4 DEF Propose, TryLockWriter, CheckHeader, Validate, AwaitAllowed, AwaitSave,
              LockMemory, UpdateMemory, Cancel, DbWrite, DbCommit, SaveBlock
<1>5. CASE Crash
  BY <1>5 DEF Crash, ReaderType
<1>6. (reader' = reader) => ReaderType'
  BY <1>0 DEF ReaderType
<1> QED BY <1>3, <1>4, <1>5, <1>6, NextCases DEF vars

(* Every step keeps every type.                                             *)
LEMMA TypeStep ==
    ASSUME TypeOK, [Next]_vars
    PROVE  TypeOK'
BY FaultTypeStep, CallTypeStep, DataTypeStep, LockTypeStep, ReaderTypeStep
   DEF TypeOK, Exclusion

(***************************************************************************)
(* Calls, chains, files, locks, readers and faults keep their types, and   *)
(* the lock is never held by a writer and by readers.                      *)
(***************************************************************************)
THEOREM TypeCorrect == Spec => []TypeOK
BY TypeInit, TypeStep, PTL DEF Spec

-----------------------------------------------------------------------------
(* Who holds mutex and write lock, and the handshake                        *)

(* At most one call is behind the writer lock, through drops and restarts   *)
(* too.                                                                     *)
LEMMA ExclusiveStep ==
    ASSUME TypeOK, Exclusive, [Next]_vars
    PROVE  Exclusive'
<1> USE DEF Exclusive, Holding
<1>0. CallType /\ LockType
  BY DEF TypeOK
<1>1. ASSUME NEW c \in ApplyCall, Propose(c)
      PROVE  Exclusive'
  BY <1>0, <1>1 DEF Propose, CallType
<1>2. ASSUME NEW c \in ApplyCall, TryLockWriter(c)
      PROVE  Exclusive'
  BY <1>0, <1>2 DEF TryLockWriter, CallType
<1>3. ASSUME NEW c \in ApplyCall, CheckHeader(c)
      PROVE  Exclusive'
  BY <1>0, <1>3, LockSteps DEF CheckHeader, Leave, CallType
<1>4. ASSUME NEW c \in ApplyCall, Validate(c)
      PROVE  Exclusive'
  <2>1. lock'.writer = lock.writer
    BY <1>0, <1>4, LockSteps DEF Validate, ReadGranted
  <2>2. CASE pc' = [pc EXCEPT ![c] = "allowed"] /\ UNCHANGED writer
    BY <1>0, <1>4, <2>1, <2>2 DEF Validate, CallType
  <2>3. CASE Leave(c, "failed")
    BY <1>0, <1>4, <2>1, <2>3 DEF Validate, Leave, CallType
  <2> QED BY <1>4, <2>2, <2>3 DEF Validate
<1>5. ASSUME NEW c \in ApplyCall, AwaitAllowed(c)
      PROVE  Exclusive'
  BY <1>0, <1>5 DEF AwaitAllowed, Leave, CallType
<1>6. ASSUME NEW c \in ApplyCall, AwaitSave(c)
      PROVE  Exclusive'
  BY <1>0, <1>6, LockSteps DEF AwaitSave, Leave, CallType
<1>7. ASSUME NEW c \in ApplyCall, LockMemory(c)
      PROVE  Exclusive'
  <2>1. lock.queue # <<>> /\ lock.writer = {}
    BY <1>7 DEF LockMemory, WriteGranted, ReadGranted
  <2>2. CASE memory = base[c]
    <3>1. lock'.writer = {c}
      BY <1>0, <1>7, <2>1, <2>2, LockSteps DEF LockMemory
    <3> QED BY <1>0, <1>7, <2>1, <2>2, <3>1 DEF LockMemory, CallType
  <2>3. CASE memory # base[c]
    <3>1. lock'.writer = {}
      BY <1>0, <1>7, <2>1, <2>3, LockSteps DEF LockMemory
    <3> QED BY <1>0, <1>7, <2>1, <2>3, <3>1 DEF LockMemory, Leave, CallType
  <2> QED BY <2>2, <2>3
<1>8. ASSUME NEW c \in ApplyCall, UpdateMemory(c) \/ Cancel(c)
      PROVE  Exclusive'
  <2>1. lock'.writer = lock.writer \ {c}
    BY <1>0, <1>8, LockSteps DEF UpdateMemory, Cancel
  <2>2. \E how \in {"ok", "failed", "cancelled"} : Leave(c, how)
    BY <1>8 DEF UpdateMemory, Cancel
  <2> QED BY <1>0, <2>1, <2>2 DEF Leave, CallType
<1>9. ASSUME NEW c \in ApplyCall, DbWrite(c) \/ DbCommit(c) \/ SaveBlock(c)
      PROVE  Exclusive'
  BY <1>9 DEF DbWrite, DbCommit, SaveBlock
<1>10. CASE Crash
  BY <1>0, <1>10 DEF Crash, CallType
<1>11. CASE Read \/ UNCHANGED vars
  BY <1>0, <1>11, ReadFrame DEF vars, applying
<1> QED
  BY <1>1, <1>2, <1>3, <1>4, <1>5, <1>6, <1>7, <1>8, <1>9, <1>10, <1>11, NextCases

(* Every step keeps what a call and its database task know of each other.   *)
LEMMA HandshakeStep ==
    ASSUME TypeOK, Handshake, [Next]_vars
    PROVE  Handshake'
<1> USE DEF Handshake, CallType, Returned
<1>0. CallType
  BY DEF TypeOK
<1>1. ASSUME NEW c \in ApplyCall, Propose(c) \/ TryLockWriter(c)
      PROVE  Handshake'
  BY <1>0, <1>1 DEF Propose, TryLockWriter
<1>2. ASSUME NEW c \in ApplyCall, CheckHeader(c)
      PROVE  Handshake'
  BY <1>0, <1>2 DEF CheckHeader, Leave
<1>3. ASSUME NEW c \in ApplyCall, Validate(c)
      PROVE  Handshake'
  BY <1>0, <1>3 DEF Validate, Leave
<1>4. ASSUME NEW c \in ApplyCall, AwaitAllowed(c)
      PROVE  Handshake'
  BY <1>0, <1>4 DEF AwaitAllowed, Leave
<1>5. ASSUME NEW c \in ApplyCall, AwaitSave(c)
      PROVE  Handshake'
  BY <1>0, <1>5 DEF AwaitSave, Leave
<1>6. ASSUME NEW c \in ApplyCall, LockMemory(c)
      PROVE  Handshake'
  BY <1>0, <1>6 DEF LockMemory, Leave
<1>7. ASSUME NEW c \in ApplyCall, UpdateMemory(c)
      PROVE  Handshake'
  BY <1>0, <1>7 DEF UpdateMemory, Leave
<1>8. ASSUME NEW c \in ApplyCall, Cancel(c)
      PROVE  Handshake'
  BY <1>0, <1>8 DEF Cancel, Leave
<1>9. ASSUME NEW c \in ApplyCall, DbWrite(c)
      PROVE  Handshake'
  BY <1>0, <1>9 DEF DbWrite
<1>10. ASSUME NEW c \in ApplyCall, DbCommit(c)
      PROVE  Handshake'
  BY <1>0, <1>10 DEF DbCommit
<1>11. ASSUME NEW c \in ApplyCall, SaveBlock(c)
      PROVE  Handshake'
  BY <1>0, <1>11 DEF SaveBlock
<1>12. CASE Crash
  BY <1>0, <1>12 DEF Crash
<1>13. CASE Read \/ UNCHANGED vars
  BY <1>13, ReadFrame DEF TypeOK, vars, applying
<1> QED
  BY <1>1, <1>2, <1>3, <1>4, <1>5, <1>6, <1>7, <1>8, <1>9, <1>10, <1>11, <1>12, <1>13,
     NextCases

-----------------------------------------------------------------------------
(* The chain                                                                *)

(* A transaction is told to commit only by the handler that holds the lock, *)
(* or one that was dropped.                                                 *)
LEMMA WhoCommits ==
    ASSUME TypeOK, Handshake, NEW c \in ApplyCall,
           dbtx[c] = "waiting", done_signal[c] = "sent"
    PROVE  pc[c] \in {"committing", "cancelled"}
BY DEF TypeOK, CallType, Handshake, Returned

(* What appending to a chain leaves as it was.                              *)
LEMMA Appended ==
    ASSUME NEW s \in Seq(ApplyCall), NEW c \in ApplyCall
    PROVE  /\ Append(s, c) \in Seq(ApplyCall)
           /\ Len(Append(s, c)) = Len(s) + 1
           /\ \A i \in 1 .. Len(s) : Append(s, c)[i] = s[i]
           /\ Append(s, c)[Len(s) + 1] = c
           /\ ToSet(Append(s, c)) = ToSet(s) \cup {c}
           /\ BuiltOn(s, Append(s, c))
<1>1. /\ Append(s, c) \in Seq(ApplyCall)
      /\ Len(Append(s, c)) = Len(s) + 1
      /\ \A i \in 1 .. Len(s) : Append(s, c)[i] = s[i]
      /\ Append(s, c)[Len(s) + 1] = c
  BY AppendProperties
<1>2. DOMAIN s = 1 .. Len(s) /\ DOMAIN Append(s, c) = 1 .. Len(s) + 1
  BY <1>1, LenProperties
<1>3. ToSet(Append(s, c)) = ToSet(s) \cup {c}
  BY <1>1, <1>2 DEF ToSet
<1> QED BY <1>1, <1>3 DEF BuiltOn

(* Every step keeps the block of a call next after the chain it was checked *)
(* against.                                                                 *)
LEMMA ChainedStep ==
    ASSUME TypeOK, Handshake, Chained, [Next]_vars
    PROVE  Chained'
<1> USE DEF Positioned, OneWaiting
<1>0. CallType /\ DataType
  BY DEF TypeOK
<1>1. ASSUME NEW c \in ApplyCall, Propose(c)
      PROVE  Chained'
  BY <1>0, <1>1 DEF Propose, Chained, Handshake, CallType
<1>2. ASSUME NEW c \in ApplyCall, TryLockWriter(c) \/ AwaitAllowed(c) \/ AwaitSave(c)
      PROVE  Chained'
  BY <1>0, <1>2 DEF TryLockWriter, AwaitAllowed, AwaitSave, Leave, Chained, CallType
<1>3. ASSUME NEW c \in ApplyCall, CheckHeader(c)
      PROVE  Chained'
  BY <1>0, <1>3 DEF CheckHeader, Leave, Chained, BuiltOn, CallType, DataType
<1>4. ASSUME NEW c \in ApplyCall, Validate(c)
      PROVE  Chained'
  <2>1. /\ UNCHANGED <<db, memory, base>>
        /\ dbtx[c] = "none" /\ BuiltOn(base[c], db)
    BY <1>4 DEF Validate, Chained, Handshake
  <2>2. \A d \in ToSet(db) : d # c
    BY <2>1 DEF Chained
  <2>3. CASE pc' = [pc EXCEPT ![c] = "allowed"] /\ dbtx' = [dbtx EXCEPT ![c] = "writing"]
    <3>1. /\ pc'[c] = "allowed" /\ dbtx'[c] = "writing"
          /\ \A d \in ApplyCall \ {c} : pc'[d] = pc[d] /\ dbtx'[d] = dbtx[d]
      BY <1>0, <2>3 DEF CallType
    <3>2. ToSet(db) \subseteq ApplyCall
      BY <1>0 DEF DataType, ToSet
    <3> QED BY <2>1, <2>2, <3>1, <3>2 DEF Chained
  <2>4. CASE pc' = [pc EXCEPT ![c] = "failed"] /\ UNCHANGED dbtx
    BY <1>0, <2>1, <2>4 DEF Chained, CallType
  <2> QED BY <1>4, <2>3, <2>4 DEF Validate, Leave
<1>5. ASSUME NEW c \in ApplyCall, LockMemory(c) \/ Cancel(c) \/ SaveBlock(c)
      PROVE  Chained'
  BY <1>0, <1>5 DEF LockMemory, Cancel, SaveBlock, Leave, Chained, CallType
<1>6. ASSUME NEW c \in ApplyCall, UpdateMemory(c)
      PROVE  Chained'
  <2>1. UNCHANGED <<db, base, dbtx>>
    BY <1>6 DEF UpdateMemory
  <2>2. CASE dbtx[c] = "committed" /\ memory' = Append(memory, c) /\ Leave(c, "ok")
    <3>1. c \in ToSet(db)
      <4>1. Len(base[c]) < Len(db) /\ db[Len(base[c]) + 1] = c
        BY <2>2 DEF Chained
      <4>2. Len(base[c]) \in Nat /\ Len(db) \in Nat /\ DOMAIN db = 1 .. Len(db)
        BY <1>0 DEF CallType, DataType
      <4> QED BY <4>1, <4>2 DEF ToSet
    <3>2. ToSet(memory') = ToSet(memory) \cup {c}
      BY <1>0, <2>2, Appended DEF DataType
    <3> QED BY <1>0, <2>1, <2>2, <3>1, <3>2 DEF Leave, Chained, CallType
  <2>3. CASE Leave(c, "failed") /\ UNCHANGED memory
    BY <1>0, <2>1, <2>3 DEF Leave, Chained, CallType
  <2> QED BY <1>6, <2>2, <2>3 DEF UpdateMemory
<1>7. ASSUME NEW c \in ApplyCall, DbWrite(c)
      PROVE  Chained'
  <2>1. UNCHANGED <<db, memory, pc, base>> /\ dbtx[c] = "writing"
    BY <1>7 DEF DbWrite
  <2>2. CASE dbtx' = [dbtx EXCEPT ![c] = "failed"]
    BY <1>0, <2>1, <2>2 DEF Chained, CallType
  <2>3. CASE /\ dbtx' = [dbtx EXCEPT ![c] = "waiting"]
             /\ Len(db) = Len(base[c])
             /\ \A d \in ApplyCall : dbtx[d] # "waiting"
    <3>1. base[c] = db
      <4>1. base[c] \in Seq(ApplyCall) /\ db \in Seq(ApplyCall)
        BY <1>0 DEF CallType, DataType
      <4>2. \A i \in 1 .. Len(base[c]) : base[c][i] = db[i]
        BY <2>1 DEF Chained, BuiltOn
      <4> QED BY <2>3, <4>1, <4>2, SeqEqual
    <3> QED BY <1>0, <2>1, <2>3, <3>1 DEF Chained, CallType
  <2> QED BY <1>7, <2>2, <2>3 DEF DbWrite
<1>8. ASSUME NEW c \in ApplyCall, DbCommit(c)
      PROVE  Chained'
  <2>1. UNCHANGED <<memory, pc, base>> /\ dbtx[c] = "waiting"
    BY <1>8 DEF DbCommit
  <2>2. CASE dbtx' = [dbtx EXCEPT ![c] = "failed"] /\ UNCHANGED db
    BY <1>0, <2>1, <2>2 DEF Chained, CallType
  <2>3. CASE dbtx' = [dbtx EXCEPT ![c] = "committed"] /\ db' = Append(db, c)
    <3>1. /\ Len(db') = Len(db) + 1 /\ db'[Len(db) + 1] = c
          /\ \A i \in 1 .. Len(db) : db'[i] = db[i]
          /\ ToSet(db') = ToSet(db) \cup {c}
      BY <1>0, <2>3, Appended DEF DataType
    <3>2. base[c] = db
      BY <2>1 DEF Chained
    <3>3. Len(db) \in Nat /\ \A d \in ApplyCall : Len(base[d]) \in Nat
      BY <1>0 DEF CallType, DataType
    <3>4. ASSUME NEW d \in ApplyCall
          PROVE  Positioned(d)'
      <4>1. CASE d = c
        <5>1. pc[c] # "reading" /\ dbtx'[c] = "committed"
          BY <1>0, <2>1, <2>3 DEF Handshake, CallType
        <5> QED BY <2>1, <3>1, <3>2, <3>3, <4>1, <5>1 DEF Chained
      <4>2. CASE d # c
        <5>1. dbtx'[d] = dbtx[d] /\ dbtx[d] # "waiting"
          BY <1>0, <2>1, <2>3, <4>2 DEF Chained, CallType
        <5>2. Positioned(d)
          BY DEF Chained
        <5>3. BuiltOn(base[d], db) => BuiltOn(base[d], db')
          BY <3>1, <3>3 DEF BuiltOn
        <5>4. Len(base[d]) < Len(db) => Len(base[d]) + 1 \in 1 .. Len(db)
          BY <3>3
        <5> QED BY <2>1, <3>1, <3>3, <5>1, <5>2, <5>3, <5>4
      <4> QED BY <4>1, <4>2
    <3> QED BY <1>0, <2>1, <2>3, <3>1, <3>4 DEF Chained, CallType
  <2> QED BY <1>8, <2>2, <2>3 DEF DbCommit
<1>9. CASE Crash
  <2>1. /\ UNCHANGED <<db, base>> /\ memory' = db
        /\ \A c \in ApplyCall :
             /\ pc'[c] # "reading" /\ dbtx'[c] \notin {"writing", "waiting"}
             /\ dbtx'[c] = "committed" <=> dbtx[c] = "committed"
             /\ pc'[c] = "ok" => pc[c] = "ok"
    BY <1>0, <1>9 DEF Crash, CallType
  <2>2. ToSet(db) \subseteq ApplyCall
    BY <1>0 DEF DataType, ToSet
  <2> QED BY <2>1, <2>2 DEF Chained
<1>10. CASE Read \/ UNCHANGED vars
  BY <1>10, ReadFrame DEF TypeOK, Chained, vars, applying
<1> QED
  BY <1>1, <1>2, <1>3, <1>4, <1>5, <1>6, <1>7, <1>8, <1>9, <1>10, NextCases

-----------------------------------------------------------------------------
(* Memory and database                                                      *)

(* As long as no call was dropped, memory and database differ by at most    *)
(* the block of the call in between.                                        *)
LEMMA InStepStep ==
    ASSUME TypeOK, Exclusive, Handshake, Chained, InStep, [Next]_vars
    PROVE  InStep'
<1> SUFFICES ASSUME Undropped, Undropped'
             PROVE  InStep'
  BY FaultTypeStep DEF InStep
<1> USE DEF InStep
<1>0. CallType /\ DataType /\ LockType
  BY DEF TypeOK
<1>1. ASSUME NEW c \in ApplyCall, Propose(c) \/ TryLockWriter(c)
      PROVE  InStep'
  BY <1>0, <1>1 DEF Propose, TryLockWriter, CallType
<1>2. ASSUME NEW c \in ApplyCall, CheckHeader(c)
      PROVE  InStep'
  <2>1. lock'.writer = lock.writer
    BY <1>0, <1>2, LockSteps DEF CheckHeader
  <2> QED BY <1>0, <1>2, <2>1 DEF CheckHeader, Leave, CallType
<1>3. ASSUME NEW c \in ApplyCall, Validate(c)
      PROVE  InStep'
  <2>1. lock'.writer = lock.writer
    BY <1>0, <1>3, LockSteps DEF Validate, ReadGranted
  <2>2. dbtx[c] = "none" /\ pc[c] = "reading" /\ UNCHANGED <<db, memory, base>>
    BY <1>3 DEF Validate, Handshake
  <2>3. CASE pc' = [pc EXCEPT ![c] = "allowed"] /\ dbtx' = [dbtx EXCEPT ![c] = "writing"]
    BY <1>0, <2>1, <2>2, <2>3 DEF CallType
  <2>4. CASE Leave(c, "failed") /\ UNCHANGED dbtx
    BY <1>0, <2>1, <2>2, <2>4 DEF Leave, CallType
  <2> QED BY <1>3, <2>3, <2>4 DEF Validate
<1>4. ASSUME NEW c \in ApplyCall, AwaitAllowed(c)
      PROVE  InStep'
  BY <1>0, <1>4 DEF AwaitAllowed, Leave, CallType
<1>5. ASSUME NEW c \in ApplyCall, AwaitSave(c)
      PROVE  InStep'
  <2>1. lock'.writer = lock.writer
    BY <1>0, <1>5, LockSteps DEF AwaitSave
  <2> QED BY <1>0, <1>5, <2>1 DEF AwaitSave, Leave, CallType
<1>6. ASSUME NEW c \in ApplyCall, LockMemory(c)
      PROVE  InStep'
  <2>1. memory = db /\ dbtx[c] = "waiting" /\ UNCHANGED <<db, memory, base, dbtx>>
    BY <1>6 DEF LockMemory, WriteGranted, ReadGranted, Handshake
  <2>2. \E how \in {"committing", "failed"} : pc' = [pc EXCEPT ![c] = how]
    BY <1>6 DEF LockMemory, Leave
  <2>3. \A d \in ApplyCall : pc[d] # "committing"
    BY <1>6 DEF LockMemory, WriteGranted, ReadGranted, Exclusive
  <2> QED BY <1>0, <2>1, <2>2, <2>3 DEF CallType
<1>7. ASSUME NEW c \in ApplyCall, UpdateMemory(c)
      PROVE  InStep'
  <2>1. memory' = db /\ UNCHANGED <<db, base, dbtx>>
    BY <1>0, <1>7 DEF UpdateMemory
  <2>2. \E how \in {"ok", "failed"} : pc' = [pc EXCEPT ![c] = how]
    BY <1>7 DEF UpdateMemory, Leave
  <2>3. \A d \in ApplyCall : d # c => pc[d] \notin Holding
    BY <1>0, <1>7 DEF UpdateMemory, Exclusive, Holding
  <2> QED BY <1>0, <2>1, <2>2, <2>3 DEF CallType, Holding
<1>8. ASSUME NEW c \in ApplyCall, Cancel(c)
      PROVE  FALSE
  BY <1>8 DEF Cancel, Fault, Undropped, TypeOK, FaultType
<1>9. ASSUME NEW c \in ApplyCall, DbWrite(c)
      PROVE  InStep'
  <2>1. dbtx[c] = "writing" /\ pc[c] # "committing" /\ UNCHANGED <<db, memory, base, pc, lock>>
    BY <1>9 DEF DbWrite, Handshake
  <2>2. \A d \in ApplyCall : d # c => dbtx'[d] = dbtx[d]
    BY <1>0, <1>9 DEF DbWrite, CallType
  <2> QED BY <2>1, <2>2
<1>10. ASSUME NEW c \in ApplyCall, DbCommit(c)
       PROVE  InStep'
  <2>1. dbtx[c] = "waiting" /\ UNCHANGED <<memory, base, pc, lock>>
    BY <1>10 DEF DbCommit
  <2>2. CASE db' = Append(db, c) /\ dbtx' = [dbtx EXCEPT ![c] = "committed"]
             /\ done_signal[c] = "sent"
    <3>1. pc[c] = "committing"
      BY <2>1, <2>2, WhoCommits
    <3>2. \A d \in ApplyCall : d # c => pc[d] \notin Holding
      BY <1>0, <3>1 DEF Exclusive, Holding
    <3>3. lock.writer # {} /\ dbtx'[c] = "committed" /\ db = memory
      BY <1>0, <2>1, <2>2, <3>1 DEF Exclusive, CallType
    <3> QED BY <2>1, <2>2, <3>1, <3>2, <3>3 DEF Holding
  <2>3. CASE UNCHANGED db /\ dbtx' = [dbtx EXCEPT ![c] = "failed"]
    BY <1>0, <2>1, <2>3 DEF CallType
  <2> QED BY <1>10, <2>2, <2>3 DEF DbCommit
<1>11. ASSUME NEW c \in ApplyCall, SaveBlock(c)
       PROVE  InStep'
  BY <1>11 DEF SaveBlock
<1>12. CASE Crash
  BY <1>0, <1>12 DEF Crash, CallType
<1>13. CASE Read \/ UNCHANGED vars
  BY <1>0, <1>13, ReadFrame DEF vars, applying
<1> QED
  BY <1>1, <1>2, <1>3, <1>4, <1>5, <1>6, <1>7, <1>8, <1>9, <1>10, <1>11, <1>12, <1>13,
     NextCases

-----------------------------------------------------------------------------
(* Block files                                                              *)

(* A file that was right stays right as long as it is not written and no    *)
(* refused call becomes something else.                                     *)
LEMMA StoredFrame ==
    ASSUME UNCHANGED <<files, base>>, \A d \in ApplyCall : pc[d] = "failed" => pc'[d] = "failed",
           DataType, NEW n, NEW c, Stored(n, c)
    PROVE  Stored(n, c)'
BY DEF Stored, DataType

(* As long as no call was dropped, the file of a block is there when the    *)
(* database has the block.                                                  *)
LEMMA FiledStep ==
    ASSUME TypeOK, Exclusive, Handshake, Chained, InStep, Filed, [Next]_vars
    PROVE  Filed'
<1> SUFFICES ASSUME Undropped, Undropped'
             PROVE  Filed'
  BY FaultTypeStep DEF Filed
<1>0. CallType /\ DataType
  BY DEF TypeOK
<1>1. ASSUME UNCHANGED <<files, base, db>>,
             \A c \in ApplyCall :
                /\ pc[c] = "failed" => pc'[c] = "failed"
                /\ pc'[c] \in Holding /\ save'[c] = "done" => pc[c] \in Holding /\ save[c] = "done"
      PROVE  Filed'
  BY <1>0, <1>1, StoredFrame DEF Filed
<1>2. ASSUME NEW c \in ApplyCall, Propose(c)
      PROVE  Filed'
  <2>1. /\ UNCHANGED <<files, db, save>> /\ pc[c] = "idle" /\ pc'[c] = "called"
        /\ \A d \in ApplyCall : d # c => pc'[d] = pc[d] /\ base'[d] = base[d]
    BY <1>0, <1>2 DEF Propose, CallType
  <2>2. ASSUME NEW n, NEW d, Stored(n, d)
        PROVE  Stored(n, d)'
    BY <1>0, <2>1, <2>2 DEF Stored, DataType
  <2> QED BY <2>1, <2>2 DEF Filed, Holding
<1>3. ASSUME NEW c \in ApplyCall, TryLockWriter(c) \/ CheckHeader(c)
      PROVE  Filed'
  <2>1. /\ UNCHANGED <<files, base, db>> /\ pc[c] \in {"called", "header"} /\ save'[c] # "done"
        /\ \A d \in ApplyCall : d # c => pc'[d] = pc[d] /\ save'[d] = save[d]
    BY <1>0, <1>3 DEF TryLockWriter, CheckHeader, Leave, CallType, Handshake
  <2> QED BY <1>1, <2>1
<1>4. ASSUME NEW c \in ApplyCall, \/ Validate(c) \/ AwaitAllowed(c) \/ AwaitSave(c)
                                 \/ LockMemory(c) \/ UpdateMemory(c)
      PROVE  Filed'
  <2>1. /\ UNCHANGED <<files, base, db, save>> /\ pc[c] \in Holding
        /\ \A d \in ApplyCall : d # c => pc'[d] = pc[d]
    BY <1>0, <1>4 DEF Validate, AwaitAllowed, AwaitSave, LockMemory, UpdateMemory, Leave,
                      CallType, Holding
  <2> QED BY <1>1, <2>1 DEF Holding
<1>5. ASSUME NEW c \in ApplyCall, Cancel(c)
      PROVE  FALSE
  BY <1>5 DEF Cancel, Fault, Undropped, TypeOK, FaultType
<1>6. ASSUME NEW c \in ApplyCall, DbWrite(c)
      PROVE  Filed'
  BY <1>1, <1>6 DEF DbWrite
<1>7. ASSUME NEW c \in ApplyCall, DbCommit(c)
      PROVE  Filed'
  <2>1. CASE UNCHANGED db
    BY <1>1, <1>7, <2>1 DEF DbCommit
  <2>2. CASE db' = Append(db, c) /\ done_signal[c] = "sent"
    <3>1. dbtx[c] = "waiting" /\ UNCHANGED <<files, base, pc, save>>
      BY <1>7 DEF DbCommit
    <3>2. pc[c] = "committing" /\ base[c] = db
      BY <2>2, <3>1, WhoCommits DEF InStep, Chained, Positioned
    <3>3. Stored(Len(db) + 1, c)
      BY <3>2 DEF Filed, Handshake, Holding
    <3>4. ASSUME NEW n \in DOMAIN db'
          PROVE  Stored(n, db'[n])
      <4>1. /\ Len(db) \in Nat /\ DOMAIN db = 1 .. Len(db)
            /\ DOMAIN db' = 1 .. Len(db) + 1 /\ db'[Len(db) + 1] = c
            /\ \A i \in 1 .. Len(db) : db'[i] = db[i]
        <5>1. db \in Seq(ApplyCall) /\ db' \in Seq(ApplyCall) /\ Len(db') = Len(db) + 1
          BY <1>0, <2>2, Appended DEF DataType
        <5> QED BY <2>2, <5>1, Appended, LenProperties
      <4>2. CASE n = Len(db) + 1
        BY <3>3, <4>1, <4>2
      <4>3. CASE n \in 1 .. Len(db)
        BY <4>1, <4>3 DEF Filed
      <4> QED BY <4>1, <4>2, <4>3
    <3>5. ASSUME NEW n, NEW d, Stored(n, d)
          PROVE  Stored(n, d)'
      BY <1>0, <3>1, <3>5, StoredFrame
    <3>6. Filed
      OBVIOUS
    <3> QED BY <3>1, <3>4, <3>5, <3>6 DEF Filed
  <2> QED BY <1>7, <2>1, <2>2 DEF DbCommit
<1>8. ASSUME NEW c \in ApplyCall, SaveBlock(c)
      PROVE  Filed'
  <2>1. save[c] = "running" /\ UNCHANGED <<db, pc, base>>
    BY <1>8 DEF SaveBlock
  <2>2. CASE save' = [save EXCEPT ![c] = "failed"] /\ UNCHANGED files
    <3>1. \A d \in ApplyCall : save'[d] = "done" => save[d] = "done"
      BY <1>0, <2>2 DEF CallType
    <3> QED BY <1>1, <2>1, <2>2, <3>1
  <2>3. CASE save' = [save EXCEPT ![c] = "done"]
    <3> DEFINE h == Len(base[c]) + 1
    <3>1. /\ DOMAIN files' = DOMAIN files \cup {h} /\ files'[h] = c
          /\ \A n \in DOMAIN files : n # h => files'[n] = files[n]
          /\ h \in Nat /\ Len(base[c]) = h - 1
      BY <1>0, <1>8, <2>3 DEF SaveBlock, CallType
    <3>2. pc[c] \in {"reading", "allowed", "saving", "failed"}
      BY <1>0, <2>1 DEF Handshake, InStep, CallType, Returned
    <3>3. pc[c] # "failed" => base[c] = db
      BY <3>2 DEF InStep
    <3>5. ASSUME NEW n \in DOMAIN db, n = h
          PROVE  pc[c] = "failed"
      BY <1>0, <3>1, <3>3, <3>5 DEF DataType
    <3>6. ASSUME NEW d \in ApplyCall, pc[d] \in Holding, save'[d] = "done"
          PROVE  Stored(Len(base[d]) + 1, d)'
      <4>1. CASE d = c
        BY <2>1, <3>1, <4>1 DEF Stored
      <4>2. CASE d # c
        <5>1. save[d] = "done"
          BY <1>0, <2>3, <3>6, <4>2 DEF CallType
        <5>2. pc[c] = "failed"
          BY <3>2, <3>6, <4>2 DEF Exclusive, Holding
        <5>3. Stored(Len(base[d]) + 1, d)
          BY <3>6, <5>1 DEF Filed
        <5> QED BY <2>1, <3>1, <5>2, <5>3 DEF Stored
      <4> QED BY <4>1, <4>2
    <3>7. ASSUME NEW n \in DOMAIN db
          PROVE  Stored(n, db[n])'
      <4>1. Stored(n, db[n])
        BY DEF Filed
      <4>2. n \in Nat /\ (n = h => pc[c] = "failed")
        BY <1>0, <3>5 DEF DataType
      <4> QED BY <2>1, <3>1, <4>1, <4>2 DEF Stored
    <3> QED BY <2>1, <3>6, <3>7 DEF Filed
  <2> QED BY <1>8, <2>2, <2>3 DEF SaveBlock
<1>9. CASE Crash
  <2>1. /\ UNCHANGED <<files, base, db>>
        /\ \A c \in ApplyCall : /\ pc[c] = "failed" => pc'[c] = "failed"
                               /\ pc'[c] \notin Holding
    BY <1>0, <1>9 DEF Crash, CallType, Holding
  <2> QED BY <1>1, <2>1
<1>10. CASE Read \/ UNCHANGED vars
  BY <1>1, <1>10, ReadFrame DEF TypeOK, vars, applying
<1> QED
  BY <1>2, <1>3, <1>4, <1>5, <1>6, <1>7, <1>8, <1>9, <1>10, NextCases

-----------------------------------------------------------------------------
(* Read endpoints                                                           *)

(* The database only grows.                                                 *)
LEMMA DatabaseGrows ==
    ASSUME TypeOK, [Next]_vars
    PROVE  Len(db) <= Len(db')
<1>0. db \in Seq(ApplyCall) /\ Len(db) \in Nat
  BY DEF TypeOK, DataType
<1>1. ASSUME NEW c \in ApplyCall, DbCommit(c)
      PROVE  Len(db) <= Len(db')
  BY <1>0, <1>1, Appended DEF DbCommit
<1>2. ASSUME NEW c \in ApplyCall,
             \/ Propose(c) \/ TryLockWriter(c) \/ CheckHeader(c) \/ Validate(c)
             \/ AwaitAllowed(c) \/ AwaitSave(c) \/ LockMemory(c) \/ UpdateMemory(c)
             \/ Cancel(c) \/ DbWrite(c) \/ SaveBlock(c)
      PROVE  db' = db
  BY <1>2 DEF Propose, TryLockWriter, CheckHeader, Validate, AwaitAllowed, AwaitSave,
              LockMemory, UpdateMemory, Cancel, DbWrite, SaveBlock
<1>3. Read \/ Crash \/ UNCHANGED vars => db' = db
  BY ReadFrame DEF TypeOK, Crash, vars
<1> QED BY <1>0, <1>1, <1>2, <1>3, NextCases

(* Handlers of apply_block leave the readers' guards alone.                 *)
LEMMA CallsLeaveReaders ==
    ASSUME TypeOK, NEW c \in ApplyCall,
           \/ Propose(c) \/ TryLockWriter(c) \/ CheckHeader(c) \/ Validate(c)
           \/ AwaitAllowed(c) \/ AwaitSave(c) \/ LockMemory(c) \/ UpdateMemory(c)
           \/ Cancel(c) \/ DbWrite(c) \/ DbCommit(c) \/ SaveBlock(c)
    PROVE  UNCHANGED reader /\ lock'.readers = lock.readers
<1>0. LockType /\ lock.readers \subseteq Endpoint
  BY DEF TypeOK, LockType
<1>1. lock.readers \ {c} = lock.readers
  BY <1>0, StoreStateAssumption
<1>2. CASE CheckHeader(c) \/ AwaitSave(c)
  BY <1>0, <1>2, LockSteps DEF CheckHeader, AwaitSave
<1>3. CASE Validate(c)
  BY <1>0, <1>3, LockSteps DEF Validate, ReadGranted
<1>4. CASE LockMemory(c)
  <2>1. Served.readers = lock.readers /\ [Served EXCEPT !.writer = {c}].readers = lock.readers
    BY <1>0, <1>4, LockSteps DEF LockMemory, WriteGranted, ReadGranted
  <2> QED BY <1>4, <2>1 DEF LockMemory
<1>5. CASE UpdateMemory(c) \/ Cancel(c)
  BY <1>0, <1>1, <1>5, LockSteps DEF UpdateMemory, Cancel
<1>6. CASE \/ Propose(c) \/ TryLockWriter(c) \/ AwaitAllowed(c)
           \/ DbWrite(c) \/ DbCommit(c) \/ SaveBlock(c)
  BY <1>6 DEF Propose, TryLockWriter, AwaitAllowed, DbWrite, DbCommit, SaveBlock
<1> QED BY <1>2, <1>3, <1>4, <1>5, <1>6

(* What a reader took from memory stays true of the chain it goes on        *)
(* reading.                                                                 *)
LEMMA ReadersSafeStep ==
    ASSUME TypeOK, InStep, ReadersSafe, [Next]_vars
    PROVE  ReadersSafe'
<1>0. LockType /\ ReaderType /\ Exclusion /\ Len(db) \in Nat /\ Len(db') \in Nat
  BY DataTypeStep DEF TypeOK, DataType, Exclusion
<1>1. /\ \A e \in Endpoint : Guarded(e)
      /\ Undropped' => \A e \in Endpoint \ {"block"} : Answered(e)
      /\ Undropped' /\ lock.writer = {} => memory = db
  BY FaultTypeStep DEF ReadersSafe, InStep
<1>2. Len(db) <= Len(db')
  BY DatabaseGrows
<1>3. ASSUME UNCHANGED reader, lock'.readers = lock.readers
      PROVE  ReadersSafe'
  <2>1. \A e \in Endpoint : reader[e].seen \in Nat
    BY <1>0 DEF ReaderType
  <2> QED BY <1>0, <1>1, <1>2, <1>3, <2>1 DEF ReadersSafe, Guarded, Answered
<1>4. CASE Crash
  BY <1>4 DEF Crash, ReadersSafe, Guarded, Answered
<1>5. CASE UNCHANGED vars
  BY <1>3, <1>5 DEF vars
<1>6. CASE Read
  <2>0. UNCHANGED <<db, memory>>
    BY <1>0, <1>6, ReadFrame
  <2>1. ASSUME NEW e \in Endpoint, reader' = [reader EXCEPT ![e] = reader'[e]],
               Guarded(e)', Undropped' /\ e # "block" => Answered(e)',
               lock.readers \ {e} \subseteq lock'.readers
        PROVE  ReadersSafe'
    <3>1. \A d \in Endpoint : d # e => reader'[d] = reader[d]
      BY <1>0, <2>1 DEF ReaderType
    <3> QED BY <1>1, <2>0, <2>1, <3>1 DEF ReadersSafe, Guarded, Answered
  <2>2. ASSUME NEW e \in Endpoint, NEW step, NEW seen, GoTo(e, step, seen)
        PROVE  /\ reader' = [reader EXCEPT ![e] = reader'[e]]
               /\ reader'[e].step = step /\ reader'[e].seen = seen
               /\ reader'[e].reply = "none"
    BY <1>0, <2>2 DEF GoTo, ReaderType
  <2>3. ASSUME NEW e \in Endpoint, NEW ok \in BOOLEAN, Reply(e, ok)
        PROVE  /\ reader' = [reader EXCEPT ![e] = reader'[e]]
               /\ reader'[e].step = "idle"
               /\ ok => reader'[e].reply = "ok"
    BY <1>0, <2>3 DEF Reply, ReaderType
  <2>4. ASSUME NEW e \in Endpoint, RequestRead(e)
        PROVE  ReadersSafe'
    <3>1. GoTo(e, "waiting", reader[e].seen) /\ lock'.readers = lock.readers
      BY <1>0, <2>4, LockSteps DEF RequestRead
    <3>2. e = "header" => reader[e].step = "queried"
      BY <2>4 DEF RequestRead, At
    <3> QED BY <1>1, <2>0, <2>1, <2>2, <3>1, <3>2 DEF Guarded, Answered
  <2>5. CASE SyncLock
    <3>1. "sync" \in Endpoint /\ GoTo("sync", "holding", 0)
      BY <2>5 DEF SyncLock, At
    <3>2. lock'.readers = lock.readers \cup {"sync"}
      BY <1>0, <2>5, LockSteps DEF SyncLock, ReadGranted
    <3> QED BY <2>1, <2>2, <3>1, <3>2 DEF Guarded, Answered
  <2>6. CASE SyncQuery
    <3>1. "sync" \in Endpoint /\ "sync" \in lock.readers /\ Reply("sync", db = memory)
      BY <1>1, <2>6 DEF SyncQuery, At, Guarded
    <3>2. lock'.readers = lock.readers \ {"sync"}
      BY <1>0, <2>6, LockSteps DEF SyncQuery
    <3>3. Undropped' => db = memory
      BY <1>0, <1>1, <3>1 DEF Exclusion
    <3> QED BY <2>1, <2>3, <3>1, <3>2, <3>3 DEF Guarded, Answered
  <2>7. CASE HeaderQuery
    <3>1. "header" \in Endpoint /\ GoTo("header", "queried", Len(db)) /\ UNCHANGED lock
      BY <2>7 DEF HeaderQuery, At
    <3> QED BY <1>0, <2>0, <2>1, <2>2, <3>1 DEF Guarded, Answered
  <2>8. CASE HeaderOpen
    <3>1. /\ "header" \in Endpoint /\ reader["header"].step = "waiting"
          /\ lock.writer = {} /\ lock.queue # <<>> /\ lock' = Served
      BY <2>8 DEF HeaderOpen, At, ReadGranted
    <3>2. lock'.readers = lock.readers
      BY <1>0, <3>1, LockSteps
    <3>3. Undropped' => memory = db /\ reader["header"].seen <= Len(memory)
      BY <1>1, <3>1 DEF Answered
    <3>4. CASE Reply("header", reader["header"].seen <= Len(memory))
      <4>1. /\ reader' = [reader EXCEPT !["header"] = reader'["header"]]
            /\ reader'["header"].step = "idle"
            /\ Undropped' => reader'["header"].reply = "ok"
        BY <1>0, <3>1, <3>3, <3>4 DEF Reply, ReaderType
      <4> QED BY <2>1, <3>1, <3>2, <4>1 DEF Guarded, Answered
    <3>5. CASE GoTo("header", "loading", Len(memory))
      BY <1>0, <2>0, <2>1, <2>2, <3>1, <3>2, <3>3, <3>5 DEF Guarded, Answered
    <3> QED BY <2>8, <3>4, <3>5 DEF HeaderOpen
  <2>9. CASE HeaderLoad
    <3>1. /\ "header" \in Endpoint /\ reader["header"].step = "loading" /\ UNCHANGED lock
          /\ Reply("header", reader["header"].seen <= Len(db))
      BY <2>9 DEF HeaderLoad, At
    <3>2. Undropped' => reader["header"].seen <= Len(db)
      BY <1>1, <3>1 DEF Answered
    <3>3. /\ reader' = [reader EXCEPT !["header"] = reader'["header"]]
          /\ reader'["header"].step = "idle"
          /\ Undropped' => reader'["header"].reply = "ok"
      BY <1>0, <3>1, <3>2 DEF Reply, ReaderType
    <3> QED BY <2>1, <3>1, <3>3 DEF Guarded, Answered
  <2>10. CASE PeaksLock
    <3>1. /\ "peaks" \in Endpoint
          /\ GoTo("peaks", "holding", 0) \/ GoTo("peaks", "comparing", 0)
      BY <2>10 DEF PeaksLock, At
    <3>2. lock'.readers = lock.readers \cup {"peaks"}
      BY <1>0, <2>10, LockSteps DEF PeaksLock, ReadGranted
    <3> QED BY <2>1, <2>2, <3>1, <3>2 DEF Guarded, Answered
  <2>11. CASE PeaksCompare
    <3>1. "peaks" \in Endpoint /\ "peaks" \in lock.readers /\ lock.queue # <<>>
      BY <1>1, <2>11 DEF PeaksCompare, At, Guarded, ReadGranted
    <3>2. CASE lock' = [Served EXCEPT !.readers = @ \ {"peaks"}] /\ Reply("peaks", TRUE)
      <4>1. lock'.readers = lock.readers \ {"peaks"}
        BY <1>0, <3>1, <3>2, LockSteps
      <4> QED BY <2>1, <2>3, <3>1, <3>2, <4>1 DEF Guarded, Answered
    <3>3. CASE lock' = Served /\ GoTo("peaks", "holding", 0)
      <4>1. lock'.readers = lock.readers
        BY <1>0, <3>1, <3>3, LockSteps
      <4> QED BY <2>1, <2>2, <3>1, <3>3, <4>1 DEF Guarded, Answered
    <3> QED BY <2>11, <3>2, <3>3 DEF PeaksCompare
  <2>12. CASE PeaksQuery
    <3>1. /\ "peaks" \in Endpoint /\ "peaks" \in lock.readers
          /\ Reply("peaks", Len(db) <= Len(memory))
      BY <1>1, <2>12 DEF PeaksQuery, At, Guarded
    <3>2. lock'.readers = lock.readers \ {"peaks"}
      BY <1>0, <2>12, LockSteps DEF PeaksQuery
    <3>3. Undropped' => Len(db) <= Len(memory)
      BY <1>0, <1>1, <3>1 DEF Exclusion
    <3>4. /\ reader' = [reader EXCEPT !["peaks"] = reader'["peaks"]]
          /\ reader'["peaks"].step = "idle"
          /\ Undropped' => reader'["peaks"].reply = "ok"
      BY <1>0, <3>1, <3>3 DEF Reply, ReaderType
    <3> QED BY <2>1, <3>1, <3>2, <3>4 DEF Guarded, Answered
  <2>13. CASE BlockCheck \/ BlockLoad
    <3>1. "block" \in Endpoint /\ lock'.readers = lock.readers
      BY <1>0, <2>13, LockSteps DEF BlockCheck, BlockLoad, At, ReadGranted
    <3>2. /\ reader' = [reader EXCEPT !["block"] = reader'["block"]]
          /\ reader'["block"].step \in {"idle", "loading"}
      BY <2>2, <2>3, <2>13, <3>1 DEF BlockCheck, BlockLoad
    <3> QED BY <2>1, <3>1, <3>2 DEF Guarded
  <2> QED
    BY <1>6, <2>4, <2>5, <2>6, <2>7, <2>8, <2>9, <2>10, <2>11, <2>12, <2>13
       DEF Read, ReaderStep
<1> QED BY <1>3, <1>4, <1>5, <1>6, CallsLeaveReaders, NextCases

-----------------------------------------------------------------------------
(* The invariant and what follows from it                                   *)

(* The invariant holds when the store starts.                               *)
LEMMA InvInit == Init => Inv
<1> SUFFICES ASSUME Init PROVE Inv
  OBVIOUS
<1>1. TypeOK
  BY TypeInit
<1>2. Exclusive /\ Handshake /\ InStep
  BY DEF Init, Exclusive, Handshake, InStep, Holding
<1>3. Chained
  BY DEF Init, Chained, Positioned, OneWaiting, ToSet
<1>4. Filed /\ ReadersSafe
  BY DEF Init, Filed, ReadersSafe, Guarded, Answered, Holding
<1> QED BY <1>1, <1>2, <1>3, <1>4 DEF Inv

(* The invariant holds in every reachable state, for every set of blocks,   *)
(* callers and readers and every bound on faults.                           *)
THEOREM Invariance == Spec => []Inv
<1>1. Inv /\ [Next]_vars => Inv'
  BY TypeStep, ExclusiveStep, HandshakeStep, ChainedStep, InStepStep, FiledStep,
     ReadersSafeStep DEF Inv
<1> QED BY <1>1, InvInit, PTL DEF Spec

(***************************************************************************)
(* ChainExtends: the database grows only by blocks that were built on all  *)
(* of it, also when handlers were dropped and the store crashed.           *)
(***************************************************************************)
THEOREM ChainOnlyExtends == Spec => ChainExtends
<1>1. ASSUME Inv, [Next]_vars, db' # db
      PROVE  \E c \in ApplyCall : base[c] = db /\ db' = Append(db, c)
  <2>1. ASSUME NEW c \in ApplyCall, DbCommit(c)
        PROVE  base[c] = db /\ db' = Append(db, c)
    BY <1>1, <2>1 DEF DbCommit, Inv, Chained, Positioned
  <2>2. ASSUME NEW c \in ApplyCall,
               \/ Propose(c) \/ TryLockWriter(c) \/ CheckHeader(c) \/ Validate(c)
               \/ AwaitAllowed(c) \/ AwaitSave(c) \/ LockMemory(c) \/ UpdateMemory(c)
               \/ Cancel(c) \/ DbWrite(c) \/ SaveBlock(c)
        PROVE  db' = db
    BY <2>2 DEF Propose, TryLockWriter, CheckHeader, Validate, AwaitAllowed, AwaitSave,
                LockMemory, UpdateMemory, Cancel, DbWrite, SaveBlock
  <2>3. Read \/ Crash \/ UNCHANGED vars => db' = db
    BY <1>1, ReadFrame DEF Inv, TypeOK, Crash, vars
  <2> QED BY <1>1, <2>1, <2>2, <2>3, NextCases
<1>2. Inv /\ [Next]_vars =>
        [db' # db => \E c \in ApplyCall : base[c] = db /\ db' = Append(db, c)]_vars
  BY <1>1
<1> QED BY <1>2, Invariance, PTL DEF Spec, ChainExtends

(***************************************************************************)
(* ReplyMatchesState: what apply_block answered is true of database,       *)
(* memory and file, whatever happens to other calls.                       *)
(***************************************************************************)
THEOREM RepliesAreTrue == Spec => []ReplyMatchesState
<1>1. Inv => ReplyMatchesState
  <2> SUFFICES ASSUME Inv, NEW c \in ApplyCall
               PROVE  /\ pc[c] = "ok" => c \in ToSet(db) /\ c \in ToSet(memory) /\ save[c] = "done"
                      /\ pc[c] = "failed" => c \notin ToSet(db) /\ c \notin ToSet(memory)
    BY DEF ReplyMatchesState
  <2>1. pc[c] = "ok" => c \in ToSet(memory) /\ save[c] = "done"
    BY DEF Inv, Chained, Positioned, Handshake
  <2>2. pc[c] = "failed" => dbtx[c] # "committed"
    BY DEF Inv, Handshake
  <2> QED BY <2>1, <2>2 DEF Inv, Chained
<1> QED BY <1>1, Invariance, PTL

(***************************************************************************)
(* MemoryMatchesDatabase, as long as no handler was dropped: a reader      *)
(* under the lock sees in memory the chain the database has.               *)
(***************************************************************************)
THEOREM MemoryInStep == Spec => [](Undropped => MemoryMatchesDatabase)
<1>1. Inv => (Undropped => MemoryMatchesDatabase)
  BY DEF Inv, InStep, MemoryMatchesDatabase
<1> QED BY <1>1, Invariance, PTL

(***************************************************************************)
(* FilesMatchDatabase, as long as no handler was dropped: every committed  *)
(* height has a file, with its block or with a refused candidate for it.   *)
(***************************************************************************)
THEOREM FilesInStep == Spec => [](Undropped => FilesMatchDatabase)
<1>1. Inv => (Undropped => FilesMatchDatabase)
  BY DEF Inv, Filed, Stored, FilesMatchDatabase
<1> QED BY <1>1, Invariance, PTL

(***************************************************************************)
(* ReadersServed, where load_block is not called and as long as no handler *)
(* was dropped: no endpoint runs into a gap between database and memory.   *)
(***************************************************************************)
THEOREM ReadersAreServed ==
    ASSUME "block" \notin Endpoint
    PROVE  Spec => [](Undropped => ReadersServed)
<1>1. Inv => (Undropped => ReadersServed)
  BY DEF Inv, ReadersSafe, Answered, ReadersServed, ReadsSucceed
<1> QED BY <1>1, Invariance, PTL
=============================================================================

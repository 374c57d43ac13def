------------------------- MODULE ProverProxyProofs -------------------------
(***************************************************************************)
(* Proofs about the remote prover's proxy, for every number of requests,   *)
(* workers, retries and faults: the queue is never corrupted, no worker is *)
(* given to two requests behind the pool's back, and none is forgotten.    *)
(***************************************************************************)
EXTENDS ProverProxy, BasicLemmas

(* No two entries of the pool have the same address.                        *)
UniqueAddresses ==
    \A i, j \in DOMAIN workers : workers[i].addr = workers[j].addr => i = j

(* Which requests have a worker in their context.                           *)
Contexts ==
    \A r \in Requests :
        /\ req[r].pc \in {"new", "done"} => req[r].worker = None
        /\ req[r].pc \in {"picked", "connecting", "connected", "proving", "finishing"}
              => req[r].worker \in Addresses

(* OneRequestPerWorker without counting.                                    *)
SoleHolder ==
    \A a \in Addresses \ contended : \A r, s \in Holders(a) : r = s

(* A worker on offer is not held, unless something offered it again.        *)
OfferedIsFree ==
    \A i \in DOMAIN workers :
        Available(i) /\ workers[i].addr \notin contended => Holders(workers[i].addr) = {}

(* The inductive invariant.  The queue and the pool are independent of each *)
(* other; what is said about the pool needs all of its parts together.      *)
PoolInv ==
    UniqueAddresses /\ SoleHolder /\ OfferedIsFree /\ WorkersAccountedFor

Inv == TypeOK /\ Contexts /\ QueueIntact /\ PoolInv

-----------------------------------------------------------------------------
(* The pool as a sequence. *)

(* The limits are numbers.                                                  *)
LEMMA Limits ==
    /\ MaxBackoffExponent \in Nat /\ MaxBackoffExponent > 0
    /\ MaxRetriesPerRequest \in Nat /\ MaxReqPerSec \in Nat
    /\ MaxAttempts \in Nat /\ MaxFaults \in Nat
  BY ProverProxyAssumption

(* A worker's position is where its entry is.                               *)
LEMMA PositionIs ==
    ASSUME NEW a, Listed(a)
    PROVE  Position(a) \in DOMAIN workers /\ workers[Position(a)].addr = a
  BY DEF Listed, Position

(* Without leaves out the entry of the worker, and only that one.           *)
LEMMA WithoutIs ==
    ASSUME PoolType, UniqueAddresses, NEW a
    PROVE  /\ Without(a) \in Seq(Worker)
           /\ \A i \in DOMAIN Without(a) :
                \E j \in DOMAIN workers :
                   /\ Without(a)[i] = workers[j]
                   /\ workers[j].addr # a
           /\ \A i, j \in DOMAIN Without(a) :
                Without(a)[i].addr = Without(a)[j].addr => i = j
<1>1. CASE ~Listed(a)
  BY <1>1 DEF Listed, Without, PoolType, UniqueAddresses
<1>2. CASE Listed(a)
  <2> DEFINE p == Position(a)
             n == Len(workers)
             f == SubSeq(workers, 1, p - 1)
             b == SubSeq(workers, p + 1, n)
  <2>1. p \in 1 .. n /\ workers[p].addr = a /\ n \in Nat
    BY <1>2, PositionIs, LenProperties DEF PoolType
  <2>2. f \in Seq(Worker) /\ Len(f) = p - 1 /\ \A i \in 1 .. p - 1 : f[i] = workers[i]
    <3> HIDE DEF p
    <3> QED BY <2>1, SubSeqProperties DEF PoolType
  <2>3. b \in Seq(Worker) /\ Len(b) = n - p /\ \A i \in 1 .. n - p : b[i] = workers[p + i]
    <3> HIDE DEF p
    <3> QED BY <2>1, SubSeqProperties DEF PoolType
  <2>4. Without(a) = f \o b
    BY <1>2 DEF Without, RemoveAt
  <2> HIDE DEF p, n, f, b
  <2>5. /\ Without(a) \in Seq(Worker)
        /\ Len(Without(a)) = n - 1
        /\ \A i \in 1 .. n - 1 :
             Without(a)[i] = IF i < p THEN workers[i] ELSE workers[i + 1]
    <3>1. /\ f \o b \in Seq(Worker)
          /\ Len(f \o b) = Len(f) + Len(b)
          /\ \A i \in 1 .. Len(f) + Len(b) :
               (f \o b)[i] = IF i <= Len(f) THEN f[i] ELSE b[i - Len(f)]
      BY <2>2, <2>3, ConcatProperties
    <3>2. ASSUME NEW i \in 1 .. n - 1
          PROVE  Without(a)[i] = IF i < p THEN workers[i] ELSE workers[i + 1]
      <4>1. CASE i < p
        BY <4>1, <3>1, <2>1, <2>2, <2>3, <2>4
      <4>2. CASE ~(i < p)
        <5>1. i - (p - 1) \in 1 .. n - p /\ p + (i - (p - 1)) = i + 1
          BY <4>2, <2>1
        <5>2. b[i - (p - 1)] = workers[i + 1]
          BY <5>1, <2>3
        <5>3. (f \o b)[i] = b[i - (p - 1)]
          BY <4>2, <3>1, <2>1, <2>2, <2>3
        <5> QED BY <5>2, <5>3, <2>4, <4>2
      <4> QED BY <4>1, <4>2
    <3>3. Without(a) \in Seq(Worker)
      BY <3>1, <2>4
    <3>4. Len(Without(a)) = n - 1
      BY <3>1, <2>1, <2>2, <2>3, <2>4
    <3> QED BY <3>2, <3>3, <3>4
  <2>6. DOMAIN Without(a) = 1 .. n - 1 /\ DOMAIN workers = 1 .. n
    BY <2>5, LenProperties DEF PoolType, n
  <2>7. \A i \in DOMAIN workers : i # p => workers[i].addr # a
    BY <2>1, <2>6 DEF UniqueAddresses
  <2>8. \A i \in DOMAIN Without(a) :
          \E j \in DOMAIN workers : Without(a)[i] = workers[j] /\ workers[j].addr # a
    <3> TAKE i \in DOMAIN Without(a)
    <3>1. CASE i < p
      BY <3>1, <2>1, <2>5, <2>6, <2>7
    <3>2. CASE ~(i < p)
      <4>1. i + 1 \in DOMAIN workers /\ i + 1 # p /\ Without(a)[i] = workers[i + 1]
        BY <3>2, <2>1, <2>5, <2>6
      <4> QED BY <4>1, <2>7
    <3> QED BY <3>1, <3>2
  <2>9. \A i, j \in DOMAIN Without(a) :
          Without(a)[i].addr = Without(a)[j].addr => i = j
    <3> DEFINE g(i) == IF i < p THEN i ELSE i + 1
    <3>1. \A i \in DOMAIN Without(a) :
            g(i) \in DOMAIN workers /\ Without(a)[i] = workers[g(i)]
      BY <2>1, <2>5, <2>6
    <3>2. \A i, j \in DOMAIN Without(a) : g(i) = g(j) => i = j
      BY <2>1, <2>6
    <3> HIDE DEF g
    <3> QED BY <3>1, <3>2 DEF UniqueAddresses
  <2> QED BY <2>5, <2>8, <2>9
<1> QED BY <1>1, <1>2

(* pop_available_worker finds a worker if there is one.                     *)
LEMMA FirstAvailableIs ==
    ASSUME PoolType, NEW k \in DOMAIN workers, Available(k)
    PROVE  FirstAvailable \in DOMAIN workers /\ Available(FirstAvailable)
<1> DEFINE T == {i \in DOMAIN workers : Available(i)}
<1>1. DOMAIN workers = 1 .. Len(workers) /\ Len(workers) \in Nat
  BY LenProperties DEF PoolType
<1>2. PICK x \in T : \A y \in T : x <= y
  <2>1. T \subseteq Nat /\ T # {}
    BY <1>1
  <2> QED BY <2>1, LeastNatural
<1>3. x \in DOMAIN workers /\ Available(x) /\ \A j \in 1 .. (x - 1) : ~Available(j)
  BY <1>1, <1>2
<1> QED BY <1>3 DEF FirstAvailable

-----------------------------------------------------------------------------
(* The queue. *)

(* A step that leaves the queue and who waits in it as they are.            *)
LEMMA QueueUntouched ==
    ASSUME QueueIntact, queue' = queue,
           \A r \in Requests :
              /\ req'[r].pc \in {"queued", "picked"} <=> req[r].pc \in {"queued", "picked"}
              /\ req'[r].pc = "picked" => req[r].pc = "picked"
    PROVE  QueueIntact'
  BY DEF QueueIntact, IsInjective

(* enqueue_request puts a request into the queue that is not in it yet.     *)
LEMMA QueueEnqueue ==
    ASSUME RequestType, QueueIntact, NEW r \in Requests, Enqueue(r)
    PROVE  QueueIntact'
<1>1. /\ queue \in Seq(Requests) /\ req \in [Requests -> RequestContext]
      /\ req[r].pc = "admitted"
      /\ queue' = Append(queue, r)
      /\ req' = [req EXCEPT ![r].pc = "queued"]
  BY DEF RequestType, Enqueue
<1>2. /\ req'[r].pc = "queued"
      /\ \A s \in Requests : s # r => req'[s] = req[s]
  BY <1>1 DEF RequestContext
<1>3. /\ Len(queue) \in Nat /\ Len(queue') = Len(queue) + 1
      /\ DOMAIN queue = 1 .. Len(queue) /\ DOMAIN queue' = 1 .. Len(queue')
      /\ \A i \in 1 .. Len(queue) : queue'[i] = queue[i]
      /\ queue'[Len(queue) + 1] = r
  BY <1>1, AppendProperties, LenProperties
<1>4. \A i \in DOMAIN queue : queue[i] # r
  BY <1>1 DEF QueueIntact, ToSet
<1>5. IsInjective(queue')
  BY <1>3, <1>4 DEF QueueIntact, IsInjective
<1>6. ToSet(queue') = ToSet(queue) \cup {r}
  BY <1>3 DEF ToSet
<1>7. ToSet(queue') = {s \in Requests : req'[s].pc \in {"queued", "picked"}}
  BY <1>1, <1>2, <1>6 DEF QueueIntact
<1>8. ASSUME NEW s \in Requests, req'[s].pc = "picked" PROVE Head(queue') = s
  <2>1. req[s].pc = "picked" /\ s \in ToSet(queue) /\ Head(queue) = s
    BY <1>2, <1>8 DEF QueueIntact
  <2>2. Len(queue) > 0
    BY <1>3, <2>1 DEF ToSet
  <2>3. Head(queue') = queue'[1] /\ Head(queue) = queue[1]
    BY <1>1, <1>3, <2>2, HeadTailProperties, EmptySeq
  <2> QED BY <1>3, <2>1, <2>2, <2>3
<1> QED BY <1>5, <1>7, <1>8 DEF QueueIntact

(* Popping a worker leaves the queue alone: the request is still its front. *)
LEMMA QueuePop ==
    ASSUME RequestType, QueueIntact, NEW r \in Requests, PopAvailableWorker(r)
    PROVE  QueueIntact'
<1>1. /\ queue' = queue
      /\ req[r].pc = "queued" /\ Head(queue) = r
      /\ \A s \in Requests : s # r => req'[s] = req[s]
      /\ req'[r].pc = "picked"
  BY DEF RequestType, RequestContext, PopAvailableWorker
<1> QED BY <1>1 DEF QueueIntact, IsInjective

(* The request that is dequeued is the one that dequeues, although the lock *)
(* was given up after its look at the front.                                *)
LEMMA QueueDequeue ==
    ASSUME RequestType, QueueIntact, NEW r \in Requests, Dequeue(r)
    PROVE  QueueIntact'
<1>1. /\ queue \in Seq(Requests) /\ req \in [Requests -> RequestContext]
      /\ req[r].pc = "picked"
      /\ req'[r].pc = "connecting"
      /\ \A s \in Requests : s # r => req'[s] = req[s]
  BY DEF RequestType, RequestContext, Dequeue
<1>2. r \in ToSet(queue) /\ Head(queue) = r
  BY <1>1 DEF QueueIntact
<1>3. queue # << >>
  BY <1>2 DEF ToSet
<1>4. queue' = Tail(queue)
  BY <1>3 DEF Dequeue
<1> DEFINE n == Len(queue)
<1>5. /\ n \in Nat /\ n > 0 /\ DOMAIN queue = 1 .. n
      /\ Len(queue') = n - 1 /\ DOMAIN queue' = 1 .. (n - 1)
      /\ queue[1] = r
      /\ \A i \in 1 .. (n - 1) : queue'[i] = queue[i + 1]
  BY <1>1, <1>2, <1>3, <1>4, HeadTailProperties, LenProperties, EmptySeq
<1> HIDE DEF n
<1>6. \A i, j \in 1 .. n : queue[i] = queue[j] => i = j
  BY <1>5 DEF QueueIntact, IsInjective
<1>7. IsInjective(queue')
  <2> SUFFICES ASSUME NEW i \in 1 .. (n - 1), NEW j \in 1 .. (n - 1), queue'[i] = queue'[j]
               PROVE  i = j
    BY <1>5 DEF IsInjective
  <2>1. i + 1 \in 1 .. n /\ j + 1 \in 1 .. n /\ queue[i + 1] = queue[j + 1]
    BY <1>5
  <2> QED BY <2>1, <1>6, <1>5
<1>8. ToSet(queue') = ToSet(queue) \ {r}
  <2>1. ASSUME NEW s \in ToSet(queue') PROVE s \in ToSet(queue) \ {r}
    <3>1. PICK i \in 1 .. (n - 1) : s = queue'[i]
      BY <1>5 DEF ToSet
    <3>2. i + 1 \in 1 .. n /\ i + 1 # 1 /\ s = queue[i + 1] /\ 1 \in 1 .. n
      BY <3>1, <1>5
    <3> QED BY <3>2, <1>5, <1>6 DEF ToSet
  <2>2. ASSUME NEW s \in ToSet(queue) \ {r} PROVE s \in ToSet(queue')
    <3>1. PICK i \in 1 .. n : s = queue[i]
      BY <1>5 DEF ToSet
    <3>2. i - 1 \in 1 .. (n - 1) /\ queue'[i - 1] = queue[(i - 1) + 1] /\ (i - 1) + 1 = i
      BY <3>1, <1>5
    <3> QED BY <3>1, <3>2, <1>5 DEF ToSet
  <2> QED BY <2>1, <2>2
<1>9. \A s \in Requests : req'[s].pc # "picked"
  BY <1>1, <1>2 DEF QueueIntact
<1> QED BY <1>1, <1>7, <1>8, <1>9 DEF QueueIntact

-----------------------------------------------------------------------------
(* The pool. *)

(* A step that leaves the pool and the contexts' workers as they are.       *)
LEMMA PoolUntouched ==
    ASSUME PoolInv, UNCHANGED <<workers, contended, abandoned>>,
           \A r \in Requests : req'[r].worker = req[r].worker
    PROVE  PoolInv'
<1>1. \A a : Holders(a)' = Holders(a)
  BY DEF Holders
<1> QED BY <1>1 DEF PoolInv, UniqueAddresses, SoleHolder, OfferedIsFree,
                    WorkersAccountedFor, IsHealthy, Available

(* A request takes a worker that is on offer.                               *)
LEMMA PoolPop ==
    ASSUME PoolType, RequestType, PoolInv, NEW r \in Requests, PopAvailableWorker(r)
    PROVE  PoolInv'
<1> DEFINE k == FirstAvailable
<1>1. k \in DOMAIN workers /\ Available(k)
  BY FirstAvailableIs DEF PopAvailableWorker
<1>2. \A i \in DOMAIN workers : workers[i] \in Worker
  BY ElementOfSeq, LenProperties DEF PoolType
<1>3. PICK a \in Addresses : a = workers[k].addr
  BY <1>1, <1>2 DEF Worker
<1>4. /\ workers' = [workers EXCEPT ![k].available = FALSE]
      /\ req' = [req EXCEPT ![r].pc = "picked", ![r].worker = a]
      /\ abandoned' = abandoned \cup ({req[r].worker} \ {a, None})
      /\ contended' = contended
  BY <1>3 DEF PopAvailableWorker
<1> HIDE DEF k
<1>5. /\ DOMAIN workers' = DOMAIN workers
      /\ \A i \in DOMAIN workers :
           /\ workers'[i].addr = workers[i].addr
           /\ workers'[i].failures = workers[i].failures
           /\ workers'[i].available = IF i = k THEN FALSE ELSE workers[i].available
  BY <1>1, <1>4, <1>2 DEF Worker
<1>6. /\ req'[r].worker = a
      /\ \A s \in Requests : s # r => req'[s] = req[s]
  BY <1>4 DEF RequestType, RequestContext
<1>7. /\ Holders(a)' = Holders(a) \cup {r}
      /\ \A b : b # a => Holders(b)' = Holders(b) \ {r}
  BY <1>6 DEF Holders
<1>8. UniqueAddresses'
  BY <1>5 DEF PoolInv, UniqueAddresses
<1>9. SoleHolder'
  <2>1. a \notin contended => Holders(a) = {}
    BY <1>1, <1>3 DEF PoolInv, OfferedIsFree
  <2> QED BY <1>4, <1>7, <2>1 DEF PoolInv, SoleHolder
<1>10. OfferedIsFree'
  <2> SUFFICES ASSUME NEW i \in DOMAIN workers, workers'[i].available,
                      workers[i].addr \notin contended
               PROVE  \A b : b = workers[i].addr => Holders(b)' = {}
    BY <1>4, <1>5 DEF OfferedIsFree, Available
  <2>1. i # k /\ workers[i].available
    BY <1>5
  <2>2. workers[i].addr # a
    BY <1>1, <1>3, <2>1 DEF PoolInv, UniqueAddresses
  <2> QED BY <1>7, <2>1, <2>2 DEF PoolInv, OfferedIsFree, Available
<1>11. WorkersAccountedFor'
  <2> SUFFICES ASSUME NEW i \in DOMAIN workers, workers[i].failures = 0,
                      ~workers'[i].available
               PROVE  \A b : b = workers[i].addr =>
                                Holders(b)' # {} \/ b \in abandoned'
    BY <1>5 DEF WorkersAccountedFor, IsHealthy, Available
  <2>1. CASE i = k
    BY <2>1, <1>3, <1>7
  <2>2. CASE i # k
    <3> TAKE b
    <3> HAVE b = workers[i].addr
    <3>1. b \in Addresses /\ b # None
      BY <1>2, ProverProxyAssumption DEF Worker
    <3>2. b # a
      BY <1>1, <1>3, <2>2 DEF PoolInv, UniqueAddresses
    <3>3. Holders(b) # {} \/ b \in abandoned
      BY <1>5, <2>2 DEF PoolInv, WorkersAccountedFor, IsHealthy, Available
    <3>4. CASE b \in abandoned
      BY <3>4, <1>4
    <3>5. CASE Holders(b) = {r}
      BY <3>5, <3>1, <3>2, <1>4 DEF Holders
    <3>6. CASE Holders(b) # {} /\ Holders(b) # {r}
      BY <3>6, <3>2, <1>7
    <3> QED BY <3>3, <3>4, <3>5, <3>6
  <2> QED BY <2>1, <2>2
<1> QED BY <1>8, <1>9, <1>10, <1>11 DEF PoolInv

(* The pool is replaced: what is newly on offer although it is held is      *)
(* recorded, and nothing healthy becomes unavailable.                       *)
LEMMA PoolReplaced ==
    ASSUME PoolType, PoolType', PoolInv, UniqueAddresses', UNCHANGED req,
           contended' = contended \cup Reoffered(workers'),
           abandoned' = abandoned \ Offered(workers'),
           \A i \in DOMAIN workers' :
              IsHealthy(workers'[i]) /\ ~Available(i)' =>
                 \E j \in DOMAIN workers :
                    /\ workers[j].addr = workers'[i].addr
                    /\ IsHealthy(workers[j]) /\ ~Available(j)
    PROVE  PoolInv'
<1>1. \A a : Holders(a)' = Holders(a)
  BY DEF Holders
<1>2. \A i \in DOMAIN workers' : workers'[i].addr \in Addresses
  <2>1. \A i \in DOMAIN workers' : workers'[i] \in Worker
    BY ElementOfSeq, LenProperties DEF PoolType
  <2> QED BY <2>1 DEF Worker
<1>3. SoleHolder'
  BY <1>1 DEF PoolInv, SoleHolder
<1>4. OfferedIsFree'
  <2> SUFFICES ASSUME NEW i \in DOMAIN workers', Available(i)',
                      workers'[i].addr \notin contended',
                      Holders(workers'[i].addr) # {}
               PROVE  FALSE
    BY <1>1 DEF OfferedIsFree
  <2> DEFINE a == workers'[i].addr
  <2>1. a \in Addresses /\ a \notin Reoffered(workers') /\ a \notin contended
    BY <1>2
  <2>2. Listed(a) /\ Entry(a).available
    BY <2>1 DEF Reoffered, Available
  <2>3. Position(a) \in DOMAIN workers /\ workers[Position(a)].addr = a
    BY <2>2, PositionIs
  <2> QED BY <2>1, <2>2, <2>3 DEF PoolInv, OfferedIsFree, Available, Entry
<1>5. WorkersAccountedFor'
  <2> SUFFICES ASSUME NEW i \in DOMAIN workers', IsHealthy(workers'[i]), ~Available(i)'
               PROVE  \/ Holders(workers'[i].addr) # {}
                      \/ workers'[i].addr \in abandoned'
    BY <1>1 DEF WorkersAccountedFor, IsHealthy
  <2>1. workers'[i].addr \notin Offered(workers')
    BY DEF Offered, Available, UniqueAddresses
  <2> QED BY <2>1 DEF PoolInv, WorkersAccountedFor
<1> QED BY <1>3, <1>4, <1>5 DEF PoolInv

(* The entry a request gives back goes to the end of the list.              *)
LEMMA AddAvailableWorkerIs ==
    ASSUME PoolType, UniqueAddresses, NEW a \in Addresses, Listed(a)
    PROVE  LET pool == AddAvailableWorker(a)
               n == Len(Without(a))
           IN /\ pool \in Seq(Worker)
              /\ n \in Nat /\ DOMAIN pool = 1 .. (n + 1)
              /\ DOMAIN Without(a) = 1 .. n
              /\ \A i \in 1 .. n : pool[i] = Without(a)[i]
              /\ pool[n + 1].addr = a /\ pool[n + 1].available
<1> DEFINE w == [Entry(a) EXCEPT !.available = TRUE]
<1>1. Position(a) \in DOMAIN workers /\ workers[Position(a)].addr = a
  BY PositionIs
<1>2. Entry(a) \in Worker /\ Entry(a).addr = a
  BY <1>1, ElementOfSeq, LenProperties DEF PoolType, Entry
<1>3. w \in Worker /\ w.addr = a /\ w.available
  BY <1>2 DEF Worker
<1>4. Without(a) \in Seq(Worker)
  BY WithoutIs
<1>5. AddAvailableWorker(a) = Append(Without(a), w)
  BY DEF AddAvailableWorker
<1> HIDE DEF w
<1> QED BY <1>3, <1>4, <1>5, AppendProperties, LenProperties

(* The last callback of a request.                                          *)
LEMMA PoolLogging ==
    ASSUME PoolType, RequestType, Contexts, PoolInv, NEW r \in Requests, Logging(r)
    PROVE  PoolType' /\ PoolInv'
<1>1. PICK a \in Addresses : a = req[r].worker
  BY DEF Contexts, Logging
<1>2. /\ req' = [req EXCEPT ![r] = NewContext("done")]
      /\ workers' = AddAvailableWorker(a)
      /\ contended' = IF Holders(a) = {r} THEN contended \ {a} ELSE contended
      /\ abandoned' = abandoned \ Offered(workers')
  BY <1>1 DEF Logging
<1>3. /\ Holders(a)' = Holders(a) \ {r}
      /\ \A b \in Addresses : b # a => Holders(b)' = Holders(b)
  BY <1>1, <1>2, ProverProxyAssumption DEF Holders, RequestType, NewContext
<1>4. a \notin contended' => Holders(a)' = {}
  BY <1>1, <1>2, <1>3 DEF PoolInv, SoleHolder, Holders
<1>5. UniqueAddresses
  BY DEF PoolInv
<1>6. /\ workers' \in Seq(Worker)
      /\ \A i \in DOMAIN workers' :
           \/ workers'[i].addr = a /\ workers'[i].available
           \/ /\ workers'[i].addr # a
              /\ \E j \in DOMAIN workers : workers'[i] = workers[j]
      /\ UniqueAddresses'
  <2>1. CASE ~Listed(a)
    BY <1>2, <1>5, <2>1 DEF AddAvailableWorker, Listed, PoolType, UniqueAddresses
  <2>2. CASE Listed(a)
    <3> DEFINE n == Len(Without(a))
    <3>1. /\ workers' \in Seq(Worker)
          /\ n \in Nat /\ DOMAIN workers' = 1 .. (n + 1)
          /\ DOMAIN Without(a) = 1 .. n
          /\ \A i \in 1 .. n : workers'[i] = Without(a)[i]
          /\ workers'[n + 1].addr = a /\ workers'[n + 1].available
      BY <1>2, <1>5, <2>2, AddAvailableWorkerIs
    <3>2. /\ \A i \in DOMAIN Without(a) :
               \E j \in DOMAIN workers :
                  Without(a)[i] = workers[j] /\ workers[j].addr # a
          /\ \A i, j \in DOMAIN Without(a) :
               Without(a)[i].addr = Without(a)[j].addr => i = j
      BY <1>5, WithoutIs
    <3> HIDE DEF n
    <3>3. \A i \in 1 .. n :
            /\ workers'[i].addr # a
            /\ \E j \in DOMAIN workers : workers'[i] = workers[j]
      BY <3>1, <3>2
    <3>4. \A i \in 1 .. (n + 1) : i \in 1 .. n \/ i = n + 1
      BY <3>1
    <3>5. UniqueAddresses'
      BY <3>1, <3>2, <3>3, <3>4 DEF UniqueAddresses
    <3> QED BY <3>1, <3>3, <3>4, <3>5
  <2> QED BY <2>1, <2>2
<1>7. \A i \in DOMAIN workers : workers[i].addr \in Addresses
  <2>1. \A i \in DOMAIN workers : workers[i] \in Worker
    BY ElementOfSeq, LenProperties DEF PoolType
  <2> QED BY <2>1 DEF Worker
<1>8. SoleHolder'
  BY <1>2, <1>3, <1>4 DEF PoolInv, SoleHolder
<1>9. OfferedIsFree'
  <2> SUFFICES ASSUME NEW i \in DOMAIN workers', workers'[i].available,
                      NEW b, b = workers'[i].addr, b \notin contended'
               PROVE  Holders(b)' = {}
    BY DEF OfferedIsFree, Available
  <2>1. CASE b = a
    BY <2>1, <1>4
  <2>2. CASE b # a
    <3>1. PICK j \in DOMAIN workers : workers'[i] = workers[j]
      BY <2>2, <1>6
    <3>2. b \in Addresses /\ b \notin contended
      BY <3>1, <2>2, <1>2, <1>7
    <3>3. Holders(b) = {}
      BY <3>1, <3>2 DEF PoolInv, OfferedIsFree, Available
    <3> QED BY <3>2, <3>3, <2>2, <1>3
  <2> QED BY <2>1, <2>2
<1>10. WorkersAccountedFor'
  <2> SUFFICES ASSUME NEW i \in DOMAIN workers', workers'[i].failures = 0,
                      ~workers'[i].available, NEW b, b = workers'[i].addr
               PROVE  Holders(b)' # {} \/ b \in abandoned'
    BY DEF WorkersAccountedFor, IsHealthy, Available
  <2>1. b # a
    BY <1>6
  <2>2. PICK j \in DOMAIN workers : workers'[i] = workers[j]
    BY <2>1, <1>6
  <2>3. b \in Addresses /\ (Holders(b) # {} \/ b \in abandoned)
    BY <2>2, <1>7 DEF PoolInv, WorkersAccountedFor, IsHealthy, Available
  <2>4. b \notin Offered(workers')
    BY <1>6 DEF Offered, UniqueAddresses
  <2> QED BY <2>1, <2>3, <2>4, <1>2, <1>3
<1> QED BY <1>6, <1>8, <1>9, <1>10 DEF PoolInv, PoolType

(* One pass of the health check.                                            *)
LEMMA PoolHealthCheck ==
    ASSUME PoolType, PoolInv, HealthCheck
    PROVE  PoolType' /\ PoolInv'
<1>1. /\ DOMAIN workers = 1 .. Len(workers) /\ Len(workers) \in Nat
      /\ \A i \in DOMAIN workers : workers[i] \in Worker
  BY ElementOfSeq, LenProperties DEF PoolType
<1>2. workers' = [i \in DOMAIN workers |-> UpdateStatus(workers[i])]
  BY DEF HealthCheck
<1>3. ASSUME NEW w \in Worker
      PROVE  /\ UpdateStatus(w) \in Worker
             /\ UpdateStatus(w).addr = w.addr
             /\ UpdateStatus(w).failures = 0 /\ ~UpdateStatus(w).available
                   => w.failures = 0 /\ ~w.available
  <2>1. CASE CheckStatus(w)
    <3>1. CASE w.available \/ ~IsHealthy(w)
      <4>1. UpdateStatus(w) = [addr |-> w.addr, available |-> TRUE, failures |-> 0,
                               age |-> 0]
        BY <2>1, <3>1 DEF UpdateStatus, Worker
      <4> QED BY <4>1, Limits DEF Worker
    <3>2. CASE ~w.available /\ IsHealthy(w)
      <4>1. UpdateStatus(w) = [addr |-> w.addr, available |-> FALSE, failures |-> 0,
                               age |-> 0]
        BY <2>1, <3>2 DEF UpdateStatus, Worker
      <4> QED BY <4>1, <3>2, Limits DEF Worker, IsHealthy
    <3> QED BY <3>1, <3>2
  <2>2. CASE ~CheckStatus(w)
    <3> DEFINE f == IF w.failures < MaxBackoffExponent THEN w.failures + 1 ELSE w.failures
    <3>1. UpdateStatus(w) = [w EXCEPT !.available = FALSE, !.failures = f]
      BY <2>2 DEF UpdateStatus
    <3>2. f \in 0 .. MaxBackoffExponent /\ f # 0
      BY Limits DEF Worker
    <3> HIDE DEF f
    <3> QED BY <3>1, <3>2 DEF Worker
  <2> QED BY <2>1, <2>2
<1>4. workers' \in [1 .. Len(workers) -> Worker] /\ DOMAIN workers' = DOMAIN workers
  BY <1>1, <1>2, <1>3
<1>5. PoolType'
  BY <1>1, <1>4, IsASeq DEF PoolType
<1>6. \A i \in DOMAIN workers' :
        /\ workers'[i].addr = workers[i].addr
        /\ workers'[i].failures = 0 /\ ~workers'[i].available
              => workers[i].failures = 0 /\ ~workers[i].available
  BY <1>1, <1>2, <1>3
<1>7. UniqueAddresses'
  BY <1>4, <1>6 DEF PoolInv, UniqueAddresses
<1>8. \A i \in DOMAIN workers' :
        IsHealthy(workers'[i]) /\ ~Available(i)' =>
           \E j \in DOMAIN workers :
              /\ workers[j].addr = workers'[i].addr
              /\ IsHealthy(workers[j]) /\ ~Available(j)
  BY <1>4, <1>6 DEF IsHealthy, Available
<1>9. /\ UNCHANGED req
      /\ contended' = contended \cup Reoffered(workers')
      /\ abandoned' = abandoned \ Offered(workers')
  BY DEF HealthCheck
<1> QED BY <1>5, <1>7, <1>8, <1>9, PoolReplaced

(* A worker joins the pool available exactly if it can be reached.          *)
LEMMA NewWorkerIs ==
    ASSUME NEW a \in Addresses
    PROVE  /\ NewWorker(a) \in Worker /\ NewWorker(a).addr = a
           /\ NewWorker(a).failures = 0 => NewWorker(a).available
<1> DEFINE reached == backend[a] # "down"
<1>1. NewWorker(a) = [addr |-> a, available |-> reached,
                      failures |-> IF reached THEN 0 ELSE 1, age |-> 0]
  BY DEF NewWorker
<1>2. reached \in BOOLEAN
  OBVIOUS
<1> HIDE DEF reached
<1>3. (IF reached THEN 0 ELSE 1) \in 0 .. MaxBackoffExponent
  BY Limits
<1> QED BY <1>1, <1>2, <1>3 DEF Worker

(* A worker is added to the pool or removed from it.                        *)
LEMMA PoolUpdate ==
    ASSUME PoolType, PoolInv, NEW action \in {"Add", "Remove"},
           NEW a \in Addresses, UpdateWorkers(action, a)
    PROVE  PoolType' /\ PoolInv'
<1>1. /\ UNCHANGED req
      /\ workers' = Updated(action, a)
      /\ contended' = contended \cup Reoffered(workers')
      /\ abandoned' = abandoned \ Offered(workers')
  BY DEF UpdateWorkers
<1>2. UniqueAddresses
  BY DEF PoolInv
<1>3. /\ PoolType' /\ UniqueAddresses'
      /\ \A i \in DOMAIN workers' :
           workers'[i].failures = 0 /\ ~workers'[i].available =>
              \E j \in DOMAIN workers : workers[j] = workers'[i]
  <2>1. CASE action = "Remove"
    <3>1. workers' = Without(a)
      BY <2>1, <1>1 DEF Updated
    <3> QED BY <3>1, <1>2, WithoutIs DEF PoolType, UniqueAddresses
  <2>2. CASE action = "Add" /\ Listed(a)
    <3>1. workers' = workers
      BY <2>2, <1>1 DEF Updated
    <3> QED BY <3>1, <1>2 DEF PoolType, UniqueAddresses
  <2>3. CASE action = "Add" /\ ~Listed(a)
    <3> DEFINE w == NewWorker(a)
               n == Len(workers)
    <3>1. workers' = Append(workers, w)
      BY <2>3, <1>1 DEF Updated
    <3>2. w \in Worker /\ w.addr = a /\ (w.failures = 0 => w.available)
      BY NewWorkerIs
    <3> HIDE DEF w
    <3>3. /\ workers' \in Seq(Worker) /\ n \in Nat
          /\ DOMAIN workers = 1 .. n /\ DOMAIN workers' = 1 .. (n + 1)
          /\ \A i \in 1 .. n : workers'[i] = workers[i]
          /\ workers'[n + 1] = w
      BY <3>1, <3>2, AppendProperties, LenProperties DEF PoolType
    <3> HIDE DEF n
    <3>4. \A i \in 1 .. (n + 1) : i \in 1 .. n \/ i = n + 1
      BY <3>3
    <3>5. \A i \in 1 .. n : workers[i].addr # a
      BY <2>3, <3>3 DEF Listed
    <3>6. UniqueAddresses'
      BY <1>2, <3>2, <3>3, <3>4, <3>5 DEF UniqueAddresses
    <3> QED BY <3>2, <3>3, <3>4, <3>6 DEF PoolType
  <2> QED BY <2>1, <2>2, <2>3
<1>4. \A i \in DOMAIN workers' :
        IsHealthy(workers'[i]) /\ ~Available(i)' =>
           \E j \in DOMAIN workers :
              /\ workers[j].addr = workers'[i].addr
              /\ IsHealthy(workers[j]) /\ ~Available(j)
  BY <1>3 DEF IsHealthy, Available
<1> QED BY <1>1, <1>3, <1>4, PoolReplaced

(* Unhealthy workers age.                                                   *)
LEMMA PoolTick ==
    ASSUME PoolType, PoolInv, Tick
    PROVE  PoolType' /\ PoolInv'
<1>1. /\ DOMAIN workers = 1 .. Len(workers) /\ Len(workers) \in Nat
      /\ \A i \in DOMAIN workers : workers[i] \in Worker
  BY ElementOfSeq, LenProperties DEF PoolType
<1>2. /\ DOMAIN workers' = DOMAIN workers
      /\ \A i \in DOMAIN workers :
           workers'[i] = IF IsHealthy(workers[i]) \/ workers[i].age = BackoffCap
                         THEN workers[i] ELSE [workers[i] EXCEPT !.age = @ + 1]
  BY DEF Tick
<1>3. \A i \in DOMAIN workers :
        /\ workers'[i] \in Worker
        /\ workers'[i].addr = workers[i].addr
        /\ workers'[i].failures = workers[i].failures
        /\ workers'[i].available = workers[i].available
  BY <1>1, <1>2 DEF Worker
<1>4. workers' \in [1 .. Len(workers) -> Worker]
  BY <1>1, <1>2, <1>3 DEF Tick
<1>5. PoolType'
  BY <1>1, <1>4, IsASeq DEF PoolType
<1>6. /\ \A a : Holders(a)' = Holders(a)
      /\ UNCHANGED <<contended, abandoned>>
  BY DEF Holders, Tick
<1>7. UniqueAddresses'
  BY <1>2, <1>3 DEF PoolInv, UniqueAddresses
<1>8. SoleHolder'
  BY <1>6 DEF PoolInv, SoleHolder
<1>9. OfferedIsFree'
  BY <1>2, <1>3, <1>6 DEF PoolInv, OfferedIsFree, Available
<1>10. WorkersAccountedFor'
  BY <1>2, <1>3, <1>6 DEF PoolInv, WorkersAccountedFor, IsHealthy, Available
<1> QED BY <1>5, <1>7, <1>8, <1>9, <1>10 DEF PoolInv

-----------------------------------------------------------------------------
(* The contexts of the requests. *)

(* After an error the request keeps its worker.                             *)
LEMMA AfterErrorIs ==
    ASSUME NEW r \in Requests, req[r] \in RequestContext, NEW retry \in BOOLEAN
    PROVE  /\ AfterError(r, retry) \in RequestContext
           /\ AfterError(r, retry).pc \in {"admitted", "finishing"}
           /\ AfterError(r, retry).worker = req[r].worker
<1>1. CASE retry /\ req[r].attempts + 1 < MaxAttempts
  <2>1. AfterError(r, retry) = [req[r] EXCEPT !.pc = "admitted", !.attempts = @ + 1]
    BY <1>1 DEF AfterError
  <2>2. req[r].attempts + 1 \in 0 .. MaxAttempts
    BY <1>1, Limits DEF RequestContext
  <2> QED BY <2>1, <2>2 DEF RequestContext
<1>2. CASE ~(retry /\ req[r].attempts + 1 < MaxAttempts)
  <2>1. AfterError(r, retry) = [req[r] EXCEPT !.pc = "finishing"]
    BY <1>2 DEF AfterError
  <2> QED BY <2>1 DEF RequestContext
<1> QED BY <1>1, <1>2

(* What every step of the requests and of the workers does to the contexts. *)
ReqStep(r) ==
    /\ req' \in [Requests -> RequestContext]
    /\ \A s \in Requests : s # r => req'[s] = req[s]

(* One context changes in its program counter only.                         *)
LEMMA PcStep ==
    ASSUME RequestType, NEW r \in Requests,
           NEW pc \in {"new", "admitted", "queued", "picked", "connecting",
                       "connected", "proving", "finishing", "done"},
           req' = [req EXCEPT ![r].pc = pc]
    PROVE  /\ ReqStep(r) /\ req'[r].pc = pc
           /\ req'[r].worker = req[r].worker
  BY DEF ReqStep, RequestType, RequestContext

(* The connection failed.                                                   *)
LEMMA FailToConnectIs ==
    ASSUME RequestType, NEW r \in Requests, FailToConnect(r)
    PROVE  /\ ReqStep(r) /\ req'[r].pc \in {"admitted", "finishing"}
           /\ req'[r].worker = req[r].worker
<1>1. req[r] \in RequestContext /\ req \in [Requests -> RequestContext]
  BY DEF RequestType
<1>2. CASE req[r].tries > MaxRetriesPerRequest
  <2>1. req' = [req EXCEPT ![r] = AfterError(r, FALSE)]
    BY <1>2 DEF FailToConnect
  <2> QED BY <1>1, <2>1, AfterErrorIs DEF ReqStep
<1>3. CASE ~(req[r].tries > MaxRetriesPerRequest)
  <2> DEFINE c == [AfterError(r, TRUE) EXCEPT !.tries = req[r].tries + 1]
  <2>1. req' = [req EXCEPT ![r] = c]
    BY <1>3 DEF FailToConnect
  <2>2. req[r].tries + 1 \in 0 .. (MaxRetriesPerRequest + 1)
    BY <1>1, <1>3, Limits DEF RequestContext
  <2>3. /\ AfterError(r, TRUE) \in RequestContext
        /\ AfterError(r, TRUE).pc \in {"admitted", "finishing"}
        /\ AfterError(r, TRUE).worker = req[r].worker
    BY <1>1, AfterErrorIs
  <2>4. c \in RequestContext /\ c.pc \in {"admitted", "finishing"}
        /\ c.worker = req[r].worker
    BY <2>2, <2>3 DEF RequestContext
  <2> HIDE DEF c
  <2> QED BY <1>1, <2>1, <2>4 DEF ReqStep
<1> QED BY <1>2, <1>3

(* A worker is taken.                                                       *)
LEMMA PopIs ==
    ASSUME PoolType, RequestType, NEW r \in Requests, PopAvailableWorker(r)
    PROVE  /\ ReqStep(r) /\ req'[r].pc = "picked" /\ req'[r].worker \in Addresses
           /\ PoolType' /\ abandoned' \subseteq abandoned \cup Addresses
<1> DEFINE k == FirstAvailable
<1>1. k \in DOMAIN workers
  BY FirstAvailableIs DEF PopAvailableWorker
<1>2. \A i \in DOMAIN workers : workers[i] \in Worker
  BY ElementOfSeq, LenProperties DEF PoolType
<1>3. PICK a \in Addresses : a = workers[k].addr
  BY <1>1, <1>2 DEF Worker
<1>4. /\ workers' = [workers EXCEPT ![k].available = FALSE]
      /\ req' = [req EXCEPT ![r].pc = "picked", ![r].worker = a]
      /\ abandoned' = abandoned \cup ({req[r].worker} \ {a, None})
  BY <1>3 DEF PopAvailableWorker
<1> HIDE DEF k
<1>5. PoolType'
  <2>1. DOMAIN workers = 1 .. Len(workers) /\ Len(workers) \in Nat
    BY LenProperties DEF PoolType
  <2>2. workers' \in [1 .. Len(workers) -> Worker]
    BY <1>1, <1>2, <1>4, <2>1 DEF Worker
  <2> QED BY <2>1, <2>2, IsASeq DEF PoolType
<1>6. ReqStep(r) /\ req'[r].pc = "picked" /\ req'[r].worker = a
  BY <1>4 DEF RequestType, RequestContext, ReqStep
<1>7. req[r].worker \in Addresses \cup {None}
  BY DEF RequestType, RequestContext
<1> QED BY <1>4, <1>5, <1>6, <1>7

-----------------------------------------------------------------------------
(* The invariant. *)

(* One request moves, and nothing but its context and the workers' state    *)
(* changes: neither the pool nor the queue.                                 *)
LEMMA ContextStep ==
    ASSUME Inv, NEW r \in Requests, ReqStep(r),
           req[r].pc \notin {"queued", "picked"},
           req'[r].pc \notin {"new", "done", "queued", "picked"}
              \/ (req'[r].pc = "done" /\ req[r].pc = "new"),
           req'[r].worker = req[r].worker,
           req[r].pc \in {"connecting", "connected", "proving"}
              \/ req'[r].pc \in {"done", "admitted"},
           window' \in 0 .. (MaxReqPerSec + 1), BackendType',
           UNCHANGED <<workers, queue, contended, abandoned>>
    PROVE  Inv'
<1>1. RequestType' /\ PoolType' /\ HistoryType'
  BY DEF Inv, TypeOK, RequestType, PoolType, HistoryType, ReqStep
<1>2. \A s \in Requests : req'[s].worker = req[s].worker
  BY DEF ReqStep
<1>3. PoolInv'
  BY <1>2, PoolUntouched DEF Inv
<1>4. QueueIntact'
  BY QueueUntouched DEF Inv, ReqStep
<1>5. Contexts'
  BY DEF Inv, Contexts, ReqStep
<1> QED BY <1>1, <1>3, <1>4, <1>5 DEF Inv, TypeOK

(* The invariant holds when the proxy starts.                               *)
LEMMA InvInit == Init => Inv
<1> SUFFICES ASSUME Init PROVE Inv
  OBVIOUS
<1>1. PoolType /\ UniqueAddresses /\ WorkersAccountedFor
  <2> DEFINE n == Len(InitialWorkers)
  <2>1. /\ n \in Nat /\ DOMAIN InitialWorkers = 1 .. n
        /\ \A i \in 1 .. n : InitialWorkers[i] \in Addresses
    BY ProverProxyAssumption, ElementOfSeq, LenProperties
  <2> HIDE DEF n
  <2>2. ASSUME NEW a \in Addresses
        PROVE  /\ NewWorker(a) \in Worker /\ NewWorker(a).addr = a
               /\ NewWorker(a).failures = 0 => NewWorker(a).available
    BY NewWorkerIs
  <2>3. workers = [i \in 1 .. n |-> NewWorker(InitialWorkers[i])]
    BY <2>1 DEF Init
  <2>4. /\ DOMAIN workers = 1 .. n
        /\ \A i \in 1 .. n :
             /\ workers[i] \in Worker /\ workers[i].addr = InitialWorkers[i]
             /\ workers[i].failures = 0 => workers[i].available
    BY <2>1, <2>2, <2>3
  <2>5. PoolType
    BY <2>1, <2>2, <2>3, IsASeq DEF PoolType
  <2>6. UniqueAddresses
    BY <2>1, <2>4, ProverProxyAssumption DEF UniqueAddresses, IsInjective
  <2> QED BY <2>4, <2>5, <2>6 DEF WorkersAccountedFor, IsHealthy, Available
<1>2. RequestType
  BY Limits DEF Init, RequestType, RequestContext, NewContext
<1>3. BackendType
  <2> DEFINE D == {a \in Addresses : backend[a] = "down"}
  <2>1. IsFiniteSet(D)
    BY ProverProxyAssumption, FS_Subset
  <2>2. Cardinality(D) \in Nat
    BY <2>1, FS_CardinalityType
  <2>3. faults \in 0 .. MaxFaults
    BY <2>2, Limits DEF Init
  <2> QED BY <2>3 DEF Init, BackendType
<1>4. \A r \in Requests : req[r].pc = "new" /\ req[r].worker = None
  BY DEF Init, NewContext
<1>5. \A a \in Addresses : Holders(a) = {}
  BY <1>4, ProverProxyAssumption DEF Holders
<1>6. SoleHolder
  BY <1>5 DEF SoleHolder
<1>7. \A i \in DOMAIN workers : workers[i].addr \in Addresses
  <2>1. \A i \in DOMAIN workers : workers[i] \in Worker
    BY <1>1, ElementOfSeq, LenProperties DEF PoolType
  <2> QED BY <2>1 DEF Worker
<1>8. OfferedIsFree
  BY <1>5, <1>7 DEF OfferedIsFree
<1>9. QueueIntact
  BY <1>4 DEF Init, QueueIntact, IsInjective, ToSet
<1>10. Contexts /\ HistoryType
  BY <1>4 DEF Init, Contexts, HistoryType
<1> QED BY <1>1, <1>2, <1>3, <1>6, <1>8, <1>9, <1>10 DEF Inv, TypeOK, PoolInv

(* Every step of requests, workers, health checks and updates preserves the *)
(* invariant.                                                               *)
LEMMA InvStep == Inv /\ [Next]_vars => Inv'
<1> SUFFICES ASSUME Inv, [Next]_vars PROVE Inv'
  OBVIOUS
<1> USE DEF Inv, TypeOK
<1>1. ASSUME NEW r \in Requests, RequestFilter(r) PROVE Inv'
  <2> DEFINE pc == IF window + 1 > MaxReqPerSec \/ Len(queue) >= MaxQueueItems
                   THEN "done" ELSE "admitted"
  <2>1. req' = [req EXCEPT ![r].pc = pc] /\ req[r].pc = "new"
    BY <1>1 DEF RequestFilter
  <2>2. pc \in {"done", "admitted"}
    OBVIOUS
  <2> HIDE DEF pc
  <2>3. ReqStep(r) /\ req'[r].pc = pc /\ req'[r].worker = req[r].worker
    BY <2>1, <2>2, PcStep
  <2>4. window' \in 0 .. (MaxReqPerSec + 1)
    BY <1>1, Limits DEF RequestFilter, RequestType
  <2>5. BackendType' /\ UNCHANGED <<workers, queue, contended, abandoned>>
    BY <1>1 DEF RequestFilter, BackendType
  <2> HIDE DEF Inv, TypeOK
  <2> QED BY <2>1, <2>2, <2>3, <2>4, <2>5, ContextStep
<1>2. ASSUME NEW r \in Requests, Enqueue(r) PROVE Inv'
  <2>1. ReqStep(r) /\ req'[r].pc = "queued" /\ req'[r].worker = req[r].worker
    BY <1>2, PcStep DEF Enqueue
  <2>2. UNCHANGED <<workers, window, backend, proving, faults, contended, abandoned>>
    BY <1>2 DEF Enqueue
  <2>3. queue' \in Seq(Requests)
    BY <1>2, AppendProperties DEF Enqueue, RequestType
  <2>4. TypeOK'
    BY <2>1, <2>2, <2>3 DEF PoolType, RequestType, BackendType, HistoryType, ReqStep
  <2>5. Contexts'
    BY <2>1 DEF Contexts, ReqStep
  <2>6. PoolInv'
    BY <2>1, <2>2, PoolUntouched DEF ReqStep
  <2>7. QueueIntact'
    BY <1>2, QueueEnqueue
  <2> QED BY <2>4, <2>5, <2>6, <2>7
<1>3. ASSUME NEW r \in Requests, PopAvailableWorker(r) PROVE Inv'
  <2>1. /\ ReqStep(r) /\ req'[r].pc = "picked" /\ req'[r].worker \in Addresses
        /\ PoolType' /\ abandoned' \subseteq abandoned \cup Addresses
    BY <1>3, PopIs
  <2>2. UNCHANGED <<queue, window, backend, proving, faults, contended>>
    BY <1>3 DEF PopAvailableWorker
  <2>3. TypeOK'
    BY <2>1, <2>2 DEF RequestType, BackendType, HistoryType, ReqStep
  <2>4. Contexts'
    BY <2>1 DEF Contexts, ReqStep
  <2>5. PoolInv'
    BY <1>3, PoolPop
  <2>6. QueueIntact'
    BY <1>3, QueuePop
  <2> QED BY <2>3, <2>4, <2>5, <2>6
<1>4. ASSUME NEW r \in Requests, Dequeue(r) PROVE Inv'
  <2>1. ReqStep(r) /\ req'[r].pc = "connecting" /\ req'[r].worker = req[r].worker
    BY <1>4, PcStep DEF Dequeue
  <2>2. UNCHANGED <<workers, window, backend, proving, faults, contended, abandoned>>
    BY <1>4 DEF Dequeue
  <2>3. queue' \in Seq(Requests)
    BY <1>4, HeadTailProperties DEF Dequeue, RequestType
  <2>4. TypeOK'
    BY <2>1, <2>2, <2>3 DEF PoolType, RequestType, BackendType, HistoryType, ReqStep
  <2>5. Contexts'
    BY <2>1, <1>4 DEF Contexts, ReqStep, Dequeue
  <2>6. PoolInv'
    BY <2>1, <2>2, PoolUntouched DEF ReqStep
  <2>7. QueueIntact'
    BY <1>4, QueueDequeue
  <2> QED BY <2>4, <2>5, <2>6, <2>7
<1>5. ASSUME NEW r \in Requests, Connect(r) PROVE Inv'
  <2>1. ReqStep(r) /\ req'[r].pc = "connected" /\ req'[r].worker = req[r].worker
    BY <1>5, PcStep DEF Connect
  <2>2. /\ req[r].pc = "connecting"
        /\ UNCHANGED <<workers, queue, window, backend, proving, faults, contended,
                       abandoned>>
    BY <1>5 DEF Connect
  <2>3. /\ BackendType' /\ window' \in 0 .. (MaxReqPerSec + 1)
        /\ UNCHANGED <<workers, queue, contended, abandoned>>
    BY <2>2 DEF BackendType, RequestType
  <2> HIDE DEF Inv, TypeOK
  <2> QED BY <2>1, <2>2, <2>3, ContextStep
<1>6. ASSUME NEW r \in Requests, FailToConnect(r) PROVE Inv'
  <2>1. /\ ReqStep(r) /\ req'[r].pc \in {"admitted", "finishing"}
        /\ req'[r].worker = req[r].worker
    BY <1>6, FailToConnectIs
  <2>2. /\ req[r].pc = "connecting"
        /\ UNCHANGED <<workers, queue, window, backend, proving, faults, contended,
                       abandoned>>
    BY <1>6 DEF FailToConnect
  <2>3. /\ BackendType' /\ window' \in 0 .. (MaxReqPerSec + 1)
        /\ UNCHANGED <<workers, queue, contended, abandoned>>
    BY <2>2 DEF BackendType, RequestType
  <2> HIDE DEF Inv, TypeOK
  <2> QED BY <2>1, <2>2, <2>3, ContextStep
<1>7. ASSUME NEW r \in Requests, Prove(r) PROVE Inv'
  <2> DEFINE a == req[r].worker
             starts == backend[a] = "up" /\ proving[a] = None
             pc == IF starts THEN "proving" ELSE "finishing"
  <2>1. /\ req[r].pc = "connected"
        /\ req' = [req EXCEPT ![r].pc = pc]
        /\ proving' = IF starts THEN [proving EXCEPT ![a] = r] ELSE proving
        /\ UNCHANGED <<workers, queue, window, backend, faults, contended, abandoned>>
    BY <1>7 DEF Prove
  <2>2. pc \in {"proving", "finishing"}
    OBVIOUS
  <2> HIDE DEF pc
  <2>3. ReqStep(r) /\ req'[r].pc = pc /\ req'[r].worker = req[r].worker
    BY <2>1, <2>2, PcStep
  <2>4. /\ BackendType' /\ window' \in 0 .. (MaxReqPerSec + 1)
        /\ UNCHANGED <<workers, queue, contended, abandoned>>
    BY <2>1 DEF BackendType, RequestType
  <2> HIDE DEF Inv, TypeOK
  <2> QED BY <2>1, <2>2, <2>3, <2>4, ContextStep
<1>8. ASSUME NEW r \in Requests, ErrorWhileProxy(r) PROVE Inv'
  <2>1. PICK reused \in BOOLEAN : req' = [req EXCEPT ![r] = AfterError(r, reused)]
    BY <1>8 DEF ErrorWhileProxy
  <2>2. /\ req[r].pc \in {"connected", "proving"}
        /\ UNCHANGED <<workers, queue, window, backend, proving, faults, contended,
                       abandoned>>
    BY <1>8 DEF ErrorWhileProxy
  <2>3. /\ ReqStep(r) /\ req'[r].pc \in {"admitted", "finishing"}
        /\ req'[r].worker = req[r].worker
    BY <2>1, AfterErrorIs DEF RequestType, ReqStep
  <2>4. /\ BackendType' /\ window' \in 0 .. (MaxReqPerSec + 1)
        /\ UNCHANGED <<workers, queue, contended, abandoned>>
    BY <2>2 DEF BackendType, RequestType
  <2> HIDE DEF Inv, TypeOK
  <2> QED BY <2>2, <2>3, <2>4, ContextStep
<1>9. ASSUME NEW r \in Requests, Logging(r) PROVE Inv'
  <2>1. /\ req[r].pc = "finishing"
        /\ req' = [req EXCEPT ![r] = NewContext("done")]
        /\ contended' \subseteq contended /\ abandoned' \subseteq abandoned
        /\ UNCHANGED <<queue, window, backend, proving, faults>>
    BY <1>9 DEF Logging
  <2>2. NewContext("done") \in RequestContext
    BY Limits DEF NewContext, RequestContext
  <2>3. ReqStep(r) /\ req'[r] = NewContext("done")
    BY <2>1, <2>2 DEF RequestType, ReqStep
  <2>4. PoolType' /\ PoolInv'
    BY <1>9, PoolLogging
  <2>5. TypeOK'
    BY <2>1, <2>3, <2>4 DEF RequestType, BackendType, HistoryType, ReqStep
  <2>6. Contexts'
    BY <2>3 DEF Contexts, ReqStep, NewContext
  <2>7. QueueIntact'
    BY <2>1, <2>3, QueueUntouched DEF ReqStep, NewContext
  <2> QED BY <2>4, <2>5, <2>6, <2>7
<1>10. ASSUME NEW a \in Addresses, FinishProof(a) PROVE Inv'
  <2>1. PICK r \in Requests : r = proving[a]
    BY <1>10 DEF FinishProof, BackendType
  <2>2. BackendType' /\ window' \in 0 .. (MaxReqPerSec + 1)
    BY <1>10 DEF FinishProof, BackendType, RequestType
  <2>3. UNCHANGED <<workers, queue, contended, abandoned>>
    BY <1>10 DEF FinishProof
  <2>4. CASE req[r].pc = "proving" /\ req[r].worker = a
    <3>1. req' = [req EXCEPT ![r].pc = "finishing"]
      BY <1>10, <2>1, <2>4 DEF FinishProof
    <3>2. ReqStep(r) /\ req'[r].pc = "finishing" /\ req'[r].worker = req[r].worker
      BY <3>1, PcStep
    <3> HIDE DEF Inv, TypeOK
    <3> QED BY <2>2, <2>3, <2>4, <3>2, ContextStep
  <2>5. CASE ~(req[r].pc = "proving" /\ req[r].worker = a)
    <3>1. req' = req
      BY <1>10, <2>1, <2>5 DEF FinishProof
    <3>2. TypeOK'
      BY <3>1, <2>2, <2>3 DEF PoolType, RequestType, HistoryType
    <3>3. PoolInv' /\ QueueIntact' /\ Contexts'
      BY <3>1, <2>3, PoolUntouched, QueueUntouched DEF Contexts
    <3> QED BY <3>2, <3>3
  <2> QED BY <2>4, <2>5
<1>11. ASSUME NEW action \in {"Add", "Remove"}, NEW a \in Addresses,
              UpdateWorkers(action, a)
       PROVE  Inv'
  <2>1. PoolType' /\ PoolInv'
    BY <1>11, PoolUpdate
  <2>2. /\ faults < MaxFaults /\ faults' = faults + 1
        /\ contended' \subseteq contended \cup Addresses
        /\ abandoned' \subseteq abandoned
        /\ UNCHANGED <<queue, req, window, backend, proving>>
    BY <1>11 DEF UpdateWorkers, Reoffered
  <2>3. TypeOK'
    BY <2>1, <2>2, Limits DEF RequestType, BackendType, HistoryType
  <2>4. QueueIntact' /\ Contexts'
    BY <2>2, QueueUntouched DEF Contexts
  <2> QED BY <2>1, <2>3, <2>4
<1>12. ASSUME NEW kind \in {"up", "down", "wrong"}, NEW a \in Addresses,
              Restart(a, kind)
       PROVE  Inv'
  <2>1. /\ faults < MaxFaults /\ faults' = faults + 1
        /\ backend' = [backend EXCEPT ![a] = kind]
        /\ proving' = [proving EXCEPT ![a] = None]
        /\ UNCHANGED <<workers, queue, req, window, contended, abandoned>>
    BY <1>12 DEF Restart
  <2>2. BackendType'
    BY <2>1, Limits DEF BackendType
  <2>3. TypeOK'
    BY <2>1, <2>2 DEF PoolType, RequestType, HistoryType
  <2>4. PoolInv' /\ QueueIntact' /\ Contexts'
    BY <2>1, PoolUntouched, QueueUntouched DEF Contexts
  <2> QED BY <2>3, <2>4
<1>13. ASSUME HealthCheck PROVE Inv'
  <2>1. PoolType' /\ PoolInv'
    BY <1>13, PoolHealthCheck
  <2>2. /\ contended' \subseteq contended \cup Addresses
        /\ abandoned' \subseteq abandoned
        /\ UNCHANGED <<queue, req, window, backend, proving, faults>>
    BY <1>13 DEF HealthCheck, Reoffered
  <2>3. TypeOK'
    BY <2>1, <2>2 DEF RequestType, BackendType, HistoryType
  <2>4. QueueIntact' /\ Contexts'
    BY <2>2, QueueUntouched DEF Contexts
  <2> QED BY <2>1, <2>3, <2>4
<1>14. ASSUME Tick PROVE Inv'
  <2>1. PoolType' /\ PoolInv'
    BY <1>14, PoolTick
  <2>2. window' = 0 /\ UNCHANGED <<queue, req, backend, proving, faults, contended, abandoned>>
    BY <1>14 DEF Tick
  <2>3. TypeOK'
    BY <2>1, <2>2, Limits DEF RequestType, BackendType, HistoryType
  <2>4. QueueIntact' /\ Contexts'
    BY <2>2, QueueUntouched DEF Contexts
  <2> QED BY <2>1, <2>3, <2>4
<1>15. ASSUME UNCHANGED vars PROVE Inv'
  <2>1. UNCHANGED <<workers, queue, req, window, backend, proving, faults, contended,
                    abandoned>>
    BY <1>15 DEF vars
  <2>2. TypeOK'
    BY <2>1 DEF PoolType, RequestType, BackendType, HistoryType
  <2>3. PoolInv' /\ QueueIntact' /\ Contexts'
    BY <2>1, PoolUntouched, QueueUntouched DEF Contexts
  <2> QED BY <2>2, <2>3
<1> QED BY <1>1, <1>2, <1>3, <1>4, <1>5, <1>6, <1>7, <1>8, <1>9, <1>10, <1>11, <1>12,
           <1>13, <1>14, <1>15 DEF Next, RequestStep

(***************************************************************************)
(* The invariant holds in every reachable state.                           *)
(***************************************************************************)
THEOREM Invariance == Spec => []Inv
  BY InvInit, InvStep, PTL DEF Spec

(***************************************************************************)
(* The queue of upstream_peer always holds exactly the requests that wait  *)
(* there, each once, and the request that has taken a worker is the one    *)
(* its dequeue removes, whatever the other requests, the health check and  *)
(* the updates do between its peek, its pop and its dequeue.               *)
(***************************************************************************)
THEOREM QueueNeverCorrupted == Spec => []QueueIntact
<1>1. Inv => QueueIntact
  BY DEF Inv
<1> QED BY <1>1, Invariance, PTL

(***************************************************************************)
(* Every worker is accounted for: it is held by at most one request unless *)
(* the health check or an update offered it while it was held, and a       *)
(* healthy one that is not on offer is in use unless a retry dropped it.   *)
(***************************************************************************)
THEOREM PoolAccountedFor == Spec => []WorkersExact
<1>1. Inv => OneRequestPerWorker
  <2> SUFFICES ASSUME Inv, NEW a \in Addresses \ contended
               PROVE  Cardinality(Holders(a)) <= 1
    BY DEF OneRequestPerWorker
  <2>1. CASE Holders(a) = {}
    BY <2>1, FS_EmptySet
  <2>2. CASE Holders(a) # {}
    <3>1. PICK r : Holders(a) = {r}
      BY <2>2 DEF Inv, PoolInv, SoleHolder
    <3> QED BY <3>1, FS_Singleton
  <2> QED BY <2>1, <2>2
<1>2. Inv => WorkersExact
  BY <1>1 DEF Inv, PoolInv, WorkersExact
<1> QED BY <1>2, Invariance, PTL

=============================================================================

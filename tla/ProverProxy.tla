---------------------------- MODULE ProverProxy ----------------------------
(***************************************************************************)
(* The remote prover: the load-balancing proxy (bin/remote-prover/src/     *)
(* proxy) in front of its pool of workers, and the workers (api/prover.rs).*)
(*                                                                         *)
(* Each request runs through Pingora's callbacks: request_filter, then     *)
(* upstream_peer (queue up, wait for the front of the queue and for a free *)
(* worker), the connection, the proof, logging.  Concurrently the health   *)
(* check walks over the pool, operators add and remove workers, and the    *)
(* worker processes stop and come back.  The pool and the queue are each   *)
(* behind a lock of their own, so the steps of a request that use one of   *)
(* them are separate actions.                                              *)
(***************************************************************************)
EXTENDS Naturals, Sequences, FiniteSets, SequencesExt

CONSTANTS
    Addresses,            \* the workers' addresses
    InitialWorkers,       \* Seq(Addresses): the list on the command line
    Requests,             \* one client request each
    None,                 \* no worker, no request
    MaxQueueItems,        \* max_queue_items
    MaxRetriesPerRequest, \* max_retries_per_request
    MaxReqPerSec,         \* max_req_per_sec
    MaxBackoffExponent,   \* MAX_BACKOFF_EXPONENT
    MaxAttempts,          \* Pingora's own limit on the tries of one request
    MaxFaults             \* bound: workers that are down, start, stop; pool updates

ASSUME ProverProxyAssumption ==
    /\ IsFiniteSet(Addresses) /\ IsFiniteSet(Requests)
    /\ InitialWorkers \in Seq(Addresses)
    /\ IsInjective(InitialWorkers)   \* no worker is given twice
    /\ None \notin Addresses \cup Requests
    /\ {MaxQueueItems, MaxRetriesPerRequest, MaxReqPerSec, MaxBackoffExponent,
        MaxAttempts, MaxFaults} \subseteq Nat
    /\ MaxBackoffExponent > 0

VARIABLES
    workers,   \* the pool, in the order in which workers are picked
    queue,     \* the requests waiting for a worker
    req,       \* per request: where it is, and its RequestContext
    window,    \* requests seen by the rate limiter in this second
    backend,   \* per address: what runs there
    proving,   \* per address: the request whose proof holds the prover's mutex
    faults,    \* faults and updates so far
    contended, \* history: held workers that something else made available
    abandoned  \* history: workers whose request was given another one

vars == <<workers, queue, req, window, backend, proving, faults, contended,
          abandoned>>

BackoffCap == 2 ^ MaxBackoffExponent + 1

\* A pool entry.  failures = 0 stands for Healthy and Unknown; a number above
\* the largest backoff exponent is not told apart from it.  age is the time
\* since the first failure.
Worker == [addr: Addresses, available: BOOLEAN,
           failures: 0..MaxBackoffExponent, age: Nat]

RequestContext == [pc: {"new", "admitted", "queued", "picked", "connecting",
                        "connected", "proving", "finishing", "done"},
                   tries: 0..(MaxRetriesPerRequest + 1),
                   attempts: 0..MaxAttempts,
                   worker: Addresses \cup {None}]

NewContext(pc) == [pc |-> pc, tries |-> 0, attempts |-> 0, worker |-> None]

PoolType == workers \in Seq(Worker)

RequestType ==
    /\ queue \in Seq(Requests)
    /\ req \in [Requests -> RequestContext]
    /\ window \in 0..(MaxReqPerSec + 1)

BackendType ==
    /\ backend \in [Addresses -> {"up", "down", "wrong"}]
    /\ proving \in [Addresses -> Requests \cup {None}]
    /\ faults \in 0..MaxFaults

HistoryType == contended \subseteq Addresses /\ abandoned \subseteq Addresses

TypeOK == PoolType /\ RequestType /\ BackendType /\ HistoryType

-----------------------------------------------------------------------------
(* The pool. *)

\* A worker that cannot be reached joins the pool unhealthy and unavailable.
NewWorker(a) ==
    LET reached == backend[a] # "down"
    IN [addr |-> a, available |-> reached,
        failures |-> IF reached THEN 0 ELSE 1, age |-> 0]

IsHealthy(w) == w.failures = 0
Listed(a) == \E i \in DOMAIN workers : workers[i].addr = a
Available(i) == workers[i].available

\* Workers are equal if their addresses are, and the pool has no two equal ones.
Position(a) == CHOOSE i \in DOMAIN workers : workers[i].addr = a
Entry(a) == workers[Position(a)]
Without(a) == IF Listed(a) THEN RemoveAt(workers, Position(a)) ELSE workers

\* The requests whose context names the worker.
Holders(a) == {r \in Requests : req[r].worker = a}

\* The free worker that comes first in the list.
FirstAvailable ==
    CHOOSE i \in DOMAIN workers :
        Available(i) /\ \A j \in 1..(i - 1) : ~Available(j)

\* Mistake: the worker goes to the end of the list and stays unavailable.
AddWithoutMark(a) ==
    IF Listed(a) THEN Append(Without(a), Entry(a)) ELSE workers

\* The pool after the worker was marked available and moved to the end; a
\* worker that left the pool is not brought back.
AddAvailableWorker(a) ==
    IF Listed(a)
    THEN Append(Without(a), [Entry(a) EXCEPT !.available = TRUE])
    ELSE workers

ShouldDoHealthCheck(w) == IsHealthy(w) \/ w.age > 2 ^ w.failures

\* Whether check_status returns Ok.  An unhealthy worker whose backoff has not
\* passed is not asked, and the check returns Ok.
CheckStatus(w) == ShouldDoHealthCheck(w) => backend[w.addr] = "up"

\* Mistake: a worker that recovers is marked healthy and not given back.
UpdateWithoutRestore(w) ==
    IF CheckStatus(w)
    THEN [w EXCEPT !.failures = 0, !.age = 0]
    ELSE [w EXCEPT !.available = FALSE,
                   !.failures = IF @ < MaxBackoffExponent THEN @ + 1 ELSE @]

\* set_health_status: turning unhealthy takes the worker away, turning healthy
\* again gives it back.
UpdateStatus(w) ==
    IF CheckStatus(w)
    THEN [w EXCEPT !.available = @ \/ ~IsHealthy(w), !.failures = 0, !.age = 0]
    ELSE [w EXCEPT !.available = FALSE,
                   !.failures = IF @ < MaxBackoffExponent THEN @ + 1 ELSE @]

\* The held workers that the new pool offers although the old one did not.
Reoffered(pool) ==
    {a \in Addresses :
        /\ Holders(a) # {}
        /\ \E i \in DOMAIN pool : pool[i].addr = a /\ pool[i].available
        /\ Listed(a) => ~Entry(a).available}

Offered(pool) ==
    {a \in Addresses : \E i \in DOMAIN pool : pool[i].addr = a /\ pool[i].available}

-----------------------------------------------------------------------------
(* A request. *)

\* The rate limit, then the length of the queue.  A request that is turned
\* away has no worker, so that logging does nothing for it.
RequestFilter(r) ==
    /\ req[r].pc = "new"
    /\ window' = IF window <= MaxReqPerSec THEN window + 1 ELSE window
    /\ req' = [req EXCEPT ![r].pc =
                 IF window + 1 > MaxReqPerSec \/ Len(queue) >= MaxQueueItems
                 THEN "done" ELSE "admitted"]
    /\ UNCHANGED <<workers, queue, backend, proving, faults, contended, abandoned>>

\* upstream_peer is entered, for the first time or for a retry.
Enqueue(r) ==
    /\ req[r].pc = "admitted"
    /\ queue' = Append(queue, r)
    /\ req' = [req EXCEPT ![r].pc = "queued"]
    /\ UNCHANGED <<workers, window, backend, proving, faults, contended, abandoned>>

\* Mistake: the worker that was found is not marked as taken.
PopWithoutMark(r) ==
    /\ req[r].pc = "queued"
    /\ Head(queue) = r
    /\ \E i \in DOMAIN workers : Available(i)
    /\ LET a == workers[FirstAvailable].addr
       IN /\ req' = [req EXCEPT ![r].pc = "picked", ![r].worker = a]
          /\ abandoned' = abandoned \cup ({req[r].worker} \ {a, None})
    /\ UNCHANGED <<workers, queue, window, backend, proving, faults, contended>>

\* At the front of the queue, the request takes the first free worker.  The
\* worker of an earlier try is overwritten in the context.
PopAvailableWorker(r) ==
    /\ req[r].pc = "queued"
    /\ Head(queue) = r
    /\ \E i \in DOMAIN workers : Available(i)
    /\ LET a == workers[FirstAvailable].addr
       IN /\ workers' = [workers EXCEPT ![FirstAvailable].available = FALSE]
          /\ req' = [req EXCEPT ![r].pc = "picked", ![r].worker = a]
          /\ abandoned' = abandoned \cup ({req[r].worker} \ {a, None})
    /\ UNCHANGED <<queue, window, backend, proving, faults, contended>>

\* Mistake: upstream_peer removes the request at the back of the queue.
DequeueBack(r) ==
    /\ req[r].pc = "picked"
    /\ queue' = IF queue = << >> THEN queue ELSE Front(queue)
    /\ req' = [req EXCEPT ![r].pc = "connecting"]
    /\ UNCHANGED <<workers, window, backend, proving, faults, contended, abandoned>>

\* The front of the queue leaves, whoever it is.
Dequeue(r) ==
    /\ req[r].pc = "picked"
    /\ queue' = IF queue = << >> THEN queue ELSE Tail(queue)
    /\ req' = [req EXCEPT ![r].pc = "connecting"]
    /\ UNCHANGED <<workers, window, backend, proving, faults, contended, abandoned>>

Connect(r) ==
    /\ req[r].pc = "connecting"
    /\ backend[req[r].worker] # "down"
    /\ req' = [req EXCEPT ![r].pc = "connected"]
    /\ UNCHANGED <<workers, queue, window, backend, proving, faults, contended,
                   abandoned>>

\* Where Pingora continues after an error that may be retried.
AfterError(r, retry) ==
    IF retry /\ req[r].attempts + 1 < MaxAttempts
    THEN [req[r] EXCEPT !.pc = "admitted", !.attempts = @ + 1]
    ELSE [req[r] EXCEPT !.pc = "finishing"]

\* No connection in time: the worker stopped, or the network lost the packets.
FailToConnect(r) ==
    /\ req[r].pc = "connecting"
    /\ req' = [req EXCEPT ![r] =
                 IF req[r].tries > MaxRetriesPerRequest
                 THEN AfterError(r, FALSE)
                 ELSE [AfterError(r, TRUE) EXCEPT !.tries = req[r].tries + 1]]
    /\ UNCHANGED <<workers, queue, window, backend, proving, faults, contended,
                   abandoned>>

\* The worker takes the request if its prover is for this type of proof and is
\* not locked by another proof; otherwise it answers with an error at once.
Prove(r) ==
    LET a == req[r].worker
        starts == backend[a] = "up" /\ proving[a] = None
    IN /\ req[r].pc = "connected"
       /\ backend[a] # "down"
       /\ proving' = IF starts THEN [proving EXCEPT ![a] = r] ELSE proving
       /\ req' = [req EXCEPT ![r].pc = IF starts THEN "proving" ELSE "finishing"]
       /\ UNCHANGED <<workers, queue, window, backend, faults, contended, abandoned>>

\* The connection breaks or the read times out.  Pingora retries the request
\* if the connection was a reused one.  The worker is not told: its proof
\* runs to the end.
ErrorWhileProxy(r) ==
    /\ req[r].pc \in {"connected", "proving"}
    /\ \E reused \in BOOLEAN : req' = [req EXCEPT ![r] = AfterError(r, reused)]
    /\ UNCHANGED <<workers, queue, window, backend, proving, faults, contended,
                   abandoned>>

\* The proof, or the failure to prove, is answered if its request still waits.
FinishProof(a) ==
    LET r == proving[a]
    IN /\ r # None
       /\ proving' = [proving EXCEPT ![a] = None]
       /\ req' = IF req[r].pc = "proving" /\ req[r].worker = a
                 THEN [req EXCEPT ![r].pc = "finishing"] ELSE req
       /\ UNCHANGED <<workers, queue, window, backend, faults, contended, abandoned>>

\* The last callback of every request gives its worker back.
Logging(r) ==
    LET a == req[r].worker
    IN /\ req[r].pc = "finishing"
       /\ req' = [req EXCEPT ![r] = NewContext("done")]
       /\ workers' = AddAvailableWorker(a)
       /\ contended' = IF Holders(a) = {r} THEN contended \ {a} ELSE contended
       /\ abandoned' = abandoned \ Offered(workers')
       /\ UNCHANGED <<queue, window, backend, proving, faults>>

-----------------------------------------------------------------------------
(* The background services and the environment. *)

\* One pass over the pool, under its write lock.
HealthCheck ==
    /\ workers' = [i \in DOMAIN workers |-> UpdateStatus(workers[i])]
    /\ contended' = contended \cup Reoffered(workers')
    /\ abandoned' = abandoned \ Offered(workers')
    /\ UNCHANGED <<queue, req, window, backend, proving, faults>>

\* update_workers for one address: a listed worker is not added again.
Updated(action, a) ==
    CASE action = "Remove" -> Without(a)
      [] action = "Add" /\ Listed(a) -> workers
      [] OTHER -> Append(workers, NewWorker(a))

\* The update service; a request it cannot read or parse changes nothing.
UpdateWorkers(action, a) ==
    /\ faults < MaxFaults
    /\ faults' = faults + 1
    /\ workers' = Updated(action, a)
    /\ contended' = contended \cup Reoffered(workers')
    /\ abandoned' = abandoned \ Offered(workers')
    /\ UNCHANGED <<queue, req, window, backend, proving>>

\* A worker process stops, is started again, or is started for another type of
\* proof.  The proof it was computing is gone.
Restart(a, kind) ==
    /\ faults < MaxFaults
    /\ backend[a] # kind
    /\ faults' = faults + 1
    /\ backend' = [backend EXCEPT ![a] = kind]
    /\ proving' = [proving EXCEPT ![a] = None]
    /\ UNCHANGED <<workers, queue, req, window, contended, abandoned>>

\* Time passes: the rate limiter's window ends, unhealthy workers age.
Tick ==
    /\ window' = 0
    /\ workers' = [i \in DOMAIN workers |->
                     IF IsHealthy(workers[i]) \/ workers[i].age = BackoffCap
                     THEN workers[i] ELSE [workers[i] EXCEPT !.age = @ + 1]]
    /\ UNCHANGED <<queue, req, backend, proving, faults, contended, abandoned>>

-----------------------------------------------------------------------------
Init ==
    /\ backend \in [Addresses -> {"up", "down"}]
    /\ faults = Cardinality({a \in Addresses : backend[a] = "down"})
    /\ faults <= MaxFaults
    /\ workers = [i \in DOMAIN InitialWorkers |-> NewWorker(InitialWorkers[i])]
    /\ queue = << >>
    /\ req = [r \in Requests |-> NewContext("new")]
    /\ window = 0
    /\ proving = [a \in Addresses |-> None]
    /\ contended = {}
    /\ abandoned = {}

\* What the task of one request does next.
RequestStep(r) ==
    \/ Enqueue(r)
    \/ PopAvailableWorker(r)
    \/ Dequeue(r)
    \/ Connect(r)
    \/ FailToConnect(r)
    \/ Prove(r)
    \/ ErrorWhileProxy(r)
    \/ Logging(r)

Next ==
    \/ \E r \in Requests : RequestFilter(r) \/ RequestStep(r)
    \/ \E a \in Addresses :
          \/ FinishProof(a)
          \/ \E action \in {"Add", "Remove"} : UpdateWorkers(action, a)
          \/ \E kind \in {"up", "down", "wrong"} : Restart(a, kind)
    \/ HealthCheck
    \/ Tick

\* Requests are tasks of a running server, with a timeout on the connection
\* and on the answer; the health check and the clock go on for ever.
Fairness ==
    /\ \A r \in Requests : WF_vars(RequestStep(r))
    /\ WF_vars(HealthCheck)
    /\ WF_vars(Tick)

Spec == Init /\ [][Next]_vars /\ Fairness

-----------------------------------------------------------------------------
(* Properties. *)

\* The queue holds exactly the requests that wait in upstream_peer, each once,
\* and the one that has taken a worker is still at the front when it removes
\* the front: peek never finds an empty queue and nobody loses their place.
QueueIntact ==
    /\ IsInjective(queue)
    /\ ToSet(queue) = {r \in Requests : req[r].pc \in {"queued", "picked"}}
    /\ \A r \in Requests : req[r].pc = "picked" => Head(queue) = r

\* Two requests never have the same worker, unless the health check or a
\* remove and add of the worker offered it again while a request held it.
OneRequestPerWorker ==
    \A a \in Addresses \ contended : Cardinality(Holders(a)) <= 1

\* Every healthy worker of the pool that is not on offer is in use, unless the
\* retry of a failed connection dropped it.
WorkersAccountedFor ==
    \A i \in DOMAIN workers :
        IsHealthy(workers[i]) /\ ~Available(i) =>
            Holders(workers[i].addr) # {} \/ workers[i].addr \in abandoned

\* The pool of workers is accounted for: none is shared and none is forgotten.
WorkersExact == TypeOK /\ OneRequestPerWorker /\ WorkersAccountedFor

\* Every worker that a finished request used is on offer again ("we log the
\* request lifecycle and set the worker as available"): a retry that takes
\* another worker loses the first one.  (fail_to_connect, upstream_peer)
NoWorkerLost ==
    \A i \in DOMAIN workers :
        IsHealthy(workers[i]) /\ ~Available(i) => Holders(workers[i].addr) # {}

\* "A worker is available if it is healthy and ready to process requests": none
\* is on offer while a request still holds it.  A health check that the backoff
\* skips counts as passed and offers it again.  (check_status, is_available)
OfferedIsReady ==
    \A i \in DOMAIN workers : Available(i) => Holders(workers[i].addr) = {}

\* A worker the pool can count on: listed, running, neither dropped by a retry
\* nor kept by a request that waits for another one.
Serving(a) ==
    /\ Listed(a)
    /\ backend[a] = "up"
    /\ a \notin abandoned
    /\ \A r \in Holders(a) : req[r].pc \notin {"admitted", "queued"}

\* If from some time on a worker serves, every request that was admitted is
\* answered: the queue never stalls and workers that recover are used again.
EveryRequestAnswered ==
    (\E a \in Addresses : <>[]Serving(a)) =>
        \A r \in Requests : (req[r].pc = "admitted") ~> (req[r].pc = "done")

=============================================================================

------------------------ MODULE BlockProducerProofs ------------------------
(***************************************************************************)
(* Proofs about the block producer, for every set of transactions,         *)
(* accounts, notes and workers, every budget and every bound.              *)
(*                                                                         *)
(* The mempool is a value that its methods change: Consistent says what    *)
(* its parts have in common, and each method is shown to preserve it and,  *)
(* where the code relies on it, to meet its expects.  Consistent does not  *)
(* mention the jobs and the block builder; what they know of the mempool   *)
(* (Undisturbed) holds as long as no stale job has reported on a batch     *)
(* with a reused id, which never happens with a single worker.             *)
(***************************************************************************)
EXTENDS BlockProducer, BasicLemmas

Batch == Seq(Tx) \ {<<>>}

Retained(s) == UNION ToSet(s.committed_blocks)

(* Records, as in BasicLemmas.                                              *)
MempoolFields ==
    {"transactions", "batches", "state", "expirations", "chain_tip", "block_in_progress",
     "subscription", "panicked"}
IsMempool(m) == m = [f \in MempoolFields |-> m[f]]

Accounts == [states : Seq([state : Nat, tx : Tx]), committed : Nat]

InflightStates ==
    [accounts : [Account -> Accounts], nullifiers : SUBSET Note,
     output_notes : UNION {[D -> Tx \cup {Committed}] : D \in SUBSET Note},
     transaction_deltas : SUBSET Tx, committed_blocks : Seq(SUBSET Tx), chain_tip : Nat]

Event == [type : {"added", "committed", "reverted"}, txs : SUBSET Tx, block : Nat]

Providers ==
    [chain_tip : Nat, inflight_txs : Seq(Tx), connected : BOOLEAN, capacity : Nat,
     channel : Seq(Event)]

-----------------------------------------------------------------------------
(* THE INVARIANT OF THE MEMPOOL                                             *)

(* The transaction graph is sound and nothing in it is pending.             *)
GraphOK(g) == WellFormed(g, Tx) /\ g.pending = {} /\ IsFiniteSet(Nodes(g))

(* The batch graph is sound, has no cycle and fits the transaction graph.   *)
BatchesOK(bs, g) ==
    /\ bs = [inner |-> bs.inner, transactions |-> bs.transactions, batches |-> bs.batches]
    /\ WellFormed(bs.inner, Batch) /\ Acyclic(bs.inner)
    /\ Nodes(bs.inner) = bs.batches /\ IsFiniteSet(bs.batches)
    /\ bs.transactions \in [g.processed -> bs.batches]
    /\ \A b \in bs.batches : ToSet(b) \subseteq g.processed
    /\ \A b \in bs.batches, t \in g.processed : t \in ToSet(b) <=> bs.transactions[t] = b
    /\ \A b \in bs.batches :
          bs.inner.parents[b] =
            {bs.transactions[p] : p \in UNION {g.parents[t] : t \in ToSet(b)}} \ {b}

(* The states of an account: those of the retained committed transactions   *)
(* and those of the inflight ones, each starting where the one before it    *)
(* ended and, if inflight, depending on the one before it.                  *)
ChainOK(acc, a, blocks, g) ==
    LET N       == Len(acc.states)
        tx(i)   == acc.states[i].tx
        mine(T) == {t \in T : account_id(t) = a}
    IN  /\ acc.committed <= N
        /\ {tx(i) : i \in 1 .. acc.committed} = mine(UNION ToSet(blocks))
        /\ {tx(i) : i \in acc.committed + 1 .. N} = mine(Nodes(g))
        /\ \A i \in 1 .. N : acc.states[i].state = final_state(tx(i))
        /\ \A i \in 2 .. N : initial_state(tx(i)) = final_state(tx(i - 1))
        /\ \A i, j \in 1 .. N : i < j => tx(i) # tx(j) /\ final_state(tx(i)) <= initial_state(tx(j))
        /\ \A i \in acc.committed + 1 .. N - 1 : tx(i) \in g.parents[tx(i + 1)]
        /\ \A i, j \in 1 .. acc.committed, p, q \in DOMAIN blocks :
             i < j /\ tx(i) \in blocks[p] /\ tx(j) \in blocks[q] => p <= q

(* Blocks are finite and have no transaction in common.                     *)
BlocksOK(blocks) ==
    /\ \A p \in DOMAIN blocks : IsFiniteSet(blocks[p])
    /\ \A p, q \in DOMAIN blocks : p # q => blocks[p] \cap blocks[q] = {}

(* The nullifiers U and the notes O are those of the inflight transactions  *)
(* I and of the committed ones R, no two of which have one in common.       *)
NotesAre(U, O, I, R) ==
    /\ U = UNION {nullifiers(t) : t \in I \cup R}
    /\ DOMAIN O = UNION {output_note_ids(t) : t \in I \cup R}
    /\ \A t, u \in I \cup R : t # u => /\ nullifiers(t) \cap nullifiers(u) = {}
                                      /\ output_note_ids(t) \cap output_note_ids(u) = {}
    /\ \A t \in I : \A n \in output_note_ids(t) : O[n] = t
    /\ \A t \in R : \A n \in output_note_ids(t) : O[n] = Committed

NotesOK(s, g) == NotesAre(s.nullifiers, s.output_notes, Nodes(g), Retained(s))

StateOK(s, g) ==
    /\ s \in InflightStates
    /\ s.transaction_deltas = Nodes(g)
    /\ BlocksOK(s.committed_blocks)
    /\ \A a \in Account : ChainOK(s.accounts[a], a, s.committed_blocks, g)
    /\ NotesOK(s, g)

ProviderOK(p, g) ==
    /\ p \in Providers
    /\ ToSet(p.inflight_txs) = Nodes(g)
    /\ IsInjective(p.inflight_txs)

(* The parts of a mempool fit together.                                     *)
Sound(m) ==
    /\ IsMempool(m)
    /\ GraphOK(m.transactions)
    /\ BatchesOK(m.batches, m.transactions)
    /\ StateOK(m.state, m.transactions)
    /\ ProviderOK(m.subscription, m.transactions)
    /\ m.expirations = Nodes(m.transactions)
    /\ m.chain_tip = m.state.chain_tip
    /\ \/ m.block_in_progress = {}
       \/ \E S \in m.block_in_progress : m.block_in_progress = {S} /\ S \subseteq Batch
    /\ m.panicked \in BOOLEAN

(* Between calls, moreover, nothing in it has expired.                      *)
Consistent(m) ==
    /\ Sound(m)
    /\ \A t \in Nodes(m.transactions) : expires_at(t) > m.chain_tip

-----------------------------------------------------------------------------
(* THE INVARIANT OF THE BLOCK PRODUCER                                      *)

RequestTypes == requests \in [Tx -> Inputs \cup {NoRequest}]

JobTypes(js) ==
    /\ js \in [Worker -> [batch : Seq(Tx), stale : BOOLEAN]]
    /\ \A w \in Worker : js[w].batch = <<>> => ~js[w].stale

BuilderTypes ==
    /\ builder \in [step : {"idle", "selected", "applied", "failed"}, block : SUBSET Tx]
    /\ IsFiniteSet(builder.block)
    /\ builder.step = "selected" => height < MaxHeight

StoreTypes ==
    /\ store = [chain |-> store.chain, accounts |-> store.accounts]
    /\ store.chain \in Seq(SUBSET Tx) /\ height <= MaxHeight
    /\ store.accounts \in [Account -> Nat]

SubscriberTypes ==
    subscriber \in [step : {"none", "loaded", "attached"}, tip : Nat,
                    committed : SUBSET Tx, inflight : SUBSET Tx]

FaultTypes ==
    /\ faults \in [batch : Nat, block : Nat, lost : Nat, restart : Nat, subscription : Nat]
    /\ reused \in BOOLEAN

ProcessTypes ==
    /\ RequestTypes /\ JobTypes(jobs) /\ BuilderTypes
    /\ StoreTypes /\ SubscriberTypes /\ FaultTypes

(* A job that is not stale works on a batch that awaits its proof, no two   *)
(* on the same one, and every such batch has a job.                         *)
JobsFit(js, pending) ==
    /\ \A w \in Worker : js[w].batch # <<>> /\ ~js[w].stale => js[w].batch \in pending
    /\ \A v, w \in Worker :
         v # w /\ ~js[v].stale /\ ~js[w].stale /\ js[v].batch = js[w].batch => js[v].batch = <<>>
    /\ \A b \in pending : \E w \in Worker : js[w].batch = b /\ ~js[w].stale

(* While no stale job has reported on a batch with a reused id.             *)
Undisturbed ==
    /\ ~mempool.panicked
    /\ JobsFit(jobs, mempool.batches.inner.pending)
    /\ mempool.batches.inner.processed = UNION mempool.block_in_progress

(* The block the builder holds is the mempool's block in progress, and the  *)
(* store's last one once it was applied.                                    *)
BuilderMatches ==
    /\ ~mempool.panicked => /\ (builder.step = "idle") <=> (mempool.block_in_progress = {})
                            /\ builder.block = TxsOf(UNION mempool.block_in_progress)
    /\ builder.step = "applied" => height > 0 /\ store.chain[height] = builder.block

(* The mempool's tips are the store's, but for a block that was applied and *)
(* not yet reported.                                                        *)
TipsMatch ==
    LET tip == height - (IF builder.step = "applied" THEN 1 ELSE 0)
    IN  mempool.chain_tip = tip /\ mempool.subscription.chain_tip = tip

Inv ==
    /\ Consistent(mempool)
    /\ ProcessTypes
    /\ BuilderMatches
    /\ ~reused => Undisturbed
    /\ ~reused /\ faults.lost = 0 => TipsMatch

-----------------------------------------------------------------------------
(* FACTS ABOUT THE CONSTANTS                                                *)

(* What the proofs use of a transaction's contents.                         *)
LEMMA TxFacts ==
    /\ Committed \notin Tx
    /\ Tx \subseteq Nat
    /\ \A t \in Tx : /\ account_id(t) \in Account
                     /\ initial_state(t) \in Nat /\ final_state(t) \in Nat
                     /\ expires_at(t) \in Nat
                     /\ nullifiers(t) \subseteq Note /\ output_note_ids(t) \subseteq Note
                     /\ initial_state(t) <= final_state(t)
                     /\ initial_state(t) # final_state(t) \/ nullifiers(t) # {}
BY TransactionsAssumption
   DEF Committed, account_id, initial_state, final_state, expires_at, nullifiers, output_note_ids

(* What the proofs use of the budgets.                                      *)
LEMMA BudgetFacts ==
    /\ batch_budget.transactions \in Nat
    /\ block_budget \in Nat
BY MempoolAssumption

-----------------------------------------------------------------------------
(* SELECTING A BATCH                                                        *)

PickNone(g) == [g |-> g, left |-> batch_budget, batch |-> <<>>, parents |-> {}]

PickStep(was) ==
    LET root == First(was.g.roots)
    IN  IF was.g.roots = {} \/ ~Within(was.left, root) THEN was
        ELSE [g       |-> process_root(was.g, root),
              left    |-> check_then_subtract(was.left, root),
              batch   |-> Append(was.batch, root),
              parents |-> was.parents \cup was.g.parents[root]]

(* transactions_select_batch is a run of PickStep.                          *)
LEMMA PickRuns ==
    ASSUME NEW graph
    PROVE  \E k : /\ k = [n \in 0 .. batch_budget.transactions |-> IF n = 0 THEN PickNone(graph) ELSE PickStep(k[n - 1])]
                 /\ transactions_select_batch(graph) = k[batch_budget.transactions]
<1> DEFINE N == batch_budget.transactions
<1> DEFINE Runs(k, M) == k = [n \in 0 .. M |-> IF n = 0 THEN PickNone(graph) ELSE PickStep(k[n - 1])]
<1> DEFINE Defined(M) == \E k : Runs(k, M)
<1> DEFINE Bad == {M \in 0 .. N : ~Defined(M)}
<1>0. N \in Nat
  BY BudgetFacts
<1>1. Defined(N)
  <2> SUFFICES ASSUME ~Defined(N)
               PROVE  FALSE
    OBVIOUS
  <2> HIDE DEF Defined
  <2>0. N \in Bad /\ Bad \subseteq Nat
    BY <1>0
  <2>1. PICK M \in Bad : \A y \in Bad : M <= y
    BY <2>0, LeastNatural
  <2>2. M # 0
    <3>1. Runs([n \in 0 .. 0 |-> PickNone(graph)], 0)
      OBVIOUS
    <3> HIDE DEF Runs
    <3> QED BY <2>1, <3>1 DEF Defined
  <2>3. Defined(M - 1)
    <3>1. M - 1 \in 0 .. N /\ ~(M <= M - 1)
      BY <1>0, <2>1, <2>2
    <3> QED BY <2>1, <3>1
  <2>4. PICK k : Runs(k, M - 1)
    BY <2>3 DEF Defined
  <2> DEFINE g == [n \in 0 .. M |-> IF n = M THEN PickStep(k[M - 1]) ELSE k[n]]
  <2>5. M \in Nat /\ M - 1 \in 0 .. M - 1 /\ \A n \in 0 .. M : n # M => n \in 0 .. M - 1
    BY <1>0, <2>1, <2>2
  <2>7. Runs(g, M)
    <3> SUFFICES ASSUME NEW n \in 0 .. M
                 PROVE  g[n] = IF n = 0 THEN PickNone(graph) ELSE PickStep(g[n - 1])
      OBVIOUS
    <3>1. CASE n = M
      <4>1. g[M - 1] = k[M - 1] /\ g[M] = PickStep(k[M - 1])
        BY <2>5
      <4> HIDE DEF g
      <4> QED BY <2>2, <2>5, <3>1, <4>1
    <3>2. CASE n # M
      <4>1. n \in 0 .. M - 1 /\ g[n] = k[n]
        BY <2>5, <3>2
      <4>2. k[n] = IF n = 0 THEN PickNone(graph) ELSE PickStep(k[n - 1])
        BY <2>4, <4>1
      <4>3. n # 0 => g[n - 1] = k[n - 1]
        BY <2>5, <3>2
      <4> HIDE DEF g
      <4> QED BY <4>1, <4>2, <4>3
    <3> QED BY <3>1, <3>2
  <2> HIDE DEF g
  <2>8. Defined(M)
    <3> HIDE DEF Runs
    <3> QED BY <2>7 DEF Defined
  <2> QED BY <2>1, <2>8
<1>2. transactions_select_batch(graph) = (CHOOSE k : Runs(k, N))[N]
  BY Zenon DEF transactions_select_batch, PickNone, PickStep
<1>3. Runs(CHOOSE k : Runs(k, N), N)
  <2> HIDE DEF Runs
  <2> QED BY <1>1
<1> QED BY <1>2, <1>3

-----------------------------------------------------------------------------
(* THE SUBSCRIPTION                                                         *)

KeepStep(kept, t, txs) == IF t \in txs THEN kept ELSE Append(kept, t)

(* inflight_txs_without is a run of KeepStep.                               *)
LEMMA WithoutRuns ==
    ASSUME NEW p, p.inflight_txs \in Seq(Tx), NEW txs
    PROVE  \E k : /\ k = [n \in 0 .. Len(p.inflight_txs) |-> IF n = 0 THEN <<>> ELSE KeepStep(k[n - 1], p.inflight_txs[n], txs)]
                 /\ inflight_txs_without(p, txs) = [p EXCEPT !.inflight_txs = k[Len(p.inflight_txs)]]
<1> DEFINE N == Len(p.inflight_txs)
<1> DEFINE Runs(k, M) == k = [n \in 0 .. M |-> IF n = 0 THEN <<>> ELSE KeepStep(k[n - 1], p.inflight_txs[n], txs)]
<1> DEFINE Defined(M) == \E k : Runs(k, M)
<1> DEFINE Bad == {M \in 0 .. N : ~Defined(M)}
<1>0. N \in Nat
  BY LenProperties
<1>1. Defined(N)
  <2> SUFFICES ASSUME ~Defined(N)
               PROVE  FALSE
    OBVIOUS
  <2> HIDE DEF Defined
  <2>0. N \in Bad /\ Bad \subseteq Nat
    BY <1>0
  <2>1. PICK M \in Bad : \A y \in Bad : M <= y
    BY <2>0, LeastNatural
  <2>2. M # 0
    <3>1. Runs([n \in 0 .. 0 |-> <<>>], 0)
      OBVIOUS
    <3> HIDE DEF Runs
    <3> QED BY <2>1, <3>1 DEF Defined
  <2>3. Defined(M - 1)
    <3>1. M - 1 \in 0 .. N /\ ~(M <= M - 1)
      BY <1>0, <2>1, <2>2
    <3> QED BY <2>1, <3>1
  <2>4. PICK k : Runs(k, M - 1)
    BY <2>3 DEF Defined
  <2> DEFINE g == [n \in 0 .. M |-> IF n = M THEN KeepStep(k[M - 1], p.inflight_txs[M], txs) ELSE k[n]]
  <2>5. M \in Nat /\ M - 1 \in 0 .. M - 1 /\ \A n \in 0 .. M : n # M => n \in 0 .. M - 1
    BY <1>0, <2>1, <2>2
  <2>7. Runs(g, M)
    <3> SUFFICES ASSUME NEW n \in 0 .. M
                 PROVE  g[n] = IF n = 0 THEN <<>> ELSE KeepStep(g[n - 1], p.inflight_txs[n], txs)
      OBVIOUS
    <3>1. CASE n = M
      <4>1. g[M - 1] = k[M - 1] /\ g[M] = KeepStep(k[M - 1], p.inflight_txs[M], txs)
        BY <2>5
      <4> HIDE DEF g
      <4> QED BY <2>2, <2>5, <3>1, <4>1
    <3>2. CASE n # M
      <4>1. n \in 0 .. M - 1 /\ g[n] = k[n]
        BY <2>5, <3>2
      <4>2. k[n] = IF n = 0 THEN <<>> ELSE KeepStep(k[n - 1], p.inflight_txs[n], txs)
        BY <2>4, <4>1
      <4>3. n # 0 => g[n - 1] = k[n - 1]
        BY <2>5, <3>2
      <4> HIDE DEF g
      <4> QED BY <4>1, <4>2, <4>3
    <3> QED BY <3>1, <3>2
  <2> HIDE DEF g
  <2>8. Defined(M)
    <3> HIDE DEF Runs
    <3> QED BY <2>7 DEF Defined
  <2> QED BY <2>1, <2>8
<1>2. inflight_txs_without(p, txs) = [p EXCEPT !.inflight_txs = (CHOOSE k : Runs(k, N))[N]]
  BY Zenon DEF inflight_txs_without, KeepStep
<1>3. Runs(CHOOSE k : Runs(k, N), N)
  <2> HIDE DEF Runs
  <2> QED BY <1>1
<1> QED BY <1>2, <1>3

(* The replay list loses the given transactions and nothing else.           *)
LEMMA Without ==
    ASSUME NEW p \in Providers, NEW txs, IsInjective(p.inflight_txs)
    PROVE  \E s \in Seq(Tx) :
              /\ inflight_txs_without(p, txs) = [p EXCEPT !.inflight_txs = s]
              /\ ToSet(s) = ToSet(p.inflight_txs) \ txs
              /\ IsInjective(s)
<1> DEFINE q == p.inflight_txs
<1>1. q \in Seq(Tx) /\ Len(q) \in Nat /\ DOMAIN q = 1 .. Len(q) /\ \A i \in 1 .. Len(q) : q[i] \in Tx
  BY LenProperties, ElementOfSeq DEF Providers
<1>2. PICK k : /\ k = [n \in 0 .. Len(q) |-> IF n = 0 THEN <<>> ELSE KeepStep(k[n - 1], q[n], txs)]
               /\ inflight_txs_without(p, txs) = [p EXCEPT !.inflight_txs = k[Len(q)]]
  BY <1>1, WithoutRuns
<1> HIDE DEF q
<1>i. \A i, j \in 1 .. Len(q) : q[i] = q[j] => i = j
  BY <1>1 DEF q, IsInjective
<1> DEFINE Good(n) == /\ k[n] \in Seq(Tx)
                     /\ ToSet(k[n]) = {q[i] : i \in 1 .. n} \ txs
                     /\ IsInjective(k[n])
<1>3. Good(Len(q))
  <2> SUFFICES ASSUME ~Good(Len(q))
               PROVE  FALSE
    OBVIOUS
  <2> DEFINE Bad == {n \in 0 .. Len(q) : ~Good(n)}
  <2>1. Len(q) \in Bad /\ Bad \subseteq Nat
    BY <1>1
  <2> HIDE DEF Good
  <2>2. PICK n \in Bad : \A y \in Bad : n <= y
    <3> HIDE DEF Bad
    <3> QED BY <2>1, LeastNatural
  <2>3. n # 0
    <3>1. k[0] = <<>>
      BY <1>1, <1>2
    <3>2. Good(0)
      <4>1. ToSet(<<>>) = {} /\ IsInjective(<<>>) /\ <<>> \in Seq(Tx)
        BY EmptySeq DEF ToSet, IsInjective
      <4>2. {q[i] : i \in 1 .. 0} = {}
        OBVIOUS
      <4> QED BY <3>1, <4>1, <4>2 DEF Good
    <3> QED BY <2>2, <3>2
  <2>4. n \in 1 .. Len(q) /\ n - 1 \in 0 .. Len(q) /\ ~(n <= n - 1)
    BY <1>1, <2>2, <2>3
  <2>5. Good(n - 1)
    BY <2>2, <2>4
  <2>6. k[n] = KeepStep(k[n - 1], q[n], txs)
    BY <1>2, <2>2, <2>3
  <2>7. {q[i] : i \in 1 .. n} = {q[i] : i \in 1 .. n - 1} \cup {q[n]}
    BY <2>4
  <2>8. q[n] \notin {q[i] : i \in 1 .. n - 1}
    BY <1>1, <1>i, <2>4
  <2>9. CASE q[n] \in txs
    <3>1. k[n] = k[n - 1]
      BY <2>6, <2>9 DEF KeepStep
    <3> QED BY <2>2, <2>5, <2>7, <2>9, <3>1 DEF Good
  <2>10. CASE q[n] \notin txs
    <3> DEFINE s == k[n - 1]
    <3>0. k[n] = Append(s, q[n]) /\ q[n] \in Tx /\ s \in Seq(Tx) /\ IsInjective(s)
          /\ ToSet(s) = {q[i] : i \in 1 .. n - 1} \ txs
      BY <1>1, <2>4, <2>5, <2>6, <2>10 DEF KeepStep, Good
    <3> HIDE DEF s
    <3>1. q[n] \notin ToSet(s)
      BY <2>8, <3>0
    <3>2. Append(s, q[n]) \in Seq(Tx) /\ ToSet(Append(s, q[n])) = ToSet(s) \cup {q[n]}
          /\ IsInjective(Append(s, q[n]))
      BY <3>0, <3>1, AppendSet
    <3>3. Good(n)
      BY <2>7, <2>10, <3>0, <3>2 DEF Good
    <3> QED BY <2>2, <3>3
  <2> QED BY <2>9, <2>10
<1>4. ToSet(q) = {q[i] : i \in 1 .. Len(q)}
  BY <1>1 DEF ToSet
<1> QED BY <1>1, <1>2, <1>3, <1>4 DEF q

(* Sending an event changes the channel and the connection only.            *)
LEMMA SendEvent ==
    ASSUME NEW p \in Providers, NEW e \in Event
    PROVE  /\ send_event(p, e) \in Providers
           /\ send_event(p, e).inflight_txs = p.inflight_txs
           /\ send_event(p, e).chain_tip = p.chain_tip
<1>1. p.channel \in Seq(Event) /\ Append(p.channel, e) \in Seq(Event)
  BY AppendProperties DEF Providers
<1>2. \A c \in Seq(Event) : [p EXCEPT !.channel = c] \in Providers
  BY DEF Providers
<1>3. [p EXCEPT !.connected = FALSE] \in Providers
  BY DEF Providers
<1>4. \A c : [p EXCEPT !.channel = c].inflight_txs = p.inflight_txs /\ [p EXCEPT !.channel = c].chain_tip = p.chain_tip
  BY DEF Providers
<1>5. [p EXCEPT !.connected = FALSE].inflight_txs = p.inflight_txs /\ [p EXCEPT !.connected = FALSE].chain_tip = p.chain_tip
  BY DEF Providers
<1> QED BY <1>1, <1>2, <1>3, <1>4, <1>5 DEF send_event

(* A transaction that is added is appended to the replay list.              *)
LEMMA TransactionAddedOK ==
    ASSUME NEW p \in Providers, IsInjective(p.inflight_txs), NEW t \in Tx, t \notin ToSet(p.inflight_txs)
    PROVE  LET q == transaction_added(p, t)
           IN  /\ q \in Providers
               /\ ToSet(q.inflight_txs) = ToSet(p.inflight_txs) \cup {t}
               /\ IsInjective(q.inflight_txs)
               /\ q.chain_tip = p.chain_tip
<1> DEFINE s == Append(p.inflight_txs, t)
<1> DEFINE r == [p EXCEPT !.inflight_txs = s]
<1>1. p.inflight_txs \in Seq(Tx)
  BY DEF Providers
<1>2. s \in Seq(Tx) /\ ToSet(s) = ToSet(p.inflight_txs) \cup {t} /\ IsInjective(s)
  BY <1>1, AppendSet
<1> HIDE DEF s
<1>3. r \in Providers /\ r.inflight_txs = s /\ r.chain_tip = p.chain_tip
  BY <1>2 DEF Providers
<1>4. TransactionAdded(t) \in Event
  BY DEF Event, TransactionAdded
<1>5. transaction_added(p, t) = send_event(r, TransactionAdded(t))
  BY DEF transaction_added, s
<1> HIDE DEF r
<1> QED BY <1>2, <1>3, <1>4, <1>5, SendEvent

(* Transactions that are reverted leave the replay list.                    *)
LEMMA TxsRevertedOK ==
    ASSUME NEW p \in Providers, IsInjective(p.inflight_txs), NEW txs, txs \subseteq Tx
    PROVE  LET q == txs_reverted(p, txs)
           IN  /\ q \in Providers
               /\ ToSet(q.inflight_txs) = ToSet(p.inflight_txs) \ txs
               /\ IsInjective(q.inflight_txs)
               /\ q.chain_tip = p.chain_tip
<1>1. PICK s \in Seq(Tx) : /\ inflight_txs_without(p, txs) = [p EXCEPT !.inflight_txs = s]
                           /\ ToSet(s) = ToSet(p.inflight_txs) \ txs
                           /\ IsInjective(s)
  BY Without
<1> DEFINE r == [p EXCEPT !.inflight_txs = s]
<1>3. r \in Providers /\ r.inflight_txs = s /\ r.chain_tip = p.chain_tip
  BY DEF Providers
<1>4. TransactionsReverted(txs) \in Event
  BY DEF Event, TransactionsReverted
<1>5. txs_reverted(p, txs) = send_event(r, TransactionsReverted(txs))
  BY <1>1 DEF txs_reverted
<1> HIDE DEF r
<1> QED BY <1>1, <1>3, <1>4, <1>5, SendEvent

(* So do those of a committed block, whose number is the new tip.           *)
LEMMA BlockCommittedOK ==
    ASSUME NEW p \in Providers, IsInjective(p.inflight_txs), NEW txs, txs \subseteq Tx, NEW n \in Nat
    PROVE  LET q == block_committed(p, n, txs)
           IN  /\ q \in Providers
               /\ ToSet(q.inflight_txs) = ToSet(p.inflight_txs) \ txs
               /\ IsInjective(q.inflight_txs)
               /\ q.chain_tip = n
<1>1. PICK s \in Seq(Tx) : /\ inflight_txs_without(p, txs) = [p EXCEPT !.inflight_txs = s]
                           /\ ToSet(s) = ToSet(p.inflight_txs) \ txs
                           /\ IsInjective(s)
  BY Without
<1> DEFINE r == [[p EXCEPT !.inflight_txs = s] EXCEPT !.chain_tip = n]
<1>3. r \in Providers /\ r.inflight_txs = s /\ r.chain_tip = n
  <2>1. [p EXCEPT !.inflight_txs = s] \in Providers /\ [p EXCEPT !.inflight_txs = s].inflight_txs = s
    BY DEF Providers
  <2>2. \A d \in Providers : [d EXCEPT !.chain_tip = n] \in Providers
           /\ [d EXCEPT !.chain_tip = n].inflight_txs = d.inflight_txs /\ [d EXCEPT !.chain_tip = n].chain_tip = n
    BY DEF Providers
  <2> QED BY <2>1, <2>2
<1>4. BlockCommitted(n, txs) \in Event
  BY DEF Event, BlockCommitted
<1>5. block_committed(p, n, txs) = send_event(r, BlockCommitted(n, txs))
  BY <1>1 DEF block_committed
<1> HIDE DEF r
<1> QED BY <1>1, <1>3, <1>4, <1>5, SendEvent

(* A new subscription keeps replay list and tip.                            *)
LEMMA SubscribeOK ==
    ASSUME NEW p \in Providers
    PROVE  /\ provider_subscribe(p) \in Providers
           /\ provider_subscribe(p).inflight_txs = p.inflight_txs
           /\ provider_subscribe(p).chain_tip = p.chain_tip
<1> DEFINE wanted == 2 * Len(p.inflight_txs)
<1> DEFINE cap == IF wanted > min_capacity THEN wanted ELSE min_capacity
<1> DEFINE ch == [i \in 1 .. Len(p.inflight_txs) |-> TransactionAdded(p.inflight_txs[i])]
<1>1. p.inflight_txs \in Seq(Tx) /\ Len(p.inflight_txs) \in Nat
      /\ \A i \in 1 .. Len(p.inflight_txs) : p.inflight_txs[i] \in Tx
  BY LenProperties, ElementOfSeq DEF Providers
<1>2. cap \in Nat
  BY <1>1, MempoolAssumption
<1>3. \A t \in Tx : TransactionAdded(t) \in Event
  BY DEF Event, TransactionAdded
<1>4. ch \in Seq(Event)
  BY <1>1, <1>3, IsASeq
<1>5. provider_subscribe(p) = [p EXCEPT !.connected = TRUE, !.capacity = cap, !.channel = ch]
  BY DEF provider_subscribe
<1> HIDE DEF cap, ch
<1> QED BY <1>2, <1>4, <1>5 DEF Providers

-----------------------------------------------------------------------------
(* THE TRANSACTION GRAPH AND THE BATCH GRAPH                                *)

(* TransactionGraph::insert puts a new transaction behind its parents.      *)
LEMMA GraphInsert ==
    ASSUME NEW g, GraphOK(g), NEW t \in Tx, t \notin Nodes(g), NEW parents, parents \subseteq Nodes(g)
    PROVE  LET i == insert_pending(g, t, parents)
               h == promote_pending(i, t)
           IN  /\ insert_pending_result(g, t, parents) = "Ok"
               /\ promote_pending_result(i, t) = "Ok"
               /\ GraphOK(h)
               /\ Nodes(h) = Nodes(g) \cup {t}
               /\ h.processed = g.processed
               /\ h.parents = [k \in Nodes(g) \cup {t} |-> IF k = t THEN parents ELSE g.parents[k]]
<1>1. PICK i : i = insert_pending(g, t, parents)
  OBVIOUS
<1>2. PICK h : h = promote_pending(i, t)
  OBVIOUS
<1>3. insert_pending_result(g, t, parents) = "Ok"
  BY DEF insert_pending_result, contains, Nodes
<1>4. WellFormed(g, Tx) /\ g.pending = {} /\ IsFiniteSet(Nodes(g))
  BY DEF GraphOK
<1>5. /\ WellFormed(i, Tx) /\ i.pending = {t} /\ i.vertices = g.vertices /\ i.processed = g.processed
      /\ i.parents = [k \in Nodes(g) \cup {t} |-> IF k = t THEN parents ELSE g.parents[k]]
  BY <1>1, <1>3, <1>4, InsertPendingOK
<1>6. /\ try_make_root_asserts(Promoted(i, t), {t})
      /\ WellFormed(h, Tx) /\ h.pending = {} /\ h.vertices = g.vertices \cup {t}
      /\ h.parents = i.parents /\ h.processed = g.processed
  BY <1>2, <1>5, PromotePendingOK
<1>7. promote_pending_result(i, t) = "Ok"
  BY <1>5, <1>6 DEF promote_pending_result
<1>8. Nodes(h) = Nodes(g) \cup {t}
  BY <1>4, <1>6 DEF Nodes
<1>9. IsFiniteSet(Nodes(h))
  BY <1>4, <1>8, FS_AddElement
<1> QED BY <1>1, <1>2, <1>3, <1>5, <1>6, <1>7, <1>8, <1>9 DEF GraphOK

(* Requeuing processed transactions takes no other with them if they hold   *)
(* their processed children.                                                *)
LEMMA GraphRequeue ==
    ASSUME NEW g, GraphOK(g), NEW C, C \subseteq g.processed,
           \A c \in g.processed : g.parents[c] \cap C # {} => c \in C
    PROVE  LET h == revert_subgraphs(g, C)
           IN  /\ revert_subgraphs_result(g, C) = "Ok"
               /\ GraphOK(h)
               /\ Nodes(h) = Nodes(g)
               /\ h.parents = g.parents
               /\ h.processed = g.processed \ C
<1>1. PICK h : h = revert_subgraphs(g, C)
  OBVIOUS
<1>2. WellFormed(g, Tx) /\ g.pending = {} /\ IsFiniteSet(Nodes(g))
  BY DEF GraphOK
<1>3. /\ try_make_root_asserts(Unprocessed(g, C), g.roots \cup C)
      /\ WellFormed(h, Tx) /\ h.parents = g.parents /\ h.pending = g.pending
      /\ h.vertices = g.vertices /\ h.processed = g.processed \ Reached(g, C, g.vertices)
  BY <1>1, <1>2, RevertSubgraphsOK
<1>4. g.processed \subseteq g.vertices /\ Nodes(g) = g.vertices /\ InOrder(g)
  BY <1>2 DEF WellFormed, GraphType, Nodes
<1>5. revert_subgraphs_result(g, C) = "Ok"
  BY <1>3, <1>4 DEF revert_subgraphs_result
<1> DEFINE T == C \cup (g.vertices \ g.processed)
<1>6. \A c \in g.vertices : g.parents[c] \cap T # {} => c \in T
  BY <1>4 DEF InOrder
<1>7. C \subseteq Reached(g, C, g.vertices) /\ Reached(g, C, g.vertices) \subseteq T
  <2>1. C \subseteq T /\ T \in SUBSET Nodes(g) /\ C \subseteq Nodes(g) /\ g.vertices \subseteq Nodes(g)
    BY <1>4
  <2> HIDE DEF T
  <2> QED BY <1>2, <1>6, <2>1, ReachedByParents
<1>8. h.processed = g.processed \ C
  BY <1>3, <1>7
<1> QED BY <1>1, <1>2, <1>3, <1>5, <1>8 DEF GraphOK, Nodes

(* The index and the batches say the same.                                  *)
LEMMA IndexFacts ==
    ASSUME NEW g, NEW bs, BatchesOK(bs, g), NEW B, B \subseteq bs.batches
    PROVE  /\ TxsOf(B) \subseteq g.processed
           /\ \A t \in g.processed : t \in TxsOf(B) <=> bs.transactions[t] \in B
           /\ \A b \in bs.batches : ToSet(b) # {} /\ (ToSet(b) \cap TxsOf(B) # {} <=> b \in B)
<1>1. /\ bs.transactions \in [g.processed -> bs.batches]
      /\ \A b \in bs.batches : ToSet(b) \subseteq g.processed
      /\ \A b \in bs.batches, t \in g.processed : t \in ToSet(b) <=> bs.transactions[t] = b
  BY DEF BatchesOK
<1>2. \A b \in bs.batches : ToSet(b) # {}
  <2> SUFFICES ASSUME NEW b \in bs.batches
               PROVE  ToSet(b) # {}
    OBVIOUS
  <2>1. b \in Seq(Tx) /\ b # <<>>
    BY DEF BatchesOK, WellFormed, GraphType, Nodes, Batch
  <2>2. Len(b) \in Nat \ {0} /\ DOMAIN b = 1 .. Len(b)
    BY <2>1, EmptySeq, LenProperties
  <2>3. 1 \in DOMAIN b
    BY <2>2
  <2> QED BY <2>3 DEF ToSet
<1>3. TxsOf(B) \subseteq g.processed
  BY <1>1 DEF TxsOf
<1>4. \A t \in g.processed : t \in TxsOf(B) <=> bs.transactions[t] \in B
  BY <1>1 DEF TxsOf
<1>5. \A b \in bs.batches : ToSet(b) \cap TxsOf(B) # {} <=> b \in B
  BY <1>1, <1>2, <1>4 DEF TxsOf
<1> QED BY <1>2, <1>3, <1>4, <1>5

(* The parents of a batched transaction are in the same batch or in a       *)
(* parent of it.                                                            *)
LEMMA EdgesAcross ==
    ASSUME NEW g, InOrder(g), NEW bs, BatchesOK(bs, g), NEW t \in g.processed, NEW p \in g.parents[t]
    PROVE  LET b == bs.transactions[t]
           IN  /\ b \in bs.batches /\ t \in ToSet(b)
               /\ p \in g.processed
               /\ bs.transactions[p] \in bs.batches
               /\ bs.transactions[p] = b \/ bs.transactions[p] \in bs.inner.parents[b]
<1> DEFINE b == bs.transactions[t]
<1>1. p \in g.processed
  BY DEF InOrder
<1>2. b \in bs.batches /\ bs.transactions[p] \in bs.batches
  BY <1>1 DEF BatchesOK
<1>3. t \in ToSet(b)
  BY <1>2 DEF BatchesOK
<1>4. bs.inner.parents[b] = {bs.transactions[q] : q \in UNION {g.parents[u] : u \in ToSet(b)}} \ {b}
  BY <1>2 DEF BatchesOK
<1>5. bs.transactions[p] = b \/ bs.transactions[p] \in bs.inner.parents[b]
  <2>1. p \in UNION {g.parents[u] : u \in ToSet(b)}
    BY <1>3
  <2> HIDE DEF b
  <2> QED BY <1>4, <2>1
<1> QED BY <1>1, <1>2, <1>3, <1>5

(* Batches do not notice what happens to unbatched transactions.            *)
LEMMA BatchesFrame ==
    ASSUME NEW g, NEW h, NEW bs, BatchesOK(bs, g), h.processed = g.processed,
           \A t \in g.processed : h.parents[t] = g.parents[t]
    PROVE  BatchesOK(bs, h)
<1>1. \A b \in bs.batches : {h.parents[t] : t \in ToSet(b)} = {g.parents[t] : t \in ToSet(b)}
  BY DEF BatchesOK
<1> QED BY <1>1 DEF BatchesOK

(* remove_batches takes whole subgraphs: the transactions of the removed    *)
(* batches hold their batched children, and the rest fits any graph in      *)
(* which just these are no longer processed.                                *)
LEMMA BatchesRemoved ==
    ASSUME NEW g, InOrder(g), NEW bs, BatchesOK(bs, g), NEW ids, ids \subseteq bs.batches
    PROVE  LET D == remove_batches_removed(bs, ids)
               r == remove_batches(bs, ids)
           IN  /\ remove_batches_expects(bs, ids)
               /\ ids \subseteq D /\ D \subseteq bs.batches
               /\ \A c \in g.processed : g.parents[c] \cap TxsOf(D) # {} => c \in TxsOf(D)
               /\ r.batches = bs.batches \ D
               /\ r.inner.pending = bs.inner.pending \ D
               /\ r.inner.processed = bs.inner.processed \ D
               /\ \A h : /\ h.processed = g.processed \ TxsOf(D)
                         /\ \A t \in h.processed : h.parents[t] = g.parents[t]
                         => BatchesOK(r, h)
<1>1. PICK D : D = remove_batches_removed(bs, ids)
  OBVIOUS
<1>2. PICK r : r = remove_batches(bs, ids)
  OBVIOUS
<1>3. /\ WellFormed(bs.inner, Batch) /\ Acyclic(bs.inner) /\ Nodes(bs.inner) = bs.batches
      /\ IsFiniteSet(bs.batches)
      /\ bs.transactions \in [g.processed -> bs.batches]
      /\ \A b \in bs.batches : ToSet(b) \subseteq g.processed
      /\ \A b \in bs.batches, t \in g.processed : t \in ToSet(b) <=> bs.transactions[t] = b
      /\ \A b \in bs.batches :
           bs.inner.parents[b] =
             {bs.transactions[p] : p \in UNION {g.parents[t] : t \in ToSet(b)}} \ {b}
  BY DEF BatchesOK
<1>4. purge_subgraphs_removed(bs.inner, ids) = D
  BY <1>1 DEF remove_batches_removed
<1>5. PICK in : in = purge_subgraphs(bs.inner, ids)
  OBVIOUS
<1>6. /\ WellFormed(in, Batch) /\ in.pending = bs.inner.pending \ D /\ in.vertices = bs.inner.vertices \ D
      /\ in.processed = bs.inner.processed \ D
      /\ in.parents = [k \in bs.batches \ D |-> bs.inner.parents[k]]
      /\ \A k \in bs.batches \ D : bs.inner.parents[k] \cap D = {}
  <2>1. ids \subseteq Nodes(bs.inner)
    BY <1>3
  <2>2. /\ WellFormed(in, Batch) /\ in.pending = bs.inner.pending \ D /\ in.vertices = bs.inner.vertices \ D
        /\ in.processed = bs.inner.processed \ D
        /\ in.parents = [k \in Nodes(bs.inner) \ D |-> bs.inner.parents[k]]
        /\ \A k \in Nodes(bs.inner) \ D : bs.inner.parents[k] \cap D = {}
    <3>1. PICK bi : bi = bs.inner
      OBVIOUS
    <3>2. WellFormed(bi, Batch) /\ in = purge_subgraphs(bi, ids) /\ D = purge_subgraphs_removed(bi, ids)
          /\ ids \subseteq Nodes(bi)
      BY <1>3, <1>4, <1>5, <2>1, <3>1
    <3>3. /\ WellFormed(in, Batch) /\ in.pending = bi.pending \ D /\ in.vertices = bi.vertices \ D
          /\ in.processed = bi.processed \ D
          /\ in.parents = [k \in Nodes(bi) \ D |-> bi.parents[k]]
          /\ \A k \in Nodes(bi) \ D : bi.parents[k] \cap D = {}
      BY <3>2, PurgeSubgraphsOK
    <3> QED BY <3>1, <3>3
  <2> QED BY <1>3, <2>2
<1>7. Nodes(in) = bs.batches \ D
  BY <1>3, <1>6 DEF Nodes
<1>8. ids \subseteq D /\ D \subseteq bs.batches
  BY <1>3, <1>4, ReachedFacts DEF WellFormed, purge_subgraphs_removed
<1>9. remove_batches_expects(bs, ids)
  BY <1>1, <1>3, <1>8 DEF remove_batches_expects, purge_subgraphs_result, contains, Nodes
<1>10. /\ r.inner = in /\ r.batches = bs.batches \ D
       /\ r.transactions = [t \in g.processed \ TxsOf(D) |-> bs.transactions[t]]
       /\ r = [inner |-> r.inner, transactions |-> r.transactions, batches |-> r.batches]
  BY <1>1, <1>2, <1>3, <1>5 DEF remove_batches, WithoutBatches
<1>11. /\ TxsOf(D) \subseteq g.processed
       /\ \A t \in g.processed : t \in TxsOf(D) <=> bs.transactions[t] \in D
       /\ \A b \in bs.batches : ToSet(b) # {} /\ (ToSet(b) \cap TxsOf(D) # {} <=> b \in D)
  BY <1>8, IndexFacts
<1>12. ASSUME NEW c \in g.processed, NEW p \in g.parents[c], p \in TxsOf(D)
       PROVE  c \in TxsOf(D)
  <2>1. /\ bs.transactions[c] \in bs.batches /\ p \in g.processed
        /\ bs.transactions[p] = bs.transactions[c] \/ bs.transactions[p] \in bs.inner.parents[bs.transactions[c]]
    BY EdgesAcross
  <2>2. bs.transactions[p] \in D
    BY <1>11, <1>12, <2>1
  <2>3. bs.transactions[c] \in D
    BY <1>6, <2>1, <2>2
  <2> QED BY <1>11, <2>3
<1>13. ASSUME NEW h, h.processed = g.processed \ TxsOf(D),
              \A t \in h.processed : h.parents[t] = g.parents[t]
       PROVE  BatchesOK(r, h)
  <2>1. Acyclic(in)
    BY <1>3, <1>6, <1>7, FewerEdges
  <2>2. IsFiniteSet(bs.batches \ D)
    BY <1>3, FS_Difference
  <2>3. r.transactions \in [h.processed -> bs.batches \ D]
    BY <1>3, <1>10, <1>11, <1>13
  <2>4. \A b \in bs.batches \ D : ToSet(b) \subseteq h.processed
    BY <1>3, <1>11, <1>13
  <2>5. \A b \in bs.batches \ D, t \in h.processed : t \in ToSet(b) <=> r.transactions[t] = b
    BY <1>3, <1>10, <1>13
  <2>6. ASSUME NEW b \in bs.batches \ D
        PROVE  in.parents[b] = {r.transactions[p] : p \in UNION {h.parents[t] : t \in ToSet(b)}} \ {b}
    <3>1. {h.parents[t] : t \in ToSet(b)} = {g.parents[t] : t \in ToSet(b)}
      BY <1>13, <2>4
    <3>2. \A p \in UNION {g.parents[t] : t \in ToSet(b)} : r.transactions[p] = bs.transactions[p]
      <4> SUFFICES ASSUME NEW t \in ToSet(b), NEW p \in g.parents[t]
                   PROVE  r.transactions[p] = bs.transactions[p]
        OBVIOUS
      <4>1. t \in g.processed /\ t \notin TxsOf(D)
        BY <1>13, <2>4
      <4>2. p \in g.processed
        BY <4>1 DEF InOrder
      <4>3. p \notin TxsOf(D)
        BY <1>12, <4>1
      <4> QED BY <1>10, <4>2, <4>3
    <3> DEFINE U == UNION {g.parents[t] : t \in ToSet(b)}
    <3>3. {r.transactions[p] : p \in U} = {bs.transactions[p] : p \in U}
      BY <3>2
    <3>4. in.parents[b] = bs.inner.parents[b]
      BY <1>6
    <3> QED BY <1>3, <3>1, <3>3, <3>4
  <2> QED BY <1>6, <1>7, <1>10, <2>1, <2>2, <2>3, <2>4, <2>5, <2>6 DEF BatchesOK
<1> QED BY <1>1, <1>2, <1>6, <1>8, <1>9, <1>10, <1>12, <1>13

(* Pruning the batches of a block and their transactions.                   *)
LEMMA BatchesPruned ==
    ASSUME NEW g, WellFormed(g, Tx), NEW bs, BatchesOK(bs, g), NEW B,
           prune_processed_result(bs.inner, B) = "Ok",
           NEW h, h.processed = g.processed \ TxsOf(B),
           \A t \in h.processed : h.parents[t] = g.parents[t] \ TxsOf(B)
    PROVE  LET r == WithoutBatches(bs, prune_processed(bs.inner, B), B)
           IN  /\ BatchesOK(r, h)
               /\ B \subseteq bs.batches
               /\ r.batches = bs.batches \ B
               /\ r.inner.pending = bs.inner.pending
               /\ r.inner.processed = bs.inner.processed \ B
<1>1. PICK in : in = prune_processed(bs.inner, B)
  OBVIOUS
<1>2. PICK r : r = WithoutBatches(bs, in, B)
  OBVIOUS
<1>3. /\ WellFormed(bs.inner, Batch) /\ Acyclic(bs.inner) /\ Nodes(bs.inner) = bs.batches
      /\ IsFiniteSet(bs.batches)
      /\ bs.transactions \in [g.processed -> bs.batches]
      /\ \A b \in bs.batches : ToSet(b) \subseteq g.processed
      /\ \A b \in bs.batches, t \in g.processed : t \in ToSet(b) <=> bs.transactions[t] = b
      /\ \A b \in bs.batches :
           bs.inner.parents[b] =
             {bs.transactions[p] : p \in UNION {g.parents[t] : t \in ToSet(b)}} \ {b}
  BY DEF BatchesOK
<1>4. /\ WellFormed(in, Batch) /\ B \subseteq bs.inner.processed
      /\ in.pending = bs.inner.pending /\ in.vertices = bs.inner.vertices \ B
      /\ in.processed = bs.inner.processed \ B
      /\ in.parents = [k \in bs.batches \ B |-> bs.inner.parents[k] \ B]
  <2>1. WellFormed(bs.inner, Batch) /\ Nodes(bs.inner) = bs.batches
    BY <1>3
  <2>2. /\ WellFormed(in, Batch) /\ B \subseteq bs.inner.processed
        /\ in.pending = bs.inner.pending /\ in.vertices = bs.inner.vertices \ B
        /\ in.processed = bs.inner.processed \ B
        /\ in.parents = [k \in Nodes(bs.inner) \ B |-> bs.inner.parents[k] \ B]
    <3>1. PICK bi : bi = bs.inner
      OBVIOUS
    <3>2. WellFormed(bi, Batch) /\ in = prune_processed(bi, B) /\ prune_processed_result(bi, B) = "Ok"
      BY <1>1, <2>1, <3>1
    <3>3. /\ WellFormed(in, Batch) /\ B \subseteq bi.processed
          /\ in.pending = bi.pending /\ in.vertices = bi.vertices \ B
          /\ in.processed = bi.processed \ B
          /\ in.parents = [k \in Nodes(bi) \ B |-> bi.parents[k] \ B]
      <4>1. ASSUME NEW x, WellFormed(x, Batch), prune_processed_result(x, B) = "Ok"
            PROVE  /\ WellFormed(prune_processed(x, B), Batch) /\ B \subseteq x.processed
                   /\ prune_processed(x, B).pending = x.pending
                   /\ prune_processed(x, B).vertices = x.vertices \ B
                   /\ prune_processed(x, B).processed = x.processed \ B
                   /\ prune_processed(x, B).parents = [k \in Nodes(x) \ B |-> x.parents[k] \ B]
        BY <4>1, PruneProcessedOK
      <4> QED BY <3>2, <4>1
    <3> QED BY <3>1, <3>3
  <2> QED BY <2>1, <2>2
<1>5. B \subseteq bs.batches /\ Nodes(in) = bs.batches \ B
  BY <1>3, <1>4 DEF WellFormed, GraphType, Nodes
<1>6. /\ r.inner = in /\ r.batches = bs.batches \ B
      /\ r.transactions = [t \in g.processed \ TxsOf(B) |-> bs.transactions[t]]
      /\ r = [inner |-> r.inner, transactions |-> r.transactions, batches |-> r.batches]
  BY <1>2, <1>3 DEF WithoutBatches
<1>7. /\ TxsOf(B) \subseteq g.processed
      /\ \A t \in g.processed : t \in TxsOf(B) <=> bs.transactions[t] \in B
      /\ \A b \in bs.batches : ToSet(b) # {} /\ (ToSet(b) \cap TxsOf(B) # {} <=> b \in B)
  BY <1>5, IndexFacts
<1>8. Acyclic(in)
  BY <1>3, <1>4, <1>5, FewerEdges
<1>9. IsFiniteSet(bs.batches \ B)
  BY <1>3, FS_Difference
<1>10. r.transactions \in [h.processed -> bs.batches \ B]
  BY <1>3, <1>6, <1>7
<1>11. \A b \in bs.batches \ B : ToSet(b) \subseteq h.processed
  BY <1>3, <1>7
<1>12. \A b \in bs.batches \ B, t \in h.processed : t \in ToSet(b) <=> r.transactions[t] = b
  BY <1>3, <1>6
<1>13. ASSUME NEW b \in bs.batches \ B
       PROVE  in.parents[b] = {r.transactions[p] : p \in UNION {h.parents[t] : t \in ToSet(b)}} \ {b}
  <2> DEFINE U == UNION {g.parents[t] : t \in ToSet(b)}
  <2>1. U \subseteq g.processed
    BY <1>11 DEF WellFormed, InOrder
  <2>2. UNION {h.parents[t] : t \in ToSet(b)} = U \ TxsOf(B)
    BY <1>11
  <2> HIDE DEF U
  <2>3. {r.transactions[p] : p \in U \ TxsOf(B)} = {bs.transactions[p] : p \in U} \ B
    <3>1. \A p \in U \ TxsOf(B) : r.transactions[p] = bs.transactions[p] /\ bs.transactions[p] \notin B
      BY <1>6, <1>7, <2>1
    <3>2. \A p \in U : p \in TxsOf(B) => bs.transactions[p] \in B
      BY <1>7, <2>1
    <3> QED BY <3>1, <3>2
  <2>4. in.parents[b] = ({bs.transactions[p] : p \in U} \ {b}) \ B
    BY <1>3, <1>4 DEF U
  <2> QED BY <2>2, <2>3, <2>4
<1>14. BatchesOK(r, h)
  BY <1>4, <1>5, <1>6, <1>8, <1>9, <1>10, <1>11, <1>12, <1>13 DEF BatchesOK
<1> QED BY <1>1, <1>2, <1>4, <1>5, <1>6, <1>14

(* What the block in progress consists of can be pruned from both graphs.   *)
LEMMA BlockPrunable ==
    ASSUME NEW g, WellFormed(g, Tx), NEW bs, BatchesOK(bs, g), NEW B, B = bs.inner.processed
    PROVE  /\ B \subseteq bs.batches
           /\ TxsOf(B) \subseteq g.processed
           /\ prune_processed_result(bs.inner, B) = "Ok"
           /\ prune_processed_result(g, TxsOf(B)) = "Ok"
<1>1. WellFormed(bs.inner, Batch) /\ Nodes(bs.inner) = bs.batches
  BY DEF BatchesOK
<1>2. B \subseteq bs.inner.vertices /\ B \subseteq bs.batches /\ InOrder(bs.inner)
  BY <1>1 DEF WellFormed, GraphType, Nodes
<1>3. \A b \in B : ParentsOf(bs.inner, b) \subseteq B
  BY <1>1, <1>2, EdgeLookups DEF WellFormed, InOrder
<1>4. prune_processed_result(bs.inner, B) = "Ok"
  BY <1>2, <1>3 DEF prune_processed_result, contains
<1>5. TxsOf(B) \subseteq g.processed /\ \A t \in g.processed : t \in TxsOf(B) <=> bs.transactions[t] \in B
  BY <1>2, IndexFacts
<1>6. g.processed \subseteq g.vertices /\ InOrder(g)
  BY DEF WellFormed, GraphType
<1>7. ASSUME NEW t \in TxsOf(B), NEW p \in g.parents[t]
      PROVE  p \in TxsOf(B)
  <2>1. t \in g.processed
    BY <1>5
  <2>2. /\ p \in g.processed
        /\ bs.transactions[p] = bs.transactions[t] \/ bs.transactions[p] \in bs.inner.parents[bs.transactions[t]]
    BY <1>6, <2>1, EdgesAcross
  <2>3. bs.transactions[t] \in B
    BY <1>5, <2>1
  <2>4. bs.transactions[p] \in B
    BY <1>2, <2>2, <2>3 DEF InOrder
  <2> QED BY <1>5, <2>2, <2>4
<1>8. \A t \in TxsOf(B) : ParentsOf(g, t) \subseteq TxsOf(B)
  BY <1>5, <1>6, <1>7, EdgeLookups DEF WellFormed, Nodes
<1>9. prune_processed_result(g, TxsOf(B)) = "Ok"
  BY <1>5, <1>6, <1>8 DEF prune_processed_result, contains
<1> QED BY <1>2, <1>4, <1>5, <1>9

(* What a pick has taken so far.                                            *)
Picked(g, k) ==
    /\ WellFormed(k.g, Tx) /\ k.g.pending = {}
    /\ k.g.vertices = g.vertices /\ k.g.parents = g.parents
    /\ k.batch \in Seq(Tx)
    /\ k.g.processed = g.processed \cup ToSet(k.batch)
    /\ ToSet(k.batch) \cap g.processed = {}
    /\ k.parents = UNION {g.parents[t] : t \in ToSet(k.batch)}

(* The first of a set of transactions is one of them.                       *)
LEMMA FirstIsOne ==
    ASSUME NEW S, S \subseteq Tx, S # {}
    PROVE  First(S) \in S
<1>1. S \subseteq Nat
  BY TxFacts
<1>2. \E x \in S : \A y \in S : x <= y
  BY <1>1, LeastNatural
<1> QED BY <1>2 DEF First

(* A step of the pick processes a root that was not processed.              *)
LEMMA PickStepOK ==
    ASSUME NEW g, NEW k, Picked(g, k)
    PROVE  Picked(g, PickStep(k))
<1> DEFINE root == First(k.g.roots)
<1>1. CASE k.g.roots = {} \/ ~Within(k.left, root)
  BY <1>1 DEF PickStep
<1>2. CASE k.g.roots # {} /\ Within(k.left, root)
  <2>1. PICK n : n = PickStep(k)
    OBVIOUS
  <2>2. PICK G : G = k.g
    OBVIOUS
  <2>3. PICK t : t = root
    OBVIOUS
  <2>4. /\ n.g = process_root(G, t) /\ n.batch = Append(k.batch, t)
        /\ n.parents = k.parents \cup G.parents[t]
    BY <1>2, <2>1, <2>2, <2>3 DEF PickStep
  <2>5. /\ WellFormed(G, Tx) /\ G.pending = {} /\ G.vertices = g.vertices /\ G.parents = g.parents
        /\ k.batch \in Seq(Tx) /\ G.processed = g.processed \cup ToSet(k.batch)
        /\ ToSet(k.batch) \cap g.processed = {}
        /\ k.parents = UNION {g.parents[u] : u \in ToSet(k.batch)}
    BY <2>2 DEF Picked
  <2>6. G.roots \subseteq Tx /\ G.roots \cap G.processed = {}
    BY <2>5 DEF WellFormed, GraphType, RootsOf
  <2>7. t \in G.roots
    BY <1>2, <2>2, <2>3, <2>6, FirstIsOne
  <2>8. /\ WellFormed(n.g, Tx) /\ n.g.pending = {} /\ n.g.vertices = g.vertices
        /\ n.g.parents = g.parents /\ n.g.processed = G.processed \cup {t}
    BY <2>4, <2>5, <2>7, ProcessRootOK
  <2>9. n.batch \in Seq(Tx) /\ ToSet(n.batch) = ToSet(k.batch) \cup {t}
    BY <2>4, <2>5, <2>6, <2>7, AppendElements
  <2>10. t \notin g.processed
    BY <2>5, <2>6, <2>7
  <2>11. n.parents = UNION {g.parents[u] : u \in ToSet(n.batch)}
    BY <2>4, <2>5, <2>9
  <2> QED BY <2>1, <2>5, <2>8, <2>9, <2>10, <2>11 DEF Picked
<1> QED BY <1>1, <1>2

(* transactions_select_batch takes unbatched transactions whose parents are *)
(* batched or in the same batch.                                            *)
LEMMA SelectOK ==
    ASSUME NEW g, GraphOK(g)
    PROVE  Picked(g, transactions_select_batch(g))
<1> DEFINE N == batch_budget.transactions
<1>0. N \in Nat
  BY BudgetFacts
<1>1. PICK k : /\ k = [n \in 0 .. N |-> IF n = 0 THEN PickNone(g) ELSE PickStep(k[n - 1])]
               /\ transactions_select_batch(g) = k[N]
  BY PickRuns
<1> HIDE DEF N
<1>2. Picked(g, PickNone(g))
  <2>1. PickNone(g).g = g /\ PickNone(g).batch = <<>> /\ PickNone(g).parents = {}
    BY DEF PickNone
  <2>2. <<>> \in Seq(Tx) /\ ToSet(<<>>) = {}
    BY EmptySeq DEF ToSet
  <2> QED BY <2>1, <2>2 DEF Picked, GraphOK
<1>3. Picked(g, k[N])
  <2> SUFFICES ASSUME ~Picked(g, k[N])
               PROVE  FALSE
    OBVIOUS
  <2> DEFINE Bad == {n \in 0 .. N : ~Picked(g, k[n])}
  <2>1. N \in Bad /\ Bad \subseteq Nat
    BY <1>0
  <2>2. PICK n \in Bad : \A y \in Bad : n <= y
    <3> HIDE DEF Bad
    <3> QED BY <2>1, LeastNatural
  <2>3. n # 0
    <3>1. k[0] = PickNone(g)
      BY <1>0, <1>1
    <3> QED BY <1>2, <2>2, <3>1
  <2>4. n - 1 \in 0 .. N /\ ~(n <= n - 1)
    BY <1>0, <2>2, <2>3
  <2>5. Picked(g, k[n - 1])
    BY <2>2, <2>4
  <2>6. k[n] = PickStep(k[n - 1])
    BY <1>1, <2>2, <2>3
  <2> QED BY <2>2, <2>5, <2>6, PickStepOK
<1> QED BY <1>1, <1>3

(* BatchGraph::insert takes such a batch: it is new, its transactions are   *)
(* in no other one, and its parents are known.                              *)
LEMMA BatchInserted ==
    ASSUME NEW g, NEW bs, BatchesOK(bs, g), NEW h, InOrder(h), h.parents = g.parents,
           NEW b \in Batch, h.processed = g.processed \cup ToSet(b), ToSet(b) \cap g.processed = {},
           InOrder(g)
    PROVE  LET P == UNION {g.parents[t] : t \in ToSet(b)}
               r == batches_insert(bs, b, P)
           IN  /\ batches_insert_expects(bs, b, P)
               /\ BatchesOK(r, h)
               /\ b \notin bs.batches
               /\ r.batches = bs.batches \cup {b}
               /\ r.inner.pending = bs.inner.pending \cup {b}
               /\ r.inner.processed = bs.inner.processed
<1> DEFINE P == UNION {g.parents[t] : t \in ToSet(b)}
<1> DEFINE outside == P \ ToSet(b)
<1> DEFINE parents == {bs.transactions[t] : t \in outside}
<1>1. PICK in : in = insert_pending(bs.inner, b, parents)
  OBVIOUS
<1>2. PICK r : r = batches_insert(bs, b, P)
  OBVIOUS
<1>3. /\ WellFormed(bs.inner, Batch) /\ Acyclic(bs.inner) /\ Nodes(bs.inner) = bs.batches
      /\ IsFiniteSet(bs.batches)
      /\ bs.transactions \in [g.processed -> bs.batches]
      /\ \A c \in bs.batches : ToSet(c) \subseteq g.processed
      /\ \A c \in bs.batches, t \in g.processed : t \in ToSet(c) <=> bs.transactions[t] = c
      /\ \A c \in bs.batches :
           bs.inner.parents[c] =
             {bs.transactions[p] : p \in UNION {g.parents[t] : t \in ToSet(c)}} \ {c}
  BY DEF BatchesOK
<1>4. ToSet(b) # {}
  <2>1. b \in Seq(Tx) /\ b # <<>>
    BY DEF Batch
  <2>2. Len(b) \in Nat \ {0} /\ DOMAIN b = 1 .. Len(b)
    BY <2>1, EmptySeq, LenProperties
  <2>3. 1 \in DOMAIN b
    BY <2>2
  <2> QED BY <2>3 DEF ToSet
<1>5. b \notin bs.batches
  BY <1>3, <1>4
<1>6. P \subseteq h.processed /\ outside \subseteq g.processed
  BY DEF InOrder
<1>7. parents \subseteq bs.batches
  BY <1>3, <1>6
<1>8. insert_pending_result(bs.inner, b, parents) = "Ok"
  <2> HIDE DEF parents
  <2> QED BY <1>3, <1>5, <1>7 DEF insert_pending_result, contains, Nodes
<1>9. batches_insert_expects(bs, b, P)
  BY <1>3, <1>6, <1>8 DEF batches_insert_expects
<1> HIDE DEF parents
<1>10. /\ WellFormed(in, Batch)
       /\ in.pending = bs.inner.pending \cup {b} /\ in.vertices = bs.inner.vertices
       /\ in.processed = bs.inner.processed
       /\ in.parents = [k \in bs.batches \cup {b} |-> IF k = b THEN parents ELSE bs.inner.parents[k]]
  <2>1. PICK bi : bi = bs.inner
    OBVIOUS
  <2>2. WellFormed(bi, Batch) /\ in = insert_pending(bi, b, parents)
        /\ insert_pending_result(bi, b, parents) = "Ok" /\ Nodes(bi) = bs.batches
    BY <1>1, <1>3, <1>8, <2>1
  <2>3. /\ WellFormed(in, Batch)
        /\ in.pending = bi.pending \cup {b} /\ in.vertices = bi.vertices
        /\ in.processed = bi.processed
        /\ in.parents = [k \in Nodes(bi) \cup {b} |-> IF k = b THEN parents ELSE bi.parents[k]]
    BY <2>2, InsertPendingOK
  <2> QED BY <2>1, <2>2, <2>3
<1>11. Nodes(in) = bs.batches \cup {b}
  BY <1>3, <1>10 DEF Nodes
<1>12. Acyclic(in)
  <2>1. \A k \in bs.batches : bs.inner.parents[k] \subseteq bs.batches
    BY <1>3 DEF WellFormed, GraphType
  <2>2. PICK bi : bi = bs.inner
    OBVIOUS
  <2>3. /\ Acyclic(bi) /\ b \notin Nodes(bi) /\ parents \subseteq Nodes(bi) /\ Nodes(in) = Nodes(bi) \cup {b}
        /\ \A k \in Nodes(bi) : bi.parents[k] \subseteq Nodes(bi)
    BY <1>3, <1>5, <1>7, <1>11, <2>1, <2>2
  <2>4. in.parents = [k \in Nodes(bi) \cup {b} |-> IF k = b THEN parents ELSE bi.parents[k]]
    BY <1>3, <1>10, <2>2
  <2> QED BY <2>3, <2>4, NewNode
<1>13. /\ r.inner = in /\ r.batches = bs.batches \cup {b}
       /\ r.transactions = [t \in h.processed |-> IF t \in ToSet(b) THEN b ELSE bs.transactions[t]]
       /\ r = [inner |-> r.inner, transactions |-> r.transactions, batches |-> r.batches]
  BY <1>1, <1>2, <1>3 DEF batches_insert, parents
<1> HIDE DEF P, outside
<1>14. IsFiniteSet(bs.batches \cup {b})
  BY <1>3, FS_AddElement
<1>15. r.transactions \in [h.processed -> bs.batches \cup {b}]
  BY <1>3, <1>13
<1>16. \A c \in bs.batches \cup {b} : ToSet(c) \subseteq h.processed
  BY <1>3
<1>17. \A c \in bs.batches \cup {b}, t \in h.processed : t \in ToSet(c) <=> r.transactions[t] = c
  BY <1>3, <1>5, <1>13
<1>18. ASSUME NEW c \in bs.batches
       PROVE  in.parents[c] = {r.transactions[p] : p \in UNION {h.parents[t] : t \in ToSet(c)}} \ {c}
  <2> DEFINE U == UNION {g.parents[t] : t \in ToSet(c)}
  <2>1. U \subseteq g.processed
    BY <1>3 DEF InOrder
  <2>2. \A p \in U : r.transactions[p] = bs.transactions[p]
    BY <1>13, <2>1
  <2>3. in.parents[c] = {bs.transactions[p] : p \in U} \ {c}
    BY <1>3, <1>5, <1>10
  <2> HIDE DEF U
  <2>4. in.parents[c] = {r.transactions[p] : p \in U} \ {c}
    BY <2>2, <2>3
  <2> QED BY <2>4 DEF U
<1>19. in.parents[b] = {r.transactions[p] : p \in UNION {h.parents[t] : t \in ToSet(b)}} \ {b}
  <2>1. \A p \in P : IF p \in ToSet(b) THEN r.transactions[p] = b
                     ELSE r.transactions[p] = bs.transactions[p] /\ bs.transactions[p] # b /\ p \in outside
    BY <1>3, <1>5, <1>6, <1>13 DEF outside
  <2>2. outside \subseteq P /\ outside \cap ToSet(b) = {}
    BY DEF outside
  <2>3. {r.transactions[p] : p \in P} \ {b} = parents
    BY <2>1, <2>2 DEF parents
  <2> QED BY <1>10, <2>3 DEF P
<1>20. BatchesOK(r, h)
  BY <1>10, <1>11, <1>12, <1>13, <1>14, <1>15, <1>16, <1>17, <1>18, <1>19 DEF BatchesOK
<1> QED BY <1>2, <1>5, <1>9, <1>10, <1>13, <1>20 DEF P

-----------------------------------------------------------------------------
(* SELECTING A BLOCK                                                        *)

RootStep(g, S) == process_root(g, CHOOSE r \in S : r \in g.roots)

(* ProcessRoots is a run of RootStep.                                       *)
LEMMA RootRuns ==
    ASSUME NEW graph, NEW S, IsFiniteSet(S)
    PROVE  \E k : /\ k = [n \in 0 .. Cardinality(S) |-> IF n = 0 THEN graph ELSE RootStep(k[n - 1], S)]
                 /\ ProcessRoots(graph, S) = k[Cardinality(S)]
<1> DEFINE N == Cardinality(S)
<1> DEFINE Runs(k, M) == k = [n \in 0 .. M |-> IF n = 0 THEN graph ELSE RootStep(k[n - 1], S)]
<1> DEFINE Defined(M) == \E k : Runs(k, M)
<1> DEFINE Bad == {M \in 0 .. N : ~Defined(M)}
<1>0. N \in Nat
  BY FS_CardinalityType
<1>1. Defined(N)
  <2> SUFFICES ASSUME ~Defined(N)
               PROVE  FALSE
    OBVIOUS
  <2> HIDE DEF Defined
  <2>0. N \in Bad /\ Bad \subseteq Nat
    BY <1>0
  <2>1. PICK M \in Bad : \A y \in Bad : M <= y
    BY <2>0, LeastNatural
  <2>2. M # 0
    <3>1. Runs([n \in 0 .. 0 |-> graph], 0)
      OBVIOUS
    <3> HIDE DEF Runs
    <3> QED BY <2>1, <3>1 DEF Defined
  <2>3. Defined(M - 1)
    <3>1. M - 1 \in 0 .. N /\ ~(M <= M - 1)
      BY <1>0, <2>1, <2>2
    <3> QED BY <2>1, <3>1
  <2>4. PICK k : Runs(k, M - 1)
    BY <2>3 DEF Defined
  <2> DEFINE g == [n \in 0 .. M |-> IF n = M THEN RootStep(k[M - 1], S) ELSE k[n]]
  <2>5. M \in Nat /\ M - 1 \in 0 .. M - 1 /\ \A n \in 0 .. M : n # M => n \in 0 .. M - 1
    BY <1>0, <2>1, <2>2
  <2>7. Runs(g, M)
    <3> SUFFICES ASSUME NEW n \in 0 .. M
                 PROVE  g[n] = IF n = 0 THEN graph ELSE RootStep(g[n - 1], S)
      OBVIOUS
    <3>1. CASE n = M
      <4>1. g[M - 1] = k[M - 1] /\ g[M] = RootStep(k[M - 1], S)
        BY <2>5
      <4> HIDE DEF g
      <4> QED BY <2>2, <2>5, <3>1, <4>1
    <3>2. CASE n # M
      <4>1. n \in 0 .. M - 1 /\ g[n] = k[n]
        BY <2>5, <3>2
      <4>2. k[n] = IF n = 0 THEN graph ELSE RootStep(k[n - 1], S)
        BY <2>4, <4>1
      <4>3. n # 0 => g[n - 1] = k[n - 1]
        BY <2>5, <3>2
      <4> HIDE DEF g
      <4> QED BY <4>1, <4>2, <4>3
    <3> QED BY <3>1, <3>2
  <2> HIDE DEF g
  <2>8. Defined(M)
    <3> HIDE DEF Runs
    <3> QED BY <2>7 DEF Defined
  <2> QED BY <2>1, <2>8
<1>2. ProcessRoots(graph, S) = (CHOOSE k : Runs(k, N))[N]
  BY Zenon DEF ProcessRoots, RootStep
<1>3. Runs(CHOOSE k : Runs(k, N), N)
  <2> HIDE DEF Runs
  <2> QED BY <1>1
<1> QED BY <1>2, <1>3

(* Batches with their unselected parents can be processed one by one: as    *)
(* there is no cycle, one of those that are left is always a root.          *)
LEMMA ProcessRootsOK ==
    ASSUME NEW K, NEW g, WellFormed(g, K), Acyclic(g), NEW S, IsFiniteSet(S),
           S \subseteq g.vertices \ g.processed,
           \A b \in S : g.parents[b] \ g.processed \subseteq S
    PROVE  LET h == ProcessRoots(g, S)
           IN  /\ WellFormed(h, K)
               /\ h.pending = g.pending /\ h.vertices = g.vertices /\ h.parents = g.parents
               /\ h.processed = g.processed \cup S
<1> DEFINE N == Cardinality(S)
<1>0. N \in Nat
  BY FS_CardinalityType
<1>1. PICK k : /\ k = [n \in 0 .. N |-> IF n = 0 THEN g ELSE RootStep(k[n - 1], S)]
               /\ ProcessRoots(g, S) = k[N]
  BY RootRuns
<1> DEFINE Good(n) == /\ WellFormed(k[n], K)
                      /\ k[n].pending = g.pending /\ k[n].vertices = g.vertices /\ k[n].parents = g.parents
                      /\ \E P \in SUBSET S : /\ k[n].processed = g.processed \cup P
                                              /\ Cardinality(P) = n
<1>2. Good(N)
  <2> SUFFICES ASSUME ~Good(N)
               PROVE  FALSE
    OBVIOUS
  <2> DEFINE Bad == {n \in 0 .. N : ~Good(n)}
  <2> HIDE DEF N, Good
  <2>1. N \in Bad /\ Bad \subseteq Nat
    BY <1>0
  <2>2. PICK n \in Bad : \A y \in Bad : n <= y
    <3> HIDE DEF Bad
    <3> QED BY <2>1, LeastNatural
  <2>3. n # 0
    <3>1. k[0] = g
      BY <1>0, <1>1
    <3>2. {} \in SUBSET S /\ Cardinality({}) = 0 /\ g.processed = g.processed \cup {}
      BY FS_EmptySet
    <3> QED BY <2>2, <3>1, <3>2 DEF Good
  <2>4. n \in Nat /\ n - 1 \in 0 .. N /\ ~(n <= n - 1) /\ n - 1 < N /\ (n - 1) + 1 = n
    BY <1>0, <2>2, <2>3
  <2>5. Good(n - 1)
    BY <2>2, <2>4
  <2>6. PICK G : G = k[n - 1]
    OBVIOUS
  <2>7. k[n] = RootStep(G, S)
    BY <1>1, <2>2, <2>3, <2>6
  <2>8. /\ WellFormed(G, K) /\ G.pending = g.pending /\ G.vertices = g.vertices /\ G.parents = g.parents
    BY <2>5, <2>6 DEF Good
  <2>9. PICK P \in SUBSET S : G.processed = g.processed \cup P /\ Cardinality(P) = n - 1
    BY <2>5, <2>6 DEF Good
  <2>10. IsFiniteSet(P) /\ P # S
    BY <2>4, <2>9, FS_Subset DEF N
  <2>11. PICK b \in S \ P : g.parents[b] \cap (S \ P) = {}
    <3>1. S \ P \in SUBSET Nodes(g) /\ S \ P # {}
      BY <2>10 DEF Nodes
    <3> QED BY <3>1 DEF Acyclic
  <2>12. b \in G.roots
    <3>1. b \in G.vertices \ G.processed
      BY <2>8, <2>9
    <3>2. G.parents[b] \subseteq G.processed
      BY <2>8, <2>9, <2>11
    <3> QED BY <2>8, <3>1, <3>2 DEF WellFormed, RootsOf
  <2>13. PICK r : r = CHOOSE x \in S : x \in G.roots
    OBVIOUS
  <2>14. r \in S /\ r \in G.roots
    BY <2>11, <2>12, <2>13
  <2>15. r \notin P
    BY <2>8, <2>9, <2>14 DEF WellFormed, RootsOf
  <2>16. PICK H : H = process_root(G, r)
    OBVIOUS
  <2>17. /\ WellFormed(H, K) /\ H.pending = G.pending /\ H.vertices = G.vertices
         /\ H.parents = G.parents /\ H.processed = G.processed \cup {r}
    BY <2>8, <2>14, <2>16, ProcessRootOK
  <2>18. k[n] = H
    BY <2>7, <2>13, <2>16 DEF RootStep
  <2>19. P \cup {r} \in SUBSET S /\ Cardinality(P \cup {r}) = n
    BY <2>4, <2>9, <2>10, <2>14, <2>15, FS_AddElement
  <2>20. H.processed = g.processed \cup (P \cup {r})
    BY <2>9, <2>17
  <2>21. Good(n)
    BY <2>8, <2>17, <2>18, <2>19, <2>20 DEF Good
  <2> QED BY <2>2, <2>21
<1>3. PICK P \in SUBSET S : k[N].processed = g.processed \cup P /\ Cardinality(P) = N
  BY <1>2
<1>4. P = S
  BY <1>3, FS_Subset
<1> QED BY <1>1, <1>2, <1>3, <1>4

(* A batch graph in which only the inner graph's bookkeeping changes.       *)
LEMMA InnerFrame ==
    ASSUME NEW g, NEW bs, BatchesOK(bs, g), NEW in, WellFormed(in, Batch),
           Nodes(in) = Nodes(bs.inner), in.parents = bs.inner.parents
    PROVE  /\ BatchesOK([bs EXCEPT !.inner = in], g)
           /\ [bs EXCEPT !.inner = in].inner = in
           /\ [bs EXCEPT !.inner = in].batches = bs.batches
<1>1. PICK r : r = [bs EXCEPT !.inner = in]
  OBVIOUS
<1>2. bs = [inner |-> bs.inner, transactions |-> bs.transactions, batches |-> bs.batches]
  BY DEF BatchesOK
<1>3. /\ r.inner = in /\ r.transactions = bs.transactions /\ r.batches = bs.batches
      /\ r = [inner |-> r.inner, transactions |-> r.transactions, batches |-> r.batches]
  BY <1>1, <1>2
<1>4. Acyclic(in)
  BY FewerEdges DEF BatchesOK
<1>5. BatchesOK(r, g)
  BY <1>3, <1>4 DEF BatchesOK
<1> QED BY <1>1, <1>3, <1>5

-----------------------------------------------------------------------------
(* THE STATES OF AN ACCOUNT                                                 *)

(* The parts of a chain, with its positions.                                *)
Positions(acc, a, blocks, g) ==
    LET N == Len(acc.states)
        tx(i) == acc.states[i].tx
    IN  /\ N \in Nat /\ acc.committed \in Nat /\ acc.committed <= N
        /\ acc.states \in Seq([state : Nat, tx : Tx])
        /\ \A i \in 1 .. N : tx(i) \in Tx /\ acc.states[i].state = final_state(tx(i)) /\ account_id(tx(i)) = a
        /\ \A i \in 1 .. acc.committed : tx(i) \in UNION ToSet(blocks)
        /\ \A u \in UNION ToSet(blocks) : account_id(u) = a => \E i \in 1 .. acc.committed : tx(i) = u
        /\ \A i \in acc.committed + 1 .. N : tx(i) \in Nodes(g)
        /\ \A u \in Nodes(g) : account_id(u) = a => \E i \in acc.committed + 1 .. N : tx(i) = u
        /\ \A i, j \in 1 .. N : tx(i) = tx(j) => i = j

(* A chain has these parts.                                                 *)
LEMMA ChainFacts ==
    ASSUME NEW acc \in Accounts, NEW a, NEW blocks, NEW g, ChainOK(acc, a, blocks, g)
    PROVE  Positions(acc, a, blocks, g)
<1> DEFINE N == Len(acc.states)
<1> DEFINE mine(T) == {t \in T : account_id(t) = a}
<1> DEFINE tx(i) == acc.states[i].tx
<1>1. N \in Nat /\ acc.committed \in Nat /\ acc.states \in Seq([state : Nat, tx : Tx])
      /\ \A i \in 1 .. N : acc.states[i] \in [state : Nat, tx : Tx]
  BY LenProperties, ElementOfSeq DEF Accounts
<1>2. /\ acc.committed <= N
      /\ {tx(i) : i \in 1 .. acc.committed} = mine(UNION ToSet(blocks))
      /\ {tx(i) : i \in acc.committed + 1 .. N} = mine(Nodes(g))
      /\ \A i \in 1 .. N : acc.states[i].state = final_state(tx(i))
      /\ \A i, j \in 1 .. N : i < j => tx(i) # tx(j)
  BY DEF ChainOK
<1> HIDE DEF N
<1>3. \A i \in 1 .. N : i \in 1 .. acc.committed \/ i \in acc.committed + 1 .. N
  BY <1>1, <1>2
<1>4. \A i \in 1 .. acc.committed : tx(i) \in mine(UNION ToSet(blocks))
  BY <1>2
<1>5. \A i \in acc.committed + 1 .. N : tx(i) \in mine(Nodes(g))
  BY <1>2
<1>6. \A i \in 1 .. N : account_id(tx(i)) = a
  BY <1>3, <1>4, <1>5
<1>7. \A t \in mine(UNION ToSet(blocks)) : \E i \in 1 .. acc.committed : tx(i) = t
  BY <1>2
<1>8. \A t \in mine(Nodes(g)) : \E i \in acc.committed + 1 .. N : tx(i) = t
  BY <1>2
<1>9. \A i, j \in 1 .. N : tx(i) = tx(j) => i = j
  <2> SUFFICES ASSUME NEW i \in 1 .. N, NEW j \in 1 .. N, tx(i) = tx(j), i # j
               PROVE  FALSE
    OBVIOUS
  <2>1. i < j \/ j < i
    BY <1>1
  <2> QED BY <1>2, <2>1
<1> QED BY <1>1, <1>2, <1>4, <1>5, <1>6, <1>7, <1>8, <1>9 DEF N, Positions

(* The steps of a chain.                                                    *)
LEMMA ChainSteps ==
    ASSUME NEW acc \in Accounts, NEW a, NEW blocks, NEW g, ChainOK(acc, a, blocks, g)
    PROVE  LET N == Len(acc.states)
               tx(i) == acc.states[i].tx
           IN  /\ \A i \in 2 .. N : initial_state(tx(i)) = final_state(tx(i - 1))
               /\ \A i, j \in 1 .. N : i < j => final_state(tx(i)) <= initial_state(tx(j))
               /\ \A i \in acc.committed + 1 .. N - 1 : tx(i) \in g.parents[tx(i + 1)]
               /\ \A i, j \in 1 .. acc.committed, p, q \in DOMAIN blocks :
                    i < j /\ tx(i) \in blocks[p] /\ tx(j) \in blocks[q] => p <= q
BY DEF ChainOK

(* A new transaction that starts where the chain ends becomes its end.      *)
LEMMA ChainInsert ==
    ASSUME NEW acc \in Accounts, NEW a, NEW blocks, NEW g, ChainOK(acc, a, blocks, g),
           NEW t \in Tx, account_id(t) = a, t \notin Nodes(g), t \notin UNION ToSet(blocks),
           acc.states # <<>> => initial_state(t) = acc.states[Len(acc.states)].state,
           NEW h, Nodes(h) = Nodes(g) \cup {t}, \A k \in Nodes(g) : h.parents[k] = g.parents[k],
           account_parent(acc) \subseteq h.parents[t]
    PROVE  LET new == account_insert(acc, final_state(t), t)
           IN  new \in Accounts /\ ChainOK(new, a, blocks, h)
<1> DEFINE N == Len(acc.states)
<1> DEFINE tx(i) == acc.states[i].tx
<1>1. /\ N \in Nat /\ acc.committed \in Nat /\ acc.committed <= N
      /\ acc.states \in Seq([state : Nat, tx : Tx])
      /\ \A i \in 1 .. N : tx(i) \in Tx /\ acc.states[i].state = final_state(tx(i)) /\ account_id(tx(i)) = a
      /\ \A i \in 1 .. acc.committed : tx(i) \in UNION ToSet(blocks)
      /\ \A u \in UNION ToSet(blocks) : account_id(u) = a => \E i \in 1 .. acc.committed : tx(i) = u
      /\ \A i \in acc.committed + 1 .. N : tx(i) \in Nodes(g)
      /\ \A u \in Nodes(g) : account_id(u) = a => \E i \in acc.committed + 1 .. N : tx(i) = u
      /\ \A i, j \in 1 .. N : tx(i) = tx(j) => i = j
  <2>1. Positions(acc, a, blocks, g)
    BY ChainFacts
  <2> QED BY <2>1 DEF Positions
<1>2. /\ \A i \in 2 .. N : initial_state(tx(i)) = final_state(tx(i - 1))
      /\ \A i, j \in 1 .. N : i < j => final_state(tx(i)) <= initial_state(tx(j))
      /\ \A i \in acc.committed + 1 .. N - 1 : tx(i) \in g.parents[tx(i + 1)]
      /\ \A i, j \in 1 .. acc.committed, p, q \in DOMAIN blocks :
           i < j /\ tx(i) \in blocks[p] /\ tx(j) \in blocks[q] => p <= q
  BY ChainSteps
<1>3. PICK new : new = account_insert(acc, final_state(t), t)
  OBVIOUS
<1>4. PICK e : e = [state |-> final_state(t), tx |-> t]
  OBVIOUS
<1>5. e \in [state : Nat, tx : Tx] /\ e.tx = t /\ e.state = final_state(t)
  BY <1>4, TxFacts
<1>6. /\ new = [states |-> Append(acc.states, e), committed |-> acc.committed]
      /\ new.states = Append(acc.states, e) /\ new.committed = acc.committed
  BY <1>3, <1>4 DEF account_insert, Accounts
<1> DEFINE ntx(i) == new.states[i].tx
<1>7. /\ new.states \in Seq([state : Nat, tx : Tx]) /\ Len(new.states) = N + 1
      /\ new.states[N + 1] = e /\ \A i \in 1 .. N : new.states[i] = acc.states[i]
  BY <1>1, <1>5, <1>6, AppendProperties
<1>8. new \in Accounts
  BY <1>1, <1>6, <1>7 DEF Accounts
<1> HIDE DEF N
<1>9. ntx(N + 1) = t /\ \A i \in 1 .. N : ntx(i) = tx(i)
  BY <1>5, <1>7
<1>10. \A i \in 1 .. N + 1 : i \in 1 .. N \/ i = N + 1
  BY <1>1
<1>11. {ntx(i) : i \in 1 .. acc.committed} = {u \in UNION ToSet(blocks) : account_id(u) = a}
  <2>1. \A i \in 1 .. acc.committed : i \in 1 .. N
    BY <1>1
  <2>2. \A i \in 1 .. acc.committed : ntx(i) = tx(i) /\ account_id(tx(i)) = a /\ tx(i) \in UNION ToSet(blocks)
    BY <1>1, <1>9, <2>1
  <2>3. \A u \in UNION ToSet(blocks) : account_id(u) = a => \E i \in 1 .. acc.committed : tx(i) = u
    BY <1>1
  <2> QED BY <2>2, <2>3
<1>12. {ntx(i) : i \in acc.committed + 1 .. N + 1} = {u \in Nodes(h) : account_id(u) = a}
  <2>1. acc.committed + 1 .. N + 1 = (acc.committed + 1 .. N) \cup {N + 1}
    BY <1>1
  <2>2. \A i \in acc.committed + 1 .. N : ntx(i) = tx(i) /\ account_id(tx(i)) = a
    BY <1>1, <1>9
  <2>3. /\ \A i \in acc.committed + 1 .. N : tx(i) \in Nodes(g)
        /\ \A u \in Nodes(g) : account_id(u) = a => \E i \in acc.committed + 1 .. N : tx(i) = u
    BY <1>1
  <2>4. {ntx(i) : i \in acc.committed + 1 .. N} = {u \in Nodes(g) : account_id(u) = a}
    BY <2>2, <2>3
  <2>5. {ntx(i) : i \in acc.committed + 1 .. N + 1} = {ntx(i) : i \in acc.committed + 1 .. N} \cup {t}
    BY <1>9, <2>1
  <2> HIDE DEF ntx
  <2> QED BY <2>4, <2>5
<1>13. \A i \in 1 .. N + 1 : new.states[i].state = final_state(ntx(i))
  BY <1>1, <1>5, <1>7, <1>9, <1>10
<1>14. N # 0 => initial_state(t) = final_state(tx(N)) /\ N \in 1 .. N
  <2>1. N # 0 => acc.states # <<>> /\ N \in 1 .. N
    BY <1>1, EmptySeq DEF N
  <2> QED BY <1>1, <2>1 DEF N
<1>15. \A i \in 2 .. N + 1 : initial_state(ntx(i)) = final_state(ntx(i - 1))
  <2> SUFFICES ASSUME NEW i \in 2 .. N + 1
               PROVE  initial_state(ntx(i)) = final_state(ntx(i - 1))
    OBVIOUS
  <2>1. CASE i = N + 1
    <3>1. N # 0 /\ i - 1 = N /\ N \in 1 .. N
      BY <1>1, <2>1
    <3> QED BY <1>9, <1>14, <2>1, <3>1
  <2>2. CASE i # N + 1
    <3>1. i \in 2 .. N /\ i \in 1 .. N /\ i - 1 \in 1 .. N
      BY <1>1, <2>2
    <3> QED BY <1>2, <1>9, <3>1
  <2> QED BY <2>1, <2>2
<1>16. ASSUME NEW i \in 1 .. N + 1, NEW j \in 1 .. N + 1, i < j
       PROVE  ntx(i) # ntx(j) /\ final_state(ntx(i)) <= initial_state(ntx(j))
  <2>1. CASE j = N + 1
    <3>1. i \in 1 .. N /\ N # 0 /\ N \in 1 .. N
      BY <1>1, <1>16, <2>1
    <3>2. ntx(i) = tx(i) /\ ntx(j) = t
      BY <1>9, <2>1, <3>1
    <3>3. tx(i) # t
      <4>1. i \in 1 .. acc.committed \/ i \in acc.committed + 1 .. N
        BY <1>1, <3>1
      <4> QED BY <1>1, <4>1
    <3>4. final_state(tx(i)) <= initial_state(t)
      <4>1. CASE i = N
        <5>1. final_state(tx(i)) \in Nat
          BY <1>1, <3>1, TxFacts
        <5> QED BY <1>14, <3>1, <4>1, <5>1
      <4>2. CASE i # N
        <5>1. i < N
          BY <1>1, <3>1, <4>2
        <5>2. final_state(tx(i)) <= initial_state(tx(N))
          BY <1>2, <3>1, <5>1
        <5>3. final_state(tx(i)) \in Nat /\ initial_state(tx(N)) \in Nat /\ final_state(tx(N)) \in Nat
              /\ initial_state(tx(N)) <= final_state(tx(N))
          BY <1>1, <3>1, TxFacts
        <5> QED BY <1>14, <3>1, <5>2, <5>3
      <4> QED BY <4>1, <4>2
    <3> QED BY <3>2, <3>3, <3>4
  <2>2. CASE j # N + 1
    <3>1. i \in 1 .. N /\ j \in 1 .. N /\ i # j
      BY <1>1, <1>16, <2>2
    <3> QED BY <1>1, <1>2, <1>9, <1>16, <3>1
  <2> QED BY <2>1, <2>2
<1>17. ASSUME NEW i \in acc.committed + 1 .. N
       PROVE  ntx(i) \in h.parents[ntx(i + 1)]
  <2>1. i \in 1 .. N
    BY <1>1
  <2>2. CASE i = N
    <3>1. account_parent(acc) = {tx(N)}
      <4>1. Len(acc.states) - acc.committed # 0
        BY <1>1, <2>2 DEF N
      <4> QED BY <4>1 DEF account_parent, uncommitted_count, N
    <3> QED BY <1>9, <2>1, <2>2, <3>1
  <2>3. CASE i # N
    <3>1. i \in acc.committed + 1 .. N - 1 /\ i + 1 \in acc.committed + 1 .. N /\ i + 1 \in 1 .. N
      BY <1>1, <2>3
    <3>2. tx(i + 1) \in Nodes(g)
      BY <1>1, <3>1
    <3> QED BY <1>2, <1>9, <2>1, <3>1, <3>2
  <2> QED BY <2>2, <2>3
<1>18. \A i, j \in 1 .. acc.committed, p, q \in DOMAIN blocks :
         i < j /\ ntx(i) \in blocks[p] /\ ntx(j) \in blocks[q] => p <= q
  <2>1. \A i \in 1 .. acc.committed : ntx(i) = tx(i)
    BY <1>1, <1>9
  <2> QED BY <1>2, <2>1
<1>19. ChainOK(new, a, blocks, h)
  <2>1. Len(new.states) = N + 1 /\ (N + 1) - 1 = N /\ new.committed <= N + 1 /\ new.committed = acc.committed
    BY <1>1, <1>6, <1>7
  <2> QED BY <2>1, <1>11, <1>12, <1>13, <1>15, <1>16, <1>17, <1>18 DEF ChainOK
<1> QED BY <1>3, <1>8, <1>19

(* The chains of the other accounts do not notice it.                       *)
LEMMA ChainOther ==
    ASSUME NEW acc \in Accounts, NEW a, NEW blocks, NEW g, ChainOK(acc, a, blocks, g),
           NEW t, account_id(t) # a,
           NEW h, Nodes(h) = Nodes(g) \cup {t}, \A k \in Nodes(g) : h.parents[k] = g.parents[k]
    PROVE  ChainOK(acc, a, blocks, h)
<1>1. {u \in Nodes(h) : account_id(u) = a} = {u \in Nodes(g) : account_id(u) = a}
  OBVIOUS
<1>2. \A i \in acc.committed + 1 .. Len(acc.states) - 1 :
         h.parents[acc.states[i + 1].tx] = g.parents[acc.states[i + 1].tx]
  <2> SUFFICES ASSUME NEW i \in acc.committed + 1 .. Len(acc.states) - 1
               PROVE  acc.states[i + 1].tx \in Nodes(g)
    OBVIOUS
  <2>1. Len(acc.states) \in Nat /\ acc.committed \in Nat
        /\ \A j \in acc.committed + 1 .. Len(acc.states) : acc.states[j].tx \in Nodes(g)
    <3>1. Positions(acc, a, blocks, g)
      BY ChainFacts
    <3> QED BY <3>1 DEF Positions
  <2>2. i + 1 \in acc.committed + 1 .. Len(acc.states)
    BY <2>1
  <2> QED BY <2>1, <2>2
<1> QED BY <1>1, <1>2 DEF ChainOK

(* The part m + 1 .. n of a chain spans what the blocks kept and the graph  *)
(* h have of the account, with c of it committed.                           *)
Spans(acc, a, m, n, c, kept, h) ==
    LET tx(i) == acc.states[i].tx
    IN  /\ m \in Nat /\ n \in Nat /\ m <= n /\ n <= Len(acc.states)
        /\ c \in Nat /\ c <= n - m
        /\ \A i \in m + 1 .. m + c : tx(i) \in UNION ToSet(kept)
        /\ \A t \in UNION ToSet(kept) : account_id(t) = a => \E i \in m + 1 .. m + c : tx(i) = t
        /\ \A i \in m + c + 1 .. n : tx(i) \in Nodes(h)
        /\ \A t \in Nodes(h) : account_id(t) = a => \E i \in m + c + 1 .. n : tx(i) = t
        /\ \A i \in m + c + 1 .. n - 1 : tx(i) \in h.parents[tx(i + 1)]
        /\ \A i, j \in m + 1 .. m + c, p, q \in DOMAIN kept :
             i < j /\ tx(i) \in kept[p] /\ tx(j) \in kept[q] => p <= q

(* A stretch of a chain is a chain of what it spans.                        *)
LEMMA ChainSlice ==
    ASSUME NEW acc \in Accounts, NEW a, NEW blocks, NEW g, ChainOK(acc, a, blocks, g),
           NEW m, NEW n, NEW c, NEW kept, NEW h, Spans(acc, a, m, n, c, kept, h),
           NEW new, new = [states |-> SubSeq(acc.states, m + 1, n), committed |-> c]
    PROVE  new \in Accounts /\ ChainOK(new, a, kept, h)
<1> DEFINE N == Len(acc.states)
<1> DEFINE tx(i) == acc.states[i].tx
<1> DEFINE ntx(i) == new.states[i].tx
<1>1. /\ N \in Nat /\ acc.states \in Seq([state : Nat, tx : Tx])
      /\ \A i \in 1 .. N : acc.states[i].state = final_state(tx(i)) /\ account_id(tx(i)) = a
      /\ \A i, j \in 1 .. N : tx(i) = tx(j) => i = j
  <2>1. Positions(acc, a, blocks, g)
    BY ChainFacts
  <2> QED BY <2>1 DEF Positions
<1>2. /\ \A i \in 2 .. N : initial_state(tx(i)) = final_state(tx(i - 1))
      /\ \A i, j \in 1 .. N : i < j => final_state(tx(i)) <= initial_state(tx(j))
  BY ChainSteps
<1>0. /\ m \in Nat /\ n \in Nat /\ m <= n /\ n <= N /\ c \in Nat /\ c <= n - m
      /\ \A i \in m + 1 .. m + c : tx(i) \in UNION ToSet(kept)
      /\ \A t \in UNION ToSet(kept) : account_id(t) = a => \E i \in m + 1 .. m + c : tx(i) = t
      /\ \A i \in m + c + 1 .. n : tx(i) \in Nodes(h)
      /\ \A t \in Nodes(h) : account_id(t) = a => \E i \in m + c + 1 .. n : tx(i) = t
      /\ \A i \in m + c + 1 .. n - 1 : tx(i) \in h.parents[tx(i + 1)]
      /\ \A i, j \in m + 1 .. m + c, p, q \in DOMAIN kept :
           i < j /\ tx(i) \in kept[p] /\ tx(j) \in kept[q] => p <= q
  BY DEF Spans
<1> DEFINE M == n - m
<1>3. M \in Nat /\ m + 1 \in Int /\ n \in Int /\ \A i \in m + 1 .. n : i \in 1 .. N
  BY <1>0, <1>1
<1>4. /\ new.states \in Seq([state : Nat, tx : Tx])
      /\ Len(new.states) = M
      /\ \A i \in 1 .. M : new.states[i] = acc.states[i + m]
  <2>1. \A i \in m + 1 .. n : acc.states[i] \in [state : Nat, tx : Tx]
    BY <1>0, <1>1, <1>3, ElementOfSeq
  <2>2. /\ SubSeq(acc.states, m + 1, n) \in Seq([state : Nat, tx : Tx])
        /\ Len(SubSeq(acc.states, m + 1, n)) = IF m + 1 <= n THEN n - (m + 1) + 1 ELSE 0
        /\ \A i \in 1 .. n - (m + 1) + 1 : SubSeq(acc.states, m + 1, n)[i] = acc.states[(m + 1) + i - 1]
    BY <1>0, <1>3, <2>1, SubSeqProperties
  <2>3. n - (m + 1) + 1 = M /\ (IF m + 1 <= n THEN n - (m + 1) + 1 ELSE 0) = M
    BY <1>0
  <2>4. \A i \in 1 .. M : (m + 1) + i - 1 = i + m
    BY <1>0
  <2> QED BY <1>0, <2>2, <2>3, <2>4
<1>5. new.committed = c /\ new \in Accounts
  BY <1>0, <1>4 DEF Accounts
<1> HIDE DEF N
<1>6. \A i \in 1 .. M : i + m \in m + 1 .. n /\ i + m \in 1 .. N /\ ntx(i) = tx(i + m)
  BY <1>0, <1>3, <1>4
<1>7. c <= M
  BY <1>0
<1>8. {ntx(i) : i \in 1 .. c} = {t \in UNION ToSet(kept) : account_id(t) = a}
  <2>1. \A i \in 1 .. c : i + m \in m + 1 .. m + c /\ ntx(i) = tx(i + m)
    BY <1>0, <1>6, <1>7
  <2>2. \A j \in m + 1 .. m + c : j - m \in 1 .. c /\ ntx(j - m) = tx(j)
    <3> TAKE j \in m + 1 .. m + c
    <3>0. j \in Int /\ m + 1 <= j /\ j <= m + c
      BY <1>0
    <3>1. j - m \in 1 .. c /\ (j - m) + m = j
      BY <1>0, <3>0
    <3> QED BY <1>0, <2>1, <3>1
  <2>3. {ntx(i) : i \in 1 .. c} = {tx(i) : i \in m + 1 .. m + c}
    <3> HIDE DEF ntx, tx
    <3> QED BY <1>0, <2>1, <2>2
  <2>4. \A i \in m + 1 .. m + c : i \in 1 .. N
    BY <1>0, <1>3
  <2>5. {tx(i) : i \in m + 1 .. m + c} = {t \in UNION ToSet(kept) : account_id(t) = a}
    <3> HIDE DEF tx
    <3>1. \A i \in m + 1 .. m + c : tx(i) \in UNION ToSet(kept) /\ account_id(tx(i)) = a
      BY <1>0, <1>1, <2>4
    <3> QED BY <1>0, <3>1
  <2> QED BY <2>3, <2>5
<1>9. {ntx(i) : i \in c + 1 .. M} = {t \in Nodes(h) : account_id(t) = a}
  <2>1. \A i \in c + 1 .. M : i + m \in m + c + 1 .. n /\ ntx(i) = tx(i + m)
    BY <1>0, <1>6
  <2>2. \A j \in m + c + 1 .. n : j - m \in c + 1 .. M /\ ntx(j - m) = tx(j)
    <3> TAKE j \in m + c + 1 .. n
    <3>1. j - m \in c + 1 .. M /\ (j - m) + m = j
      BY <1>0
    <3> QED BY <1>0, <2>1, <3>1
  <2>3. {ntx(i) : i \in c + 1 .. M} = {tx(i) : i \in m + c + 1 .. n}
    <3> HIDE DEF ntx, tx
    <3> QED BY <1>0, <2>1, <2>2
  <2>4. \A i \in m + c + 1 .. n : i \in 1 .. N
    BY <1>0, <1>3
  <2>5. {tx(i) : i \in m + c + 1 .. n} = {t \in Nodes(h) : account_id(t) = a}
    <3> HIDE DEF tx
    <3>1. \A i \in m + c + 1 .. n : tx(i) \in Nodes(h) /\ account_id(tx(i)) = a
      BY <1>0, <1>1, <2>4
    <3> QED BY <1>0, <3>1
  <2> QED BY <2>3, <2>5
<1>10. \A i \in 1 .. M : new.states[i].state = final_state(ntx(i))
  <2> TAKE i \in 1 .. M
  <2>1. i + m \in 1 .. N /\ ntx(i) = tx(i + m)
    BY <1>6
  <2>2. new.states[i] = acc.states[i + m]
    BY <1>4
  <2>3. acc.states[i + m].state = final_state(tx(i + m))
    BY <1>1, <2>1
  <2> QED BY <2>1, <2>2, <2>3
<1>11. \A i \in 2 .. M : initial_state(ntx(i)) = final_state(ntx(i - 1))
  <2> TAKE i \in 2 .. M
  <2>1. i \in 1 .. M /\ i - 1 \in 1 .. M /\ i + m \in 2 .. N /\ (i + m) - 1 = (i - 1) + m
    <3>1. M \in Nat /\ m \in Nat /\ n \in Nat /\ N \in Nat /\ M + m = n /\ n <= N
      BY <1>0, <1>1, <1>3
    <3>2. i \in Nat /\ 2 <= i /\ i <= M
      BY <1>3
    <3> HIDE DEF M, N
    <3> QED BY <3>1, <3>2
  <2>2. initial_state(tx(i + m)) = final_state(tx((i + m) - 1))
    BY <1>0, <1>2, <2>1
  <2> QED BY <1>0, <1>6, <2>1, <2>2
<1>12. \A i, j \in 1 .. M : i < j => ntx(i) # ntx(j) /\ final_state(ntx(i)) <= initial_state(ntx(j))
  <2> SUFFICES ASSUME NEW i \in 1 .. M, NEW j \in 1 .. M, i < j
               PROVE  ntx(i) # ntx(j) /\ final_state(ntx(i)) <= initial_state(ntx(j))
    BY <1>0
  <2>1. i + m \in 1 .. N /\ j + m \in 1 .. N
    BY <1>0, <1>6
  <2>2. i + m < j + m /\ i + m # j + m
    BY <1>0
  <2> QED BY <1>0, <1>1, <1>2, <1>6, <2>1, <2>2
<1>13. \A i \in c + 1 .. M - 1 : ntx(i) \in h.parents[ntx(i + 1)]
  <2> TAKE i \in c + 1 .. M - 1
  <2>1. i + m \in m + c + 1 .. n - 1 /\ i \in 1 .. M /\ i + 1 \in 1 .. M /\ (i + 1) + m = (i + m) + 1
    BY <1>0, <1>3
  <2>2. tx(i + m) \in h.parents[tx((i + m) + 1)]
    BY <1>0, <2>1
  <2> QED BY <1>0, <1>6, <2>1, <2>2
<1>14. \A i, j \in 1 .. c, p, q \in DOMAIN kept :
         i < j /\ ntx(i) \in kept[p] /\ ntx(j) \in kept[q] => p <= q
  <2> SUFFICES ASSUME NEW i \in 1 .. c, NEW j \in 1 .. c, NEW p \in DOMAIN kept, NEW q \in DOMAIN kept,
                      i < j, ntx(i) \in kept[p], ntx(j) \in kept[q]
               PROVE  p <= q
    BY <1>0
  <2>1. /\ i + m \in m + 1 .. m + c /\ j + m \in m + 1 .. m + c /\ i + m < j + m
        /\ i \in 1 .. M /\ j \in 1 .. M
    BY <1>0, <1>7
  <2>2. tx(i + m) \in kept[p] /\ tx(j + m) \in kept[q]
    BY <1>0, <1>6, <2>1
  <2> QED BY <1>0, <2>1, <2>2
<1>15. ChainOK(new, a, kept, h)
  BY <1>0, <1>4, <1>5, <1>7, <1>8, <1>9, <1>10, <1>11, <1>12, <1>13, <1>14 DEF ChainOK
<1> QED BY <1>0, <1>5, <1>15

(* The positions P of a chain are those of the account's part of T.         *)
Placed(acc, a, T, P) ==
    /\ P \subseteq 1 .. Len(acc.states)
    /\ \A i \in P : acc.states[i].tx \in T
    /\ \A t \in T : account_id(t) = a => \E i \in P : acc.states[i].tx = t

(* The transactions at some of a chain's positions are as many as these.    *)
LEMMA CountUpdates ==
    ASSUME NEW acc \in Accounts, NEW a, NEW blocks, NEW g, ChainOK(acc, a, blocks, g),
           NEW T, NEW P, Placed(acc, a, T, P)
    PROVE  Updates(T, a) = Cardinality(P)
<1>0. /\ P \subseteq 1 .. Len(acc.states)
      /\ \A i \in P : acc.states[i].tx \in T
      /\ \A t \in T : account_id(t) = a => \E i \in P : acc.states[i].tx = t
  BY DEF Placed
<1>1. /\ Len(acc.states) \in Nat
      /\ \A i \in 1 .. Len(acc.states) : account_id(acc.states[i].tx) = a
      /\ \A i, j \in 1 .. Len(acc.states) : acc.states[i].tx = acc.states[j].tx => i = j
  <2>1. Positions(acc, a, blocks, g)
    BY ChainFacts
  <2> QED BY <2>1 DEF Positions
<1>2. IsFiniteSet(P)
  <2>1. IsFiniteSet(1 .. Len(acc.states))
    BY <1>1, FS_Interval
  <2> QED BY <1>0, <2>1, FS_Subset
<1> DEFINE f == [i \in P |-> acc.states[i].tx]
<1>3. \A i, j \in P : f[i] = f[j] => i = j
  BY <1>0, <1>1
<1> DEFINE U == {t \in T : account_id(t) = a}
<1>4. (\A i \in P : f[i] \in U) /\ \A t \in U : \E i \in P : f[i] = t
  BY <1>0, <1>1
<1>5. Numbers(f, P, U)
  <2> HIDE DEF f, U
  <2> QED BY <1>3, <1>4 DEF Numbers
<1>6. Cardinality(U) = Cardinality(P)
  <2> HIDE DEF f, U
  <2> QED BY <1>2, <1>5, ImageCardinality
<1> QED BY <1>6 DEF Updates

(* Taking transactions off with all that depend on them takes the end of    *)
(* the chain off.                                                           *)
LEMMA ChainRevert ==
    ASSUME NEW acc \in Accounts, NEW a, NEW blocks, NEW g, ChainOK(acc, a, blocks, g),
           NEW R, R \subseteq Nodes(g), \A c \in Nodes(g) : g.parents[c] \cap R # {} => c \in R,
           NEW h, Nodes(h) = Nodes(g) \ R, \A k \in Nodes(h) : h.parents[k] = g.parents[k]
    PROVE  /\ Updates(R, a) <= uncommitted_count(acc)
           /\ account_revert(acc, Updates(R, a)) \in Accounts
           /\ ChainOK(account_revert(acc, Updates(R, a)), a, blocks, h)
<1> DEFINE N == Len(acc.states)
<1> DEFINE c == acc.committed
<1> DEFINE tx(i) == acc.states[i].tx
<1>1. /\ N \in Nat /\ c \in Nat /\ c <= N
      /\ \A i \in 1 .. N : account_id(tx(i)) = a
      /\ \A i \in 1 .. c : tx(i) \in UNION ToSet(blocks)
      /\ \A u \in UNION ToSet(blocks) : account_id(u) = a => \E i \in 1 .. c : tx(i) = u
      /\ \A i \in c + 1 .. N : tx(i) \in Nodes(g)
      /\ \A u \in Nodes(g) : account_id(u) = a => \E i \in c + 1 .. N : tx(i) = u
  <2>1. Positions(acc, a, blocks, g)
    BY ChainFacts
  <2> QED BY <2>1 DEF Positions
<1>2. /\ \A i \in c + 1 .. N - 1 : tx(i) \in g.parents[tx(i + 1)]
      /\ \A i, j \in 1 .. c, p, q \in DOMAIN blocks :
           i < j /\ tx(i) \in blocks[p] /\ tx(j) \in blocks[q] => p <= q
  BY ChainSteps
<1> DEFINE P == {i \in c + 1 .. N : tx(i) \in R}
<1> DEFINE n == Cardinality(P)
<1>3. /\ n \in Nat /\ P = N - n + 1 .. N
      /\ P # {} => n <= N - (c + 1) + 1
  <2>1. \A i \in P : i < N => i + 1 \in P
    <3> SUFFICES ASSUME NEW i \in P, i < N
                 PROVE  i + 1 \in P
      OBVIOUS
    <3>1. i \in c + 1 .. N - 1 /\ i + 1 \in c + 1 .. N
      BY <1>1
    <3>2. tx(i) \in g.parents[tx(i + 1)] /\ tx(i) \in R /\ tx(i + 1) \in Nodes(g)
      BY <1>1, <1>2, <3>1
    <3> QED BY <3>1, <3>2
  <2>2. P \subseteq c + 1 .. N /\ c + 1 \in Nat
    BY <1>1
  <2> HIDE DEF P, N, c
  <2> QED BY <1>1, <2>1, <2>2, UpwardClosed
<1>4. Updates(R, a) = n
  <2>1. P \subseteq 1 .. N /\ \A i \in P : tx(i) \in R
    BY <1>1
  <2>2. \A t \in R : account_id(t) = a => \E i \in P : tx(i) = t
    BY <1>1
  <2> HIDE DEF P
  <2>3. Placed(acc, a, R, P)
    BY <2>1, <2>2 DEF Placed
  <2> QED BY <2>3, CountUpdates
<1>5. c <= N - n /\ N - n \in Nat /\ N - n <= N /\ n <= N - c
  <2>1. CASE P = {}
    <3>1. n = 0
      BY <2>1, FS_EmptySet
    <3> HIDE DEF n
    <3> QED BY <1>1, <3>1
  <2>2. CASE P # {}
    <3>1. n \in Nat /\ n <= N - (c + 1) + 1 /\ N \in Nat /\ c \in Nat
      BY <1>1, <1>3, <2>2
    <3> HIDE DEF P, n, N, c
    <3> QED BY <3>1
  <2> QED BY <2>1, <2>2
<1>6. uncommitted_count(acc) = N - c
  BY DEF uncommitted_count
<1>7. \A i \in c + 1 .. N : tx(i) \in R <=> ~(i <= N - n)
  <2>1. \A i \in c + 1 .. N : tx(i) \in R <=> i \in P
    OBVIOUS
  <2> HIDE DEF P, n
  <2>2. \A i \in c + 1 .. N : i \in P <=> ~(i <= N - n)
    BY <1>1, <1>3
  <2> QED BY <2>1, <2>2
<1> DEFINE new == account_revert(acc, n)
<1>8. new = [states |-> SubSeq(acc.states, 0 + 1, N - n), committed |-> c]
  <2>1. 0 + 1 = 1
    OBVIOUS
  <2>2. new = [acc EXCEPT !.states = SubSeq(acc.states, 1, N - n)]
    BY DEF account_revert, Accounts
  <2> QED BY <2>1, <2>2 DEF Accounts
<1> HIDE DEF new, n, P
<1>9. Spans(acc, a, 0, N - n, c, blocks, h)
  <2>1. /\ 0 + 1 .. 0 + c = 1 .. c /\ 0 + c + 1 .. N - n = c + 1 .. N - n
        /\ 0 + c + 1 .. (N - n) - 1 = c + 1 .. (N - n) - 1
    BY <1>1
  <2>2. \A i \in c + 1 .. N - n : i \in c + 1 .. N /\ i <= N - n
    BY <1>1, <1>5
  <2>3. \A i \in c + 1 .. N - n : tx(i) \in Nodes(h)
    BY <1>1, <1>7, <2>2
  <2>4. \A t \in Nodes(h) : account_id(t) = a => \E i \in c + 1 .. N - n : tx(i) = t
    <3> SUFFICES ASSUME NEW t \in Nodes(h), account_id(t) = a
                 PROVE  \E i \in c + 1 .. N - n : tx(i) = t
      OBVIOUS
    <3>1. PICK i \in c + 1 .. N : tx(i) = t
      BY <1>1
    <3>2. i <= N - n
      BY <1>7, <3>1
    <3>3. i \in c + 1 .. N - n
      BY <1>1, <1>5, <3>2
    <3> QED BY <3>1, <3>3
  <2>5. \A i \in c + 1 .. (N - n) - 1 : tx(i) \in h.parents[tx(i + 1)]
    <3> TAKE i \in c + 1 .. (N - n) - 1
    <3>1. i \in c + 1 .. N - 1 /\ i + 1 \in c + 1 .. N - n
      BY <1>1, <1>3, <1>5
    <3> QED BY <1>2, <2>3, <3>1
  <2>6. 0 <= N - n /\ c <= (N - n) - 0 /\ 0 \in Nat
    BY <1>5
  <2> HIDE DEF c
  <2> QED BY <1>1, <1>2, <1>5, <2>1, <2>3, <2>4, <2>5, <2>6 DEF Spans
<1>10. new \in Accounts /\ ChainOK(new, a, blocks, h)
  <2> HIDE DEF c, N
  <2> QED BY <1>8, <1>9, ChainSlice
<1> QED BY <1>4, <1>5, <1>6, <1>10 DEF new

(* Committing transactions with all they depend on moves the border between *)
(* committed and inflight up the chain.                                     *)
LEMMA ChainCommit ==
    ASSUME NEW acc \in Accounts, NEW a, NEW blocks \in Seq(SUBSET Tx), NEW g, ChainOK(acc, a, blocks, g),
           NEW C \in SUBSET Tx, C \subseteq Nodes(g), \A k \in C : g.parents[k] \subseteq C,
           NEW h, Nodes(h) = Nodes(g) \ C, \A k \in Nodes(h) : h.parents[k] = g.parents[k] \ C
    PROVE  /\ Updates(C, a) <= uncommitted_count(acc)
           /\ account_commit(acc, Updates(C, a)) \in Accounts
           /\ ChainOK(account_commit(acc, Updates(C, a)), a, Append(blocks, C), h)
<1> DEFINE N == Len(acc.states)
<1> DEFINE c == acc.committed
<1> DEFINE tx(i) == acc.states[i].tx
<1>1. /\ N \in Nat /\ c \in Nat /\ c <= N
      /\ acc.states \in Seq([state : Nat, tx : Tx])
      /\ \A i \in 1 .. N : account_id(tx(i)) = a
      /\ \A i \in 1 .. c : tx(i) \in UNION ToSet(blocks)
      /\ \A u \in UNION ToSet(blocks) : account_id(u) = a => \E i \in 1 .. c : tx(i) = u
      /\ \A i \in c + 1 .. N : tx(i) \in Nodes(g)
      /\ \A u \in Nodes(g) : account_id(u) = a => \E i \in c + 1 .. N : tx(i) = u
      /\ \A i, j \in 1 .. N : tx(i) = tx(j) => i = j
  <2>1. Positions(acc, a, blocks, g)
    BY ChainFacts
  <2> QED BY <2>1 DEF Positions
<1>2. /\ \A i \in c + 1 .. N - 1 : tx(i) \in g.parents[tx(i + 1)]
      /\ \A i, j \in 1 .. c, p, q \in DOMAIN blocks :
           i < j /\ tx(i) \in blocks[p] /\ tx(j) \in blocks[q] => p <= q
  BY ChainSteps
<1> DEFINE P == {i \in c + 1 .. N : tx(i) \in C}
<1> DEFINE n == Cardinality(P)
<1>3. n \in Nat /\ P = c + 1 .. c + n /\ c + n <= N
  <2>1. \A i \in P : i > c + 1 => i - 1 \in P
    <3> SUFFICES ASSUME NEW i \in P, i > c + 1
                 PROVE  i - 1 \in P
      OBVIOUS
    <3>1. i - 1 \in c + 1 .. N - 1 /\ i - 1 \in c + 1 .. N /\ (i - 1) + 1 = i
      <4>1. c \in Nat /\ N \in Nat
        BY <1>1
      <4>2. i \in c + 1 .. N
        OBVIOUS
      <4> HIDE DEF c, N, P
      <4> QED BY <4>1, <4>2
    <3>2. tx(i - 1) \in g.parents[tx((i - 1) + 1)]
      BY <1>2, <3>1
    <3>3. tx(i - 1) \in g.parents[tx(i)]
      BY <3>1, <3>2
    <3>4. tx(i) \in C
      OBVIOUS
    <3>5. tx(i - 1) \in C
      BY <3>3, <3>4
    <3> QED BY <3>1, <3>5
  <2>2. P \subseteq c + 1 .. N
    OBVIOUS
  <2> HIDE DEF P, N, c
  <2> QED BY <1>1, <2>1, <2>2, DownwardClosed
<1>4. Updates(C, a) = n
  <2>1. P \subseteq 1 .. N /\ \A i \in P : tx(i) \in C
    BY <1>1
  <2>2. \A t \in C : account_id(t) = a => \E i \in P : tx(i) = t
    BY <1>1
  <2> HIDE DEF P
  <2>3. Placed(acc, a, C, P)
    BY <2>1, <2>2 DEF Placed
  <2> QED BY <2>3, CountUpdates
<1>5. uncommitted_count(acc) = N - c
  BY DEF uncommitted_count
<1>6. \A i \in c + 1 .. N : tx(i) \in C <=> i <= c + n
  <2>1. \A i \in c + 1 .. N : tx(i) \in C <=> i \in P
    OBVIOUS
  <2> HIDE DEF P, n
  <2>2. \A i \in c + 1 .. N : i \in P <=> i <= c + n
    BY <1>1, <1>3
  <2> QED BY <2>1, <2>2
<1> DEFINE new == account_commit(acc, n)
<1>7. new = [states |-> SubSeq(acc.states, 0 + 1, N), committed |-> c + n]
  <2>1. SubSeq(acc.states, 0 + 1, N) = acc.states
    <3>1. 0 + 1 = 1
      OBVIOUS
    <3> QED BY <1>1, <3>1, SubSeqFull
  <2> HIDE DEF n
  <2>2. new = [acc EXCEPT !.committed = c + n]
    BY DEF account_commit
  <2>3. new = [states |-> acc.states, committed |-> c + n]
    BY <2>2 DEF Accounts
  <2> QED BY <2>1, <2>3
<1> HIDE DEF new, n, P
<1> DEFINE L == Len(blocks)
<1> DEFINE all == Append(blocks, C)
<1>8. /\ L \in Nat /\ DOMAIN blocks = 1 .. L
      /\ all \in Seq(SUBSET Tx) /\ DOMAIN all = 1 .. L + 1
      /\ all[L + 1] = C /\ \A p \in 1 .. L : all[p] = blocks[p]
      /\ UNION ToSet(all) = (UNION ToSet(blocks)) \cup C
  <2>1. ToSet(all) = ToSet(blocks) \cup {C}
    BY AppendElements
  <2>2. UNION ToSet(all) = (UNION ToSet(blocks)) \cup C
    BY <2>1
  <2>3. L \in Nat /\ DOMAIN blocks = 1 .. L
    BY LenProperties
  <2>4. /\ all \in Seq(SUBSET Tx) /\ Len(all) = L + 1 /\ all[L + 1] = C
        /\ \A p \in 1 .. L : all[p] = blocks[p]
    BY AppendProperties
  <2>5. DOMAIN all = 1 .. L + 1
    BY <2>4, LenProperties
  <2> QED BY <2>2, <2>3, <2>4, <2>5
<1> HIDE DEF all
<1>9. Spans(acc, a, 0, N, c + n, all, h)
  <2>1. 0 + 1 .. 0 + (c + n) = 1 .. c + n /\ 0 + (c + n) + 1 .. N = c + n + 1 .. N
        /\ 0 + (c + n) + 1 .. N - 1 = c + n + 1 .. N - 1
    BY <1>1, <1>3
  <2>2. \A i \in 1 .. c + n : i \in 1 .. c \/ (i \in c + 1 .. N /\ i <= c + n)
    BY <1>1, <1>3
  <2>3. \A i \in 1 .. c + n : tx(i) \in UNION ToSet(all)
    <3> TAKE i \in 1 .. c + n
    <3>1. CASE i \in 1 .. c
      BY <1>1, <1>8, <3>1
    <3>2. CASE i \in c + 1 .. N /\ i <= c + n
      BY <1>6, <1>8, <3>2
    <3> QED BY <2>2, <3>1, <3>2
  <2>4. \A t \in UNION ToSet(all) : account_id(t) = a => \E i \in 1 .. c + n : tx(i) = t
    <3> SUFFICES ASSUME NEW t \in UNION ToSet(all), account_id(t) = a
                 PROVE  \E i \in 1 .. c + n : tx(i) = t
      OBVIOUS
    <3>1. CASE t \in UNION ToSet(blocks)
      <4>1. PICK i \in 1 .. c : tx(i) = t
        BY <1>1, <3>1
      <4>2. i \in 1 .. c + n
        BY <1>1, <1>3
      <4> QED BY <4>1, <4>2
    <3>2. CASE t \in C
      <4>1. PICK i \in c + 1 .. N : tx(i) = t
        BY <1>1, <3>2
      <4>2. i <= c + n
        BY <1>6, <3>2, <4>1
      <4>3. i \in 1 .. c + n
        BY <1>1, <1>3, <4>2
      <4> QED BY <4>1, <4>3
    <3> QED BY <1>8, <3>1, <3>2
  <2>5. \A i \in c + n + 1 .. N : i \in c + 1 .. N /\ ~(i <= c + n)
    BY <1>1, <1>3
  <2>6. \A i \in c + n + 1 .. N : tx(i) \in Nodes(h) /\ tx(i) \notin C
    BY <1>1, <1>6, <2>5
  <2>7. \A t \in Nodes(h) : account_id(t) = a => \E i \in c + n + 1 .. N : tx(i) = t
    <3> SUFFICES ASSUME NEW t \in Nodes(h), account_id(t) = a
                 PROVE  \E i \in c + n + 1 .. N : tx(i) = t
      OBVIOUS
    <3>1. PICK i \in c + 1 .. N : tx(i) = t
      BY <1>1
    <3>2. ~(i <= c + n)
      BY <1>6, <3>1
    <3>3. i \in c + n + 1 .. N
      BY <1>1, <1>3, <3>2
    <3> QED BY <3>1, <3>3
  <2>8. \A i \in c + n + 1 .. N - 1 : tx(i) \in h.parents[tx(i + 1)]
    <3> TAKE i \in c + n + 1 .. N - 1
    <3>1. i \in c + 1 .. N - 1 /\ i + 1 \in c + n + 1 .. N /\ i \in c + n + 1 .. N
      <4>1. c \in Nat /\ n \in Nat /\ N \in Nat
        BY <1>1, <1>3
      <4> HIDE DEF c, N
      <4> QED BY <4>1
    <3>2. tx(i) \in g.parents[tx(i + 1)]
      BY <1>2, <3>1
    <3>3. tx(i) \notin C /\ tx(i + 1) \in Nodes(h)
      BY <2>6, <3>1
    <3>4. h.parents[tx(i + 1)] = g.parents[tx(i + 1)] \ C
      BY <3>3
    <3> QED BY <3>2, <3>3, <3>4
  <2>9. ASSUME NEW i \in 1 .. c + n, NEW j \in 1 .. c + n, NEW p \in DOMAIN all, NEW q \in DOMAIN all,
               i < j, tx(i) \in all[p], tx(j) \in all[q]
        PROVE  p <= q
    <3>1. p \in 1 .. L + 1 /\ q \in 1 .. L + 1
      BY <1>8
    <3>2. CASE q = L + 1
      BY <1>8, <3>1, <3>2
    <3>3. CASE q # L + 1
      <4>1. q \in 1 .. L
        BY <1>8, <3>1, <3>3
      <4>2. tx(j) \in UNION ToSet(blocks)
        BY <1>8, <2>9, <4>1 DEF ToSet
      <4>3. j \in 1 .. N /\ i \in 1 .. N
        BY <1>1, <1>3
      <4>4. PICK k \in 1 .. c : tx(k) = tx(j)
        BY <1>1, <4>2, <4>3
      <4>5. k = j
        <5>1. k \in 1 .. N
          BY <1>1
        <5> QED BY <1>1, <4>3, <4>4, <5>1
      <4>6. j \in 1 .. c /\ i \in 1 .. c /\ ~(i \in c + 1 .. N)
        BY <1>1, <2>9, <4>5
      <4>7. p # L + 1
        <5> SUFFICES ASSUME p = L + 1
                     PROVE  FALSE
          OBVIOUS
        <5>1. tx(i) \in C
          BY <1>8, <2>9
        <5>2. PICK k2 \in c + 1 .. N : tx(k2) = tx(i)
          BY <1>1, <4>3, <5>1
        <5>3. k2 \in 1 .. N
          BY <1>1
        <5> QED BY <1>1, <4>3, <4>6, <5>2, <5>3
      <4>8. p \in 1 .. L
        BY <1>8, <3>1, <4>7
      <4> QED BY <1>2, <1>8, <2>9, <4>1, <4>6, <4>8
    <3> QED BY <3>2, <3>3
  <2>10. 0 \in Nat /\ 0 <= N /\ N <= Len(acc.states) /\ c + n \in Nat /\ c + n <= N - 0
    BY <1>1, <1>3
  <2> HIDE DEF c
  <2> QED BY <1>1, <2>1, <2>3, <2>4, <2>6, <2>7, <2>8, <2>9, <2>10 DEF Spans
<1>10. new \in Accounts /\ ChainOK(new, a, all, h)
  <2> HIDE DEF c, N
  <2> QED BY <1>7, <1>9, ChainSlice
<1>11. n <= N - c
  BY <1>1, <1>3
<1> QED BY <1>4, <1>5, <1>10, <1>11 DEF new, all

(* Pruning the oldest block takes the beginning of the chain off.           *)
LEMMA ChainPrune ==
    ASSUME NEW acc \in Accounts, NEW a, NEW blocks \in Seq(SUBSET Tx), NEW g, ChainOK(acc, a, blocks, g),
           BlocksOK(blocks), blocks # <<>>, NEW B, B = Head(blocks)
    PROVE  /\ Updates(B, a) <= acc.committed
           /\ account_prune_committed(acc, Updates(B, a)) \in Accounts
           /\ ChainOK(account_prune_committed(acc, Updates(B, a)), a, Tail(blocks), g)
<1> DEFINE N == Len(acc.states)
<1> DEFINE c == acc.committed
<1> DEFINE tx(i) == acc.states[i].tx
<1>1. /\ N \in Nat /\ c \in Nat /\ c <= N
      /\ acc.states \in Seq([state : Nat, tx : Tx])
      /\ \A i \in 1 .. c : tx(i) \in UNION ToSet(blocks)
      /\ \A u \in UNION ToSet(blocks) : account_id(u) = a => \E i \in 1 .. c : tx(i) = u
      /\ \A i \in c + 1 .. N : tx(i) \in Nodes(g)
      /\ \A u \in Nodes(g) : account_id(u) = a => \E i \in c + 1 .. N : tx(i) = u
  <2>1. Positions(acc, a, blocks, g)
    BY ChainFacts
  <2> QED BY <2>1 DEF Positions
<1>2. /\ \A i \in c + 1 .. N - 1 : tx(i) \in g.parents[tx(i + 1)]
      /\ \A i, j \in 1 .. c, p, q \in DOMAIN blocks :
           i < j /\ tx(i) \in blocks[p] /\ tx(j) \in blocks[q] => p <= q
  BY ChainSteps
<1> DEFINE L == Len(blocks)
<1> DEFINE kept == Tail(blocks)
<1>3. /\ L \in Nat /\ L # 0 /\ DOMAIN blocks = 1 .. L /\ 1 \in 1 .. L /\ blocks[1] = B
      /\ DOMAIN kept = 1 .. L - 1 /\ \A p \in 1 .. L - 1 : kept[p] = blocks[p + 1]
  <2>1. L \in Nat /\ L # 0 /\ DOMAIN blocks = 1 .. L
    BY LenProperties, EmptySeq
  <2>2. kept \in Seq(SUBSET Tx) /\ Len(kept) = L - 1 /\ \A p \in 1 .. Len(kept) : kept[p] = blocks[p + 1]
    BY HeadTailProperties
  <2>3. DOMAIN kept = 1 .. L - 1
    BY <2>2, LenProperties
  <2>4. Head(blocks) = blocks[1]
    OBVIOUS
  <2> QED BY <2>1, <2>2, <2>3, <2>4
<1> HIDE DEF L, kept
<1>4. /\ B \subseteq UNION ToSet(blocks)
      /\ UNION ToSet(kept) = (UNION ToSet(blocks)) \ B
  <2>1. \A t : t \in UNION ToSet(kept) <=> \E p \in 1 .. L - 1 : t \in blocks[p + 1]
    BY <1>3 DEF ToSet
  <2>2. \A t : t \in UNION ToSet(blocks) <=> \E p \in 1 .. L : t \in blocks[p]
    BY <1>3 DEF ToSet
  <2>3. ASSUME NEW p \in 1 .. L - 1
        PROVE  p + 1 \in 1 .. L /\ p + 1 # 1 /\ blocks[p + 1] \cap B = {}
    <3>1. p + 1 \in 1 .. L /\ p + 1 # 1
      BY <1>3
    <3> QED BY <1>3, <3>1 DEF BlocksOK
  <2>4. ASSUME NEW p \in 1 .. L, p # 1
        PROVE  p - 1 \in 1 .. L - 1 /\ (p - 1) + 1 = p
    BY <1>3, <2>4
  <2>5. B \subseteq UNION ToSet(blocks)
    BY <1>3, <2>2
  <2>6. ASSUME NEW t \in UNION ToSet(kept)
        PROVE  t \in UNION ToSet(blocks) /\ t \notin B
    BY <2>1, <2>2, <2>3, <2>6
  <2>7. ASSUME NEW t \in UNION ToSet(blocks), t \notin B
        PROVE  t \in UNION ToSet(kept)
    <3>1. PICK p \in 1 .. L : t \in blocks[p]
      BY <2>2
    <3>2. p # 1
      BY <1>3, <2>7, <3>1
    <3> QED BY <2>1, <2>4, <3>1, <3>2
  <2> QED BY <2>5, <2>6, <2>7
<1> DEFINE P == {i \in 1 .. c : tx(i) \in B}
<1> DEFINE n == Cardinality(P)
<1>5. n \in Nat /\ P = 1 .. n /\ n <= c
  <2>1. \A i \in P : i > 0 + 1 => i - 1 \in P
    <3> SUFFICES ASSUME NEW i \in P, i > 0 + 1
                 PROVE  i - 1 \in P
      OBVIOUS
    <3>1. i \in 1 .. c /\ i - 1 \in 1 .. c /\ i - 1 < i
      BY <1>1
    <3>2. PICK p \in 1 .. L : tx(i - 1) \in blocks[p]
      <4>1. tx(i - 1) \in UNION ToSet(blocks)
        BY <1>1, <3>1
      <4> QED BY <1>3, <4>1 DEF ToSet
    <3>3. p <= 1
      <4>1. tx(i) \in blocks[1]
        BY <1>3
      <4> QED BY <1>2, <1>3, <3>1, <3>2, <4>1
    <3>4. p = 1
      BY <3>2, <3>3
    <3> QED BY <1>3, <3>1, <3>2, <3>4
  <2>2. P \subseteq 0 + 1 .. c /\ 0 \in Nat /\ 0 <= c
    BY <1>1
  <2>3. n \in Nat /\ P = 0 + 1 .. 0 + n /\ 0 + n <= c
    <3> HIDE DEF P, c
    <3> QED BY <1>1, <2>1, <2>2, DownwardClosed
  <2> HIDE DEF P, n
  <2> QED BY <2>3
<1>6. Updates(B, a) = n
  <2>1. P \subseteq 1 .. N /\ \A i \in P : tx(i) \in B
    BY <1>1
  <2>2. \A t \in B : account_id(t) = a => \E i \in P : tx(i) = t
    BY <1>1, <1>4
  <2> HIDE DEF P
  <2>3. Placed(acc, a, B, P)
    BY <2>1, <2>2 DEF Placed
  <2> QED BY <2>3, CountUpdates
<1>7. \A i \in 1 .. c : tx(i) \in B <=> i <= n
  <2>1. \A i \in 1 .. c : tx(i) \in B <=> i \in P
    OBVIOUS
  <2> HIDE DEF P, n
  <2>2. \A i \in 1 .. c : i \in P <=> i <= n
    BY <1>1, <1>5
  <2> QED BY <2>1, <2>2
<1> DEFINE new == account_prune_committed(acc, n)
<1>8. new = [states |-> SubSeq(acc.states, n + 1, N), committed |-> c - n]
  BY DEF account_prune_committed
<1> HIDE DEF new, n, P
<1>9. Spans(acc, a, n, N, c - n, kept, g)
  <2>1. n + 1 .. n + (c - n) = n + 1 .. c /\ n + (c - n) + 1 .. N = c + 1 .. N
        /\ n + (c - n) + 1 .. N - 1 = c + 1 .. N - 1
    BY <1>1, <1>5
  <2>2. \A i \in n + 1 .. c : i \in 1 .. c /\ ~(i <= n)
    BY <1>1, <1>5
  <2>3. \A i \in n + 1 .. c : tx(i) \in UNION ToSet(kept)
    BY <1>1, <1>4, <1>7, <2>2
  <2>4. \A t \in UNION ToSet(kept) : account_id(t) = a => \E i \in n + 1 .. c : tx(i) = t
    <3> SUFFICES ASSUME NEW t \in UNION ToSet(kept), account_id(t) = a
                 PROVE  \E i \in n + 1 .. c : tx(i) = t
      OBVIOUS
    <3>1. PICK i \in 1 .. c : tx(i) = t
      BY <1>1, <1>4
    <3>2. ~(i <= n)
      BY <1>4, <1>7, <3>1
    <3>3. i \in n + 1 .. c
      BY <1>1, <1>5, <3>2
    <3> QED BY <3>1, <3>3
  <2>5. ASSUME NEW i \in n + 1 .. c, NEW j \in n + 1 .. c, NEW p \in DOMAIN kept, NEW q \in DOMAIN kept,
               i < j, tx(i) \in kept[p], tx(j) \in kept[q]
        PROVE  p <= q
    <3>1. p \in Int /\ q \in Int /\ p + 1 \in 1 .. L /\ q + 1 \in 1 .. L /\ kept[p] = blocks[p + 1] /\ kept[q] = blocks[q + 1]
      BY <1>3
    <3>2. p + 1 <= q + 1
      BY <1>2, <1>3, <2>2, <2>5, <3>1
    <3> QED BY <3>1, <3>2
  <2>6. n \in Nat /\ n <= N /\ N <= Len(acc.states) /\ c - n \in Nat /\ c - n <= N - n
    BY <1>1, <1>5
  <2> HIDE DEF c
  <2> QED BY <1>1, <1>2, <2>1, <2>3, <2>4, <2>5, <2>6 DEF Spans
<1>10. new \in Accounts /\ ChainOK(new, a, kept, g)
  <2>1. PICK d : d = c - n
    OBVIOUS
  <2>2. Spans(acc, a, n, N, d, kept, g) /\ new = [states |-> SubSeq(acc.states, n + 1, N), committed |-> d]
    BY <1>8, <1>9, <2>1
  <2> HIDE DEF c, N
  <2> QED BY <2>2, ChainSlice
<1> QED BY <1>5, <1>6, <1>10 DEF new, kept

-----------------------------------------------------------------------------
(* NULLIFIERS AND NOTES                                                     *)

(* A new transaction adds its own, which nobody else has.                   *)
LEMMA NotesInsert ==
    ASSUME NEW U, NEW O, NEW I, NEW R, NotesAre(U, O, I, R), NEW t, t \notin I \cup R,
           nullifiers(t) \cap U = {}, output_note_ids(t) \cap DOMAIN O = {}
    PROVE  NotesAre(U \cup nullifiers(t),
                    [n \in DOMAIN O \cup output_note_ids(t) |->
                        IF n \in output_note_ids(t) THEN t ELSE O[n]],
                    I \cup {t}, R)
<1> DEFINE new == [n \in DOMAIN O \cup output_note_ids(t) |->
                        IF n \in output_note_ids(t) THEN t ELSE O[n]]
<1>1. (I \cup {t}) \cup R = (I \cup R) \cup {t}
  OBVIOUS
<1>2. U \cup nullifiers(t) = UNION {nullifiers(u) : u \in (I \cup R) \cup {t}}
  BY DEF NotesAre
<1>3. DOMAIN new = UNION {output_note_ids(u) : u \in (I \cup R) \cup {t}}
  <2>1. DOMAIN new = DOMAIN O \cup output_note_ids(t)
    OBVIOUS
  <2> QED BY <2>1 DEF NotesAre
<1>4. \A u \in I \cup R : /\ nullifiers(u) \subseteq U /\ output_note_ids(u) \subseteq DOMAIN O
                          /\ nullifiers(u) \cap nullifiers(t) = {}
                          /\ output_note_ids(u) \cap output_note_ids(t) = {}
  <2>1. \A u \in I \cup R : nullifiers(u) \subseteq U /\ output_note_ids(u) \subseteq DOMAIN O
    BY DEF NotesAre
  <2> QED BY <2>1
<1>5. \A v, u \in (I \cup R) \cup {t} : v # u => /\ nullifiers(v) \cap nullifiers(u) = {}
                                                /\ output_note_ids(v) \cap output_note_ids(u) = {}
  <2>1. \A v, u \in I \cup R : v # u => /\ nullifiers(v) \cap nullifiers(u) = {}
                                       /\ output_note_ids(v) \cap output_note_ids(u) = {}
    BY DEF NotesAre
  <2> QED BY <1>4, <2>1
<1>6. \A u \in I \cup R : \A n \in output_note_ids(u) : new[n] = O[n]
  BY <1>4
<1>7. \A n \in output_note_ids(t) : new[n] = t
  OBVIOUS
<1>8. /\ \A u \in I : \A n \in output_note_ids(u) : O[n] = u
      /\ \A u \in R : \A n \in output_note_ids(u) : O[n] = Committed
  BY DEF NotesAre
<1>9. /\ \A u \in I \cup {t} : \A n \in output_note_ids(u) : new[n] = u
      /\ \A u \in R : \A n \in output_note_ids(u) : new[n] = Committed
  BY <1>6, <1>7, <1>8
<1> HIDE DEF new
<1>10. NotesAre(U \cup nullifiers(t), new, I \cup {t}, R)
  BY <1>1, <1>2, <1>3, <1>5, <1>9 DEF NotesAre
<1> QED BY <1>10 DEF new

(* Transactions that leave, reverted or pruned, take theirs with them.      *)
LEMMA NotesRemove ==
    ASSUME NEW U, NEW O, NEW I, NEW R, NotesAre(U, O, I, R), NEW T, T \subseteq I \cup R
    PROVE  /\ NotesAre(U \ UNION {nullifiers(t) : t \in T},
                       [n \in DOMAIN O \ UNION {output_note_ids(t) : t \in T} |-> O[n]],
                       I \ T, R \ T)
           /\ \A t \in T : nullifiers(t) \subseteq U /\ output_note_ids(t) \subseteq DOMAIN O
<1> DEFINE N == UNION {nullifiers(t) : t \in T}
<1> DEFINE M == UNION {output_note_ids(t) : t \in T}
<1> DEFINE new == [n \in DOMAIN O \ M |-> O[n]]
<1> DEFINE L == I \cup R
<1>1. /\ U = UNION {nullifiers(t) : t \in L} /\ DOMAIN O = UNION {output_note_ids(t) : t \in L}
      /\ \A t, u \in L : t # u => /\ nullifiers(t) \cap nullifiers(u) = {}
                                 /\ output_note_ids(t) \cap output_note_ids(u) = {}
      /\ \A u \in I : \A n \in output_note_ids(u) : O[n] = u
      /\ \A u \in R : \A n \in output_note_ids(u) : O[n] = Committed
  BY DEF NotesAre
<1>2. (I \ T) \cup (R \ T) = L \ T
  OBVIOUS
<1> HIDE DEF L
<1>3. \A u \in L \ T : nullifiers(u) \cap N = {} /\ output_note_ids(u) \cap M = {}
  <2>1. T \subseteq L
    BY DEF L
  <2>2. \A u \in L \ T, t \in T : nullifiers(u) \cap nullifiers(t) = {} /\ output_note_ids(u) \cap output_note_ids(t) = {}
    BY <1>1, <2>1
  <2> QED BY <2>2
<1>4. T \subseteq L
  BY DEF L
<1>5. U \ N = UNION {nullifiers(t) : t \in L \ T}
  <2>1. \A n : n \in U <=> \E t \in L : n \in nullifiers(t)
    BY <1>1
  <2>2. \A n : n \in N <=> \E t \in T : n \in nullifiers(t)
    OBVIOUS
  <2> HIDE DEF N
  <2>3. \A n : n \in U \ N <=> \E t \in L \ T : n \in nullifiers(t)
    BY <1>3, <2>1, <2>2
  <2> QED BY <2>3
<1>6. DOMAIN O \ M = UNION {output_note_ids(t) : t \in L \ T}
  <2>1. \A n : n \in DOMAIN O <=> \E t \in L : n \in output_note_ids(t)
    BY <1>1
  <2>2. \A n : n \in M <=> \E t \in T : n \in output_note_ids(t)
    OBVIOUS
  <2> HIDE DEF M
  <2>3. \A n : n \in DOMAIN O \ M <=> \E t \in L \ T : n \in output_note_ids(t)
    BY <1>3, <2>1, <2>2
  <2> QED BY <2>3
<1>7. DOMAIN new = DOMAIN O \ M /\ \A n \in DOMAIN O \ M : new[n] = O[n]
  OBVIOUS
<1>8. \A t \in L : nullifiers(t) \subseteq U /\ output_note_ids(t) \subseteq DOMAIN O
  BY <1>1
<1> HIDE DEF new, M, N
<1>9. \A u \in L \ T : \A n \in output_note_ids(u) : new[n] = O[n]
  BY <1>3, <1>7, <1>8
<1>10. /\ \A u \in I \ T : \A n \in output_note_ids(u) : new[n] = u
       /\ \A u \in R \ T : \A n \in output_note_ids(u) : new[n] = Committed
  BY <1>1, <1>9 DEF L
<1>11. \A t, u \in L \ T : t # u => /\ nullifiers(t) \cap nullifiers(u) = {}
                                   /\ output_note_ids(t) \cap output_note_ids(u) = {}
  BY <1>1
<1>12. NotesAre(U \ N, new, I \ T, R \ T)
  BY <1>2, <1>5, <1>6, <1>7, <1>10, <1>11 DEF NotesAre
<1> QED BY <1>4, <1>8, <1>12 DEF new, M, N

(* Committed transactions keep theirs, the notes marked as committed.       *)
LEMMA NotesCommit ==
    ASSUME NEW U, NEW O, NEW I, NEW R, NotesAre(U, O, I, R), NEW T, T \subseteq I
    PROVE  NotesAre(U, [n \in DOMAIN O |-> IF n \in UNION {output_note_ids(t) : t \in T}
                                           THEN Committed ELSE O[n]],
                    I \ T, R \cup T)
<1> DEFINE M == UNION {output_note_ids(t) : t \in T}
<1> DEFINE new == [n \in DOMAIN O |-> IF n \in M THEN Committed ELSE O[n]]
<1> DEFINE L == I \cup R
<1>1. /\ U = UNION {nullifiers(t) : t \in L} /\ DOMAIN O = UNION {output_note_ids(t) : t \in L}
      /\ \A t, u \in L : t # u => /\ nullifiers(t) \cap nullifiers(u) = {}
                                 /\ output_note_ids(t) \cap output_note_ids(u) = {}
      /\ \A u \in I : \A n \in output_note_ids(u) : O[n] = u
      /\ \A u \in R : \A n \in output_note_ids(u) : O[n] = Committed
  BY DEF NotesAre
<1>2. (I \ T) \cup (R \cup T) = L
  OBVIOUS
<1>3. \A n : n \in M <=> \E t \in T : n \in output_note_ids(t)
  OBVIOUS
<1>4. \A t \in L : output_note_ids(t) \subseteq DOMAIN O
  BY <1>1
<1>5. DOMAIN new = DOMAIN O /\ \A n \in DOMAIN O : new[n] = IF n \in M THEN Committed ELSE O[n]
  OBVIOUS
<1> HIDE DEF new, M
<1>6. ASSUME NEW u \in I \ T, NEW n \in output_note_ids(u)
      PROVE  new[n] = u
  <2>1. n \notin M
    BY <1>1, <1>3
  <2>2. n \in DOMAIN O
    BY <1>4
  <2> QED BY <1>1, <1>5, <2>1, <2>2
<1>7. ASSUME NEW u \in R \cup T, NEW n \in output_note_ids(u)
      PROVE  new[n] = Committed
  <2>1. n \in DOMAIN O
    BY <1>4
  <2> QED BY <1>1, <1>3, <1>5, <2>1
<1> HIDE DEF L
<1>8. NotesAre(U, new, I \ T, R \cup T)
  BY <1>1, <1>2, <1>5, <1>6, <1>7 DEF NotesAre
<1> QED BY <1>8 DEF new, M

-----------------------------------------------------------------------------
(* THE INFLIGHT STATE                                                       *)

(* What a consistent state consists of.                                     *)
LEMMA StateFacts ==
    ASSUME NEW s, NEW g, StateOK(s, g)
    PROVE  /\ s \in InflightStates
           /\ s.accounts \in [Account -> Accounts]
           /\ s.nullifiers \subseteq Note
           /\ DOMAIN s.output_notes \subseteq Note
           /\ s.output_notes \in [DOMAIN s.output_notes -> Tx \cup {Committed}]
           /\ s.committed_blocks \in Seq(SUBSET Tx)
           /\ s.chain_tip \in Nat
           /\ s.transaction_deltas = Nodes(g)
           /\ BlocksOK(s.committed_blocks)
           /\ \A a \in Account : ChainOK(s.accounts[a], a, s.committed_blocks, g)
           /\ NotesAre(s.nullifiers, s.output_notes, Nodes(g), Retained(s))
           /\ Retained(s) \subseteq Tx
<1>1. s \in InflightStates
  BY DEF StateOK
<1>2. /\ s.accounts \in [Account -> Accounts] /\ s.nullifiers \subseteq Note
      /\ s.committed_blocks \in Seq(SUBSET Tx) /\ s.chain_tip \in Nat
      /\ s.output_notes \in UNION {[D -> Tx \cup {Committed}] : D \in SUBSET Note}
  BY <1>1 DEF InflightStates
<1>3. /\ DOMAIN s.output_notes \subseteq Note
      /\ s.output_notes \in [DOMAIN s.output_notes -> Tx \cup {Committed}]
  <2>1. PICK D \in SUBSET Note : s.output_notes \in [D -> Tx \cup {Committed}]
    BY <1>2
  <2> QED BY <2>1
<1>4. Retained(s) \subseteq Tx
  <2>1. ToSet(s.committed_blocks) \subseteq SUBSET Tx
    BY <1>2, LenProperties DEF ToSet
  <2> QED BY <2>1 DEF Retained
<1>5. /\ s.transaction_deltas = Nodes(g) /\ BlocksOK(s.committed_blocks)
      /\ \A a \in Account : ChainOK(s.accounts[a], a, s.committed_blocks, g)
      /\ NotesAre(s.nullifiers, s.output_notes, Nodes(g), Retained(s))
  BY DEF StateOK, NotesOK
<1> QED BY <1>1, <1>2, <1>3, <1>4, <1>5

(* The parts of a consistent state.                                         *)
StateParts(accounts, U, O, blocks, tip, g) ==
    /\ accounts \in [Account -> Accounts]
    /\ U \subseteq Note
    /\ DOMAIN O \subseteq Note /\ O \in [DOMAIN O -> Tx \cup {Committed}]
    /\ Nodes(g) \subseteq Tx
    /\ blocks \in Seq(SUBSET Tx) /\ BlocksOK(blocks)
    /\ tip \in Nat
    /\ \A a \in Account : ChainOK(accounts[a], a, blocks, g)
    /\ NotesAre(U, O, Nodes(g), UNION ToSet(blocks))

(* They make a consistent state.                                            *)
LEMMA StateMade ==
    ASSUME NEW accounts, NEW U, NEW O, NEW blocks, NEW tip, NEW g,
           StateParts(accounts, U, O, blocks, tip, g),
           NEW s, s = [accounts |-> accounts, nullifiers |-> U, output_notes |-> O,
                       transaction_deltas |-> Nodes(g), committed_blocks |-> blocks, chain_tip |-> tip]
    PROVE  /\ StateOK(s, g)
           /\ s.chain_tip = tip /\ s.committed_blocks = blocks
<1>1. /\ s.accounts = accounts /\ s.nullifiers = U /\ s.output_notes = O
      /\ s.transaction_deltas = Nodes(g) /\ s.committed_blocks = blocks /\ s.chain_tip = tip
  OBVIOUS
<1>2. O \in UNION {[E -> Tx \cup {Committed}] : E \in SUBSET Note}
  BY DEF StateParts
<1>3. s \in InflightStates
  BY <1>2 DEF InflightStates, StateParts
<1> QED BY <1>1, <1>3 DEF StateOK, NotesOK, Retained, StateParts

(* No transaction is both inflight and committed.                           *)
LEMMA LiveDisjoint ==
    ASSUME NEW s, NEW g, StateOK(s, g)
    PROVE  Nodes(g) \cap Retained(s) = {}
<1> SUFFICES ASSUME NEW t \in Nodes(g), t \in Retained(s)
             PROVE  FALSE
  OBVIOUS
<1> DEFINE a == account_id(t)
<1>1. t \in Tx /\ a \in Account
  BY StateFacts, TxFacts
<1>2. PICK acc \in Accounts : acc = s.accounts[a]
  BY <1>1, StateFacts
<1>3. ChainOK(acc, a, s.committed_blocks, g)
  BY <1>1, <1>2, StateFacts
<1>4. Positions(acc, a, s.committed_blocks, g)
  <2> HIDE DEF a
  <2> QED BY <1>3, ChainFacts
<1>5. PICK i \in 1 .. acc.committed : acc.states[i].tx = t
  BY <1>4 DEF Positions, Retained
<1>6. PICK j \in acc.committed + 1 .. Len(acc.states) : acc.states[j].tx = t
  BY <1>4 DEF Positions
<1>7. /\ Len(acc.states) \in Nat /\ acc.committed \in Nat /\ acc.committed <= Len(acc.states)
      /\ \A k, l \in 1 .. Len(acc.states) : acc.states[k].tx = acc.states[l].tx => k = l
  BY <1>4 DEF Positions
<1>8. i \in 1 .. Len(acc.states) /\ j \in 1 .. Len(acc.states) /\ i # j
  BY <1>7
<1> QED BY <1>5, <1>6, <1>7, <1>8

(* What verify_transaction has checked.                                     *)
LEMMA Verified ==
    ASSUME NEW s, NEW t, NEW auth, verify_transaction(s, t, auth) = "Ok"
    PROVE  /\ ~(expires_at(t) <= s.chain_tip + expiration_slack)
           /\ LET acc == s.accounts[account_id(t)]
              IN  acc.states # <<>> => initial_state(t) = acc.states[Len(acc.states)].state
           /\ nullifiers(t) \cap s.nullifiers = {}
           /\ output_note_ids(t) \cap DOMAIN s.output_notes = {}
           /\ unauthenticated_notes(t, auth) \subseteq DOMAIN s.output_notes
<1> DEFINE acc == s.accounts[account_id(t)]
<1> DEFINE known == IF current_state(acc) = {} THEN {auth.state} ELSE current_state(acc)
<1>1. /\ ~(expires_at(t) <= s.chain_tip + expiration_slack)
      /\ initial_state(t) \in known
      /\ nullifiers(t) \cap s.nullifiers = {}
      /\ output_note_ids(t) \cap DOMAIN s.output_notes = {}
      /\ unauthenticated_notes(t, auth) \subseteq DOMAIN s.output_notes
  BY DEF verify_transaction
<1>2. acc.states # <<>> => known = {acc.states[Len(acc.states)].state}
  BY DEF current_state
<1> HIDE DEF known
<1> QED BY <1>1, <1>2

(* A transaction that passes is not yet in the mempool, nor in a retained   *)
(* block: it consumes a note, or its account has moved on.                  *)
LEMMA NotLive ==
    ASSUME NEW s, NEW g, StateOK(s, g), NEW t \in Tx, NEW auth, verify_transaction(s, t, auth) = "Ok"
    PROVE  t \notin Nodes(g) \cup Retained(s)
<1> SUFFICES ASSUME t \in Nodes(g) \cup Retained(s)
             PROVE  FALSE
  OBVIOUS
<1> DEFINE a == account_id(t)
<1>1. a \in Account /\ initial_state(t) \in Nat /\ final_state(t) \in Nat /\ initial_state(t) <= final_state(t)
      /\ (initial_state(t) # final_state(t) \/ nullifiers(t) # {})
  BY TxFacts
<1>2. initial_state(t) < final_state(t)
  <2>1. nullifiers(t) \subseteq s.nullifiers
    <3>1. NotesAre(s.nullifiers, s.output_notes, Nodes(g), Retained(s))
      BY StateFacts
    <3> QED BY <3>1 DEF NotesAre
  <2>2. nullifiers(t) \cap s.nullifiers = {}
    BY Verified
  <2>3. nullifiers(t) = {}
    BY <2>1, <2>2
  <2> QED BY <1>1, <2>3
<1>3. PICK acc \in Accounts : acc = s.accounts[a]
  BY <1>1, StateFacts
<1>4. ChainOK(acc, a, s.committed_blocks, g)
  BY <1>1, <1>3, StateFacts
<1>5. Positions(acc, a, s.committed_blocks, g)
  <2> HIDE DEF a
  <2> QED BY <1>4, ChainFacts
<1> DEFINE N == Len(acc.states)
<1>6. /\ N \in Nat /\ acc.committed \in Nat /\ acc.committed <= N
      /\ acc.states \in Seq([state : Nat, tx : Tx])
      /\ \A i \in 1 .. N : acc.states[i].tx \in Tx /\ acc.states[i].state = final_state(acc.states[i].tx)
  BY <1>5 DEF Positions
<1>7. PICK i \in 1 .. N : acc.states[i].tx = t
  <2>1. CASE t \in Nodes(g)
    <3>1. PICK i \in acc.committed + 1 .. N : acc.states[i].tx = t
      BY <1>5, <2>1 DEF Positions
    <3> QED BY <1>6, <3>1
  <2>2. CASE t \in Retained(s)
    <3>1. PICK i \in 1 .. acc.committed : acc.states[i].tx = t
      BY <1>5, <2>2 DEF Positions, Retained
    <3> QED BY <1>6, <3>1
  <2> QED BY <2>1, <2>2
<1>8. N \in 1 .. N /\ acc.states # <<>>
  BY <1>6, <1>7, EmptySeq
<1>9. initial_state(t) = final_state(acc.states[N].tx)
  <2>1. acc.states # <<>> => initial_state(t) = acc.states[N].state
    BY <1>3, Verified
  <2> QED BY <1>6, <1>8, <2>1
<1>10. CASE i = N
  BY <1>1, <1>2, <1>7, <1>9, <1>10
<1>11. CASE i # N
  <2>1. i < N
    BY <1>6, <1>11
  <2>2. \A k, l \in 1 .. N : k < l => final_state(acc.states[k].tx) <= initial_state(acc.states[l].tx)
    <3> HIDE DEF a
    <3> QED BY <1>4, ChainSteps
  <2>3. final_state(t) <= initial_state(acc.states[N].tx)
    BY <1>7, <1>8, <2>1, <2>2
  <2>4. /\ initial_state(acc.states[N].tx) \in Nat /\ final_state(acc.states[N].tx) \in Nat
        /\ initial_state(acc.states[N].tx) <= final_state(acc.states[N].tx)
    BY <1>6, <1>8, TxFacts
  <2> QED BY <1>1, <1>2, <1>9, <2>3, <2>4
<1> QED BY <1>10, <1>11

(* The parents of a new transaction are inflight.                           *)
LEMMA ParentsKnown ==
    ASSUME NEW s, NEW g, StateOK(s, g), NEW t \in Tx, NEW auth, verify_transaction(s, t, auth) = "Ok"
    PROVE  insert_transaction_parents(s, t, auth) \subseteq Nodes(g)
<1> DEFINE a == account_id(t)
<1>1. a \in Account
  BY TxFacts
<1>2. PICK acc \in Accounts : acc = s.accounts[a]
  BY <1>1, StateFacts
<1>3. Positions(acc, a, s.committed_blocks, g)
  <2>1. ChainOK(acc, a, s.committed_blocks, g)
    BY <1>1, <1>2, StateFacts
  <2> HIDE DEF a
  <2> QED BY <2>1, ChainFacts
<1>4. account_parent(acc) \subseteq Nodes(g)
  <2>1. CASE uncommitted_count(acc) = 0
    BY <2>1 DEF account_parent
  <2>2. CASE uncommitted_count(acc) # 0
    <3>1. Len(acc.states) \in Nat /\ acc.committed \in Nat /\ acc.committed <= Len(acc.states)
          /\ \A i \in acc.committed + 1 .. Len(acc.states) : acc.states[i].tx \in Nodes(g)
      BY <1>3 DEF Positions
    <3>2. Len(acc.states) \in acc.committed + 1 .. Len(acc.states)
      BY <2>2, <3>1 DEF uncommitted_count
    <3>3. account_parent(acc) = {acc.states[Len(acc.states)].tx}
      BY <2>2 DEF account_parent
    <3> QED BY <3>1, <3>2, <3>3
  <2> QED BY <2>1, <2>2
<1>5. ASSUME NEW n \in unauthenticated_notes(t, auth), s.output_notes[n] # Committed
      PROVE  s.output_notes[n] \in Nodes(g)
  <2>1. n \in DOMAIN s.output_notes
    BY Verified
  <2>2. NotesAre(s.nullifiers, s.output_notes, Nodes(g), Retained(s))
    BY StateFacts
  <2>3. PICK u \in Nodes(g) \cup Retained(s) : n \in output_note_ids(u)
    BY <2>1, <2>2 DEF NotesAre
  <2>4. u \notin Retained(s)
    BY <1>5, <2>2, <2>3 DEF NotesAre
  <2> QED BY <2>2, <2>3, <2>4 DEF NotesAre
<1>6. insert_transaction_parents(s, t, auth) =
        account_parent(acc) \cup ({s.output_notes[n] : n \in unauthenticated_notes(t, auth)} \ {Committed})
  BY <1>2 DEF insert_transaction_parents
<1> QED BY <1>4, <1>5, <1>6

(* insert_transaction keeps the state consistent with the new graph.        *)
LEMMA StateInsert ==
    ASSUME NEW s, NEW g, StateOK(s, g), Nodes(g) \subseteq Tx,
           NEW t \in Tx, NEW auth, verify_transaction(s, t, auth) = "Ok",
           NEW h, Nodes(h) = Nodes(g) \cup {t}, \A k \in Nodes(g) : h.parents[k] = g.parents[k],
           h.parents[t] = insert_transaction_parents(s, t, auth)
    PROVE  /\ StateOK(insert_transaction(s, t), h)
           /\ insert_transaction(s, t).chain_tip = s.chain_tip
<1> DEFINE a == account_id(t)
<1> DEFINE blocks == s.committed_blocks
<1>1. a \in Account /\ nullifiers(t) \subseteq Note /\ output_note_ids(t) \subseteq Note
  BY TxFacts
<1>2. /\ s \in InflightStates /\ s.accounts \in [Account -> Accounts] /\ s.nullifiers \subseteq Note
      /\ DOMAIN s.output_notes \subseteq Note
      /\ s.output_notes \in [DOMAIN s.output_notes -> Tx \cup {Committed}]
      /\ blocks \in Seq(SUBSET Tx) /\ s.chain_tip \in Nat
      /\ s.transaction_deltas = Nodes(g) /\ BlocksOK(blocks)
      /\ \A b \in Account : ChainOK(s.accounts[b], b, blocks, g)
      /\ NotesAre(s.nullifiers, s.output_notes, Nodes(g), Retained(s))
  BY StateFacts
<1>3. t \notin Nodes(g) /\ t \notin Retained(s)
  BY NotLive
<1>4. PICK acc \in Accounts : acc = s.accounts[a]
  BY <1>1, <1>2
<1>5. PICK new : new = account_insert(acc, final_state(t), t)
  OBVIOUS
<1>6. new \in Accounts /\ ChainOK(new, a, blocks, h)
  <2>1. ChainOK(acc, a, blocks, g)
    BY <1>1, <1>2, <1>4
  <2>2. acc.states # <<>> => initial_state(t) = acc.states[Len(acc.states)].state
    BY <1>4, Verified
  <2>3. account_parent(acc) \subseteq h.parents[t]
    BY <1>4 DEF insert_transaction_parents
  <2>4. t \notin UNION ToSet(blocks)
    BY <1>3 DEF Retained
  <2>5. account_id(t) = a
    OBVIOUS
  <2> HIDE DEF a, blocks
  <2> QED BY <1>3, <1>5, <2>1, <2>2, <2>3, <2>4, <2>5, ChainInsert
<1> DEFINE accounts == [s.accounts EXCEPT ![a] = new]
<1>7. accounts \in [Account -> Accounts]
  BY <1>1, <1>2, <1>6
<1>8. \A b \in Account : ChainOK(accounts[b], b, blocks, h)
  <2> TAKE b \in Account
  <2>1. CASE b = a
    BY <1>1, <1>2, <1>6, <2>1
  <2>2. CASE b # a
    <3>1. accounts[b] = s.accounts[b] /\ s.accounts[b] \in Accounts
      BY <1>2, <2>2
    <3>2. PICK other \in Accounts : other = s.accounts[b]
      BY <3>1
    <3>3. ChainOK(other, b, blocks, g) /\ account_id(t) # b
      BY <1>2, <2>2, <3>2
    <3>4. ChainOK(other, b, blocks, h)
      <4> HIDE DEF a, blocks
      <4> QED BY <3>3, ChainOther
    <3> QED BY <3>1, <3>2, <3>4
  <2> QED BY <2>1, <2>2
<1> DEFINE U == s.nullifiers \cup nullifiers(t)
<1> DEFINE D == DOMAIN s.output_notes \cup output_note_ids(t)
<1> DEFINE O == [n \in D |-> IF n \in output_note_ids(t) THEN t ELSE s.output_notes[n]]
<1>9. NotesAre(U, O, Nodes(h), Retained(s))
  <2>1. nullifiers(t) \cap s.nullifiers = {} /\ output_note_ids(t) \cap DOMAIN s.output_notes = {}
    BY Verified
  <2>2. t \notin Nodes(g) \cup Retained(s)
    BY <1>3
  <2>3. PICK I, W, old, notes : I = Nodes(g) /\ W = Retained(s) /\ old = s.nullifiers /\ notes = s.output_notes
    OBVIOUS
  <2>4. NotesAre(old, notes, I, W) /\ t \notin I \cup W
        /\ nullifiers(t) \cap old = {} /\ output_note_ids(t) \cap DOMAIN notes = {}
    BY <1>2, <2>1, <2>2, <2>3
  <2>5. NotesAre(old \cup nullifiers(t),
                 [n \in DOMAIN notes \cup output_note_ids(t) |-> IF n \in output_note_ids(t) THEN t ELSE notes[n]],
                 I \cup {t}, W)
    BY <2>4, NotesInsert
  <2>6. NotesAre(U, O, I \cup {t}, Retained(s))
    BY <2>3, <2>5
  <2> QED BY <2>3, <2>6
<1>10. D \in SUBSET Note /\ O \in [D -> Tx \cup {Committed}] /\ U \in SUBSET Note
  BY <1>1, <1>2
<1>11. insert_transaction(s, t) =
         [accounts |-> accounts, nullifiers |-> U, output_notes |-> O,
          transaction_deltas |-> Nodes(h), committed_blocks |-> blocks, chain_tip |-> s.chain_tip]
  <2>1. accounts = [s.accounts EXCEPT ![a] = account_insert(s.accounts[a], final_state(t), t)]
    BY <1>4, <1>5
  <2>2. insert_transaction(s, t) =
          [s EXCEPT !.transaction_deltas = Nodes(g) \cup {t},
                    !.accounts = [s.accounts EXCEPT ![a] = account_insert(s.accounts[a], final_state(t), t)],
                    !.nullifiers = U,
                    !.output_notes = O]
    BY <1>2 DEF insert_transaction, InflightStates
  <2> HIDE DEF accounts, U, O
  <2> QED BY <1>2, <2>1, <2>2 DEF InflightStates
<1>12. Nodes(h) \in SUBSET Tx
  OBVIOUS
<1> HIDE DEF accounts, U, D, O, blocks
<1>13. NotesAre(U, O, Nodes(h), UNION ToSet(blocks))
  BY <1>9 DEF Retained, blocks
<1>14. StateParts(accounts, U, O, blocks, s.chain_tip, h)
  BY <1>2, <1>7, <1>8, <1>10, <1>12, <1>13 DEF StateParts
<1> QED BY <1>11, <1>14, StateMade

(* revert_transactions of the state, for transactions with all that depend  *)
(* on them: its asserts hold and it fits the graph without them.            *)
LEMMA StateRevert ==
    ASSUME NEW s, NEW g, StateOK(s, g), Nodes(g) \subseteq Tx,
           NEW R, R \subseteq Nodes(g), \A c \in Nodes(g) : g.parents[c] \cap R # {} => c \in R,
           NEW h, Nodes(h) = Nodes(g) \ R, \A k \in Nodes(h) : h.parents[k] = g.parents[k]
    PROVE  /\ revert_transactions_expects(s, R)
           /\ StateOK(state_revert_transactions(s, R), h)
           /\ state_revert_transactions(s, R).chain_tip = s.chain_tip
<1> DEFINE blocks == s.committed_blocks
<1>1. /\ s \in InflightStates /\ s.accounts \in [Account -> Accounts] /\ s.nullifiers \subseteq Note
      /\ DOMAIN s.output_notes \subseteq Note
      /\ s.output_notes \in [DOMAIN s.output_notes -> Tx \cup {Committed}]
      /\ blocks \in Seq(SUBSET Tx) /\ s.chain_tip \in Nat
      /\ s.transaction_deltas = Nodes(g) /\ BlocksOK(blocks)
      /\ \A b \in Account : ChainOK(s.accounts[b], b, blocks, g)
      /\ NotesAre(s.nullifiers, s.output_notes, Nodes(g), Retained(s))
  BY StateFacts
<1>2. ASSUME NEW a \in Account
      PROVE  /\ Updates(R, a) <= uncommitted_count(s.accounts[a])
             /\ account_revert(s.accounts[a], Updates(R, a)) \in Accounts
             /\ ChainOK(account_revert(s.accounts[a], Updates(R, a)), a, blocks, h)
  <2>1. PICK acc \in Accounts : acc = s.accounts[a]
    BY <1>1
  <2>2. ChainOK(acc, a, blocks, g)
    BY <1>1, <2>1
  <2> HIDE DEF blocks
  <2>3. /\ Updates(R, a) <= uncommitted_count(acc)
        /\ account_revert(acc, Updates(R, a)) \in Accounts
        /\ ChainOK(account_revert(acc, Updates(R, a)), a, blocks, h)
    BY <2>2, ChainRevert
  <2> QED BY <2>1, <2>3
<1> DEFINE accounts == [a \in Account |-> account_revert(s.accounts[a], Updates(R, a))]
<1> DEFINE U == s.nullifiers \ UNION {nullifiers(t) : t \in R}
<1> DEFINE O == [n \in DOMAIN s.output_notes \ UNION {output_note_ids(t) : t \in R} |-> s.output_notes[n]]
<1>3. /\ NotesAre(U, O, Nodes(h), UNION ToSet(blocks))
      /\ \A t \in R : nullifiers(t) \subseteq s.nullifiers /\ output_note_ids(t) \subseteq DOMAIN s.output_notes
  <2>1. Nodes(g) \ R = Nodes(h) /\ Retained(s) \ R = UNION ToSet(blocks)
    BY LiveDisjoint DEF Retained
  <2>2. R \subseteq Nodes(g) \cup Retained(s)
    OBVIOUS
  <2>3. PICK I : I = Nodes(g)
    OBVIOUS
  <2>4. /\ NotesAre(U, O, I \ R, Retained(s) \ R)
        /\ \A t \in R : nullifiers(t) \subseteq s.nullifiers /\ output_note_ids(t) \subseteq DOMAIN s.output_notes
    <3>1. NotesAre(s.nullifiers, s.output_notes, I, Retained(s)) /\ R \subseteq I \cup Retained(s)
      BY <1>1, <2>2, <2>3
    <3>2. NotesAre(U, O, I \ R, Retained(s) \ R)
      BY <3>1, NotesRemove
    <3>3. \A t \in R : nullifiers(t) \subseteq s.nullifiers /\ output_note_ids(t) \subseteq DOMAIN s.output_notes
      BY <3>1 DEF NotesAre
    <3> QED BY <3>2, <3>3
  <2> QED BY <2>1, <2>3, <2>4
<1>4. revert_transactions_expects(s, R)
  BY <1>1, <1>2, <1>3 DEF revert_transactions_expects
<1>5. state_revert_transactions(s, R) =
        [accounts |-> accounts, nullifiers |-> U, output_notes |-> O,
         transaction_deltas |-> Nodes(h), committed_blocks |-> blocks, chain_tip |-> s.chain_tip]
  <2>1. state_revert_transactions(s, R) =
          [s EXCEPT !.transaction_deltas = Nodes(g) \ R, !.accounts = accounts,
                    !.nullifiers = U, !.output_notes = O]
    BY <1>1 DEF state_revert_transactions, InflightStates
  <2> HIDE DEF accounts, U, O
  <2> QED BY <1>1, <2>1 DEF InflightStates
<1>6. StateParts(accounts, U, O, blocks, s.chain_tip, h)
  <2>1. accounts \in [Account -> Accounts] /\ \A a \in Account : ChainOK(accounts[a], a, blocks, h)
    BY <1>2
  <2>2. U \subseteq Note /\ DOMAIN O \subseteq Note /\ O \in [DOMAIN O -> Tx \cup {Committed}]
    BY <1>1
  <2> HIDE DEF accounts, U, O, blocks
  <2> QED BY <1>1, <1>3, <2>1, <2>2 DEF StateParts
<1> HIDE DEF accounts, U, O, blocks
<1>7. PICK new, tip : new = state_revert_transactions(s, R) /\ tip = s.chain_tip
  OBVIOUS
<1>8. StateOK(new, h) /\ new.chain_tip = tip
  <2>1. StateParts(accounts, U, O, blocks, tip, h)
    BY <1>6, <1>7
  <2>2. new = [accounts |-> accounts, nullifiers |-> U, output_notes |-> O,
               transaction_deltas |-> Nodes(h), committed_blocks |-> blocks, chain_tip |-> tip]
    BY <1>5, <1>7
  <2> QED BY <2>1, <2>2, StateMade
<1> QED BY <1>4, <1>7, <1>8

(* Pruning the oldest retained block.                                       *)
LEMMA StatePrune ==
    ASSUME NEW s, NEW g, StateOK(s, g), Nodes(g) \subseteq Tx, s.committed_blocks # <<>>
    PROVE  /\ \A a \in Account : Updates(Head(s.committed_blocks), a) <= s.accounts[a].committed
           /\ StateOK(prune_block(s), g)
           /\ prune_block(s).chain_tip = s.chain_tip
<1> DEFINE blocks == s.committed_blocks
<1>1. /\ s \in InflightStates /\ s.accounts \in [Account -> Accounts] /\ s.nullifiers \subseteq Note
      /\ DOMAIN s.output_notes \subseteq Note
      /\ s.output_notes \in [DOMAIN s.output_notes -> Tx \cup {Committed}]
      /\ blocks \in Seq(SUBSET Tx) /\ s.chain_tip \in Nat
      /\ s.transaction_deltas = Nodes(g) /\ BlocksOK(blocks)
      /\ \A b \in Account : ChainOK(s.accounts[b], b, blocks, g)
      /\ NotesAre(s.nullifiers, s.output_notes, Nodes(g), Retained(s))
  BY StateFacts
<1>2. PICK B : B = Head(blocks)
  OBVIOUS
<1>3. ASSUME NEW a \in Account
      PROVE  /\ Updates(B, a) <= s.accounts[a].committed
             /\ account_prune_committed(s.accounts[a], Updates(B, a)) \in Accounts
             /\ ChainOK(account_prune_committed(s.accounts[a], Updates(B, a)), a, Tail(blocks), g)
  <2>1. PICK acc \in Accounts : acc = s.accounts[a]
    BY <1>1
  <2>2. ChainOK(acc, a, blocks, g)
    BY <1>1, <2>1
  <2>3. blocks # <<>>
    OBVIOUS
  <2> HIDE DEF blocks
  <2>4. /\ Updates(B, a) <= acc.committed
        /\ account_prune_committed(acc, Updates(B, a)) \in Accounts
        /\ ChainOK(account_prune_committed(acc, Updates(B, a)), a, Tail(blocks), g)
    BY <1>1, <1>2, <2>2, <2>3, ChainPrune
  <2> QED BY <2>1, <2>4
<1> DEFINE accounts == [a \in Account |-> account_prune_committed(s.accounts[a], Updates(B, a))]
<1> DEFINE U == s.nullifiers \ UNION {nullifiers(t) : t \in B}
<1> DEFINE O == [n \in DOMAIN s.output_notes \ UNION {output_note_ids(t) : t \in B} |-> s.output_notes[n]]
<1> DEFINE L == Len(blocks)
<1>4. /\ L \in Nat /\ DOMAIN blocks = 1 .. L /\ 1 \in 1 .. L /\ blocks[1] = B
      /\ Tail(blocks) \in Seq(SUBSET Tx) /\ DOMAIN Tail(blocks) = 1 .. L - 1
      /\ \A p \in 1 .. L - 1 : Tail(blocks)[p] = blocks[p + 1] /\ p + 1 \in 1 .. L /\ p + 1 # 1
  <2>1. L \in Nat /\ L # 0 /\ DOMAIN blocks = 1 .. L
    BY <1>1, LenProperties, EmptySeq
  <2>2. Tail(blocks) \in Seq(SUBSET Tx) /\ Len(Tail(blocks)) = L - 1
        /\ \A p \in 1 .. Len(Tail(blocks)) : Tail(blocks)[p] = blocks[p + 1]
    BY <1>1, HeadTailProperties
  <2>3. DOMAIN Tail(blocks) = 1 .. L - 1
    BY <2>2, LenProperties
  <2>4. Head(blocks) = blocks[1]
    OBVIOUS
  <2>5. \A p \in 1 .. L - 1 : p + 1 \in 1 .. L /\ p + 1 # 1
    BY <2>1
  <2> QED BY <1>2, <2>1, <2>2, <2>3, <2>4, <2>5
<1>5. BlocksOK(Tail(blocks))
  <2> HIDE DEF blocks, L
  <2>1. \A p \in DOMAIN Tail(blocks) : IsFiniteSet(Tail(blocks)[p])
    BY <1>1, <1>4 DEF BlocksOK
  <2>2. ASSUME NEW p \in 1 .. L - 1, NEW q \in 1 .. L - 1, p # q
        PROVE  Tail(blocks)[p] \cap Tail(blocks)[q] = {}
    <3>1. p + 1 # q + 1
      BY <2>2
    <3>2. p + 1 \in DOMAIN blocks /\ q + 1 \in DOMAIN blocks
      BY <1>4
    <3>3. blocks[p + 1] \cap blocks[q + 1] = {}
      BY <1>1, <3>1, <3>2 DEF BlocksOK
    <3> QED BY <1>4, <3>3
  <2> QED BY <1>4, <2>1, <2>2 DEF BlocksOK
<1>6. B \subseteq Retained(s) /\ UNION ToSet(Tail(blocks)) = Retained(s) \ B
  <2>1. \A t : t \in UNION ToSet(Tail(blocks)) <=> \E p \in 1 .. L - 1 : t \in blocks[p + 1]
    BY <1>4 DEF ToSet
  <2>2. \A t : t \in Retained(s) <=> \E p \in 1 .. L : t \in blocks[p]
    BY <1>4 DEF ToSet, Retained
  <2> HIDE DEF blocks, L
  <2>3. ASSUME NEW p \in 1 .. L - 1
        PROVE  p + 1 \in 1 .. L /\ blocks[p + 1] \cap B = {}
    BY <1>1, <1>4 DEF BlocksOK
  <2>4. ASSUME NEW p \in 1 .. L, p # 1
        PROVE  p - 1 \in 1 .. L - 1 /\ (p - 1) + 1 = p
    BY <1>4, <2>4
  <2>5. B \subseteq Retained(s)
    BY <1>4, <2>2
  <2>6. ASSUME NEW t \in UNION ToSet(Tail(blocks))
        PROVE  t \in Retained(s) /\ t \notin B
    BY <2>1, <2>2, <2>3, <2>6
  <2>7. ASSUME NEW t \in Retained(s), t \notin B
        PROVE  t \in UNION ToSet(Tail(blocks))
    <3>1. PICK p \in 1 .. L : t \in blocks[p]
      BY <2>2
    <3>2. p # 1
      BY <1>4, <2>7, <3>1
    <3> QED BY <2>1, <2>4, <3>1, <3>2
  <2> QED BY <2>5, <2>6, <2>7
<1>7. NotesAre(U, O, Nodes(g), UNION ToSet(Tail(blocks)))
  <2>1. Nodes(g) \ B = Nodes(g)
    BY <1>6, LiveDisjoint
  <2>2. PICK I : I = Nodes(g)
    OBVIOUS
  <2>3. NotesAre(s.nullifiers, s.output_notes, I, Retained(s)) /\ B \subseteq I \cup Retained(s)
    BY <1>1, <1>6, <2>2
  <2>4. NotesAre(U, O, I \ B, Retained(s) \ B)
    BY <2>3, NotesRemove
  <2> QED BY <1>6, <2>1, <2>2, <2>4
<1>8. CASE Len(blocks) <= num_retained_blocks
  <2>1. prune_block(s) = s
    BY <1>8 DEF prune_block
  <2> QED BY <1>2, <1>3, <2>1
<1>9. CASE ~(Len(blocks) <= num_retained_blocks)
  <2>1. prune_block(s) = [s EXCEPT !.committed_blocks = Tail(blocks), !.accounts = accounts,
                                   !.nullifiers = U, !.output_notes = O]
    BY <1>1, <1>2, <1>9 DEF prune_block, InflightStates
  <2>2. prune_block(s) =
          [accounts |-> accounts, nullifiers |-> U, output_notes |-> O,
           transaction_deltas |-> Nodes(g), committed_blocks |-> Tail(blocks), chain_tip |-> s.chain_tip]
    <3> HIDE DEF accounts, U, O
    <3> QED BY <1>1, <2>1 DEF InflightStates
  <2>3. StateParts(accounts, U, O, Tail(blocks), s.chain_tip, g)
    <3>1. accounts \in [Account -> Accounts] /\ \A a \in Account : ChainOK(accounts[a], a, Tail(blocks), g)
      BY <1>3
    <3>2. U \subseteq Note /\ DOMAIN O \subseteq Note /\ O \in [DOMAIN O -> Tx \cup {Committed}]
      BY <1>1
    <3> HIDE DEF accounts, U, O, blocks
    <3> QED BY <1>1, <1>4, <1>5, <1>7, <3>1, <3>2 DEF StateParts
  <2>4. StateOK(prune_block(s), g) /\ prune_block(s).chain_tip = s.chain_tip
    <3>1. PICK new, kept, tip : new = prune_block(s) /\ kept = Tail(blocks) /\ tip = s.chain_tip
      OBVIOUS
    <3> HIDE DEF accounts, U, O, blocks
    <3>2. StateParts(accounts, U, O, kept, tip, g)
      BY <2>3, <3>1
    <3>3. new = [accounts |-> accounts, nullifiers |-> U, output_notes |-> O,
                 transaction_deltas |-> Nodes(g), committed_blocks |-> kept, chain_tip |-> tip]
      BY <2>2, <3>1
    <3>4. StateOK(new, g) /\ new.chain_tip = tip
      BY <3>2, <3>3, StateMade
    <3> QED BY <3>1, <3>4
  <2> QED BY <1>2, <1>3, <2>4
<1> QED BY <1>8, <1>9

(* Marking transactions as committed, with all they depend on.              *)
LEMMA StateMark ==
    ASSUME NEW s, NEW g, StateOK(s, g), Nodes(g) \subseteq Tx,
           NEW C \in SUBSET Tx, IsFiniteSet(C), C \subseteq Nodes(g), \A k \in C : g.parents[k] \subseteq C,
           NEW h, Nodes(h) = Nodes(g) \ C, \A k \in Nodes(h) : h.parents[k] = g.parents[k] \ C
    PROVE  /\ \A a \in Account : Updates(C, a) <= uncommitted_count(s.accounts[a])
           /\ \A t \in C : output_note_ids(t) \subseteq DOMAIN s.output_notes
           /\ StateOK(MarkCommitted(s, C), h)
           /\ MarkCommitted(s, C).chain_tip = s.chain_tip
           /\ MarkCommitted(s, C).committed_blocks # <<>>
<1> DEFINE blocks == s.committed_blocks
<1> DEFINE all == Append(blocks, C)
<1>1. /\ s \in InflightStates /\ s.accounts \in [Account -> Accounts] /\ s.nullifiers \subseteq Note
      /\ DOMAIN s.output_notes \subseteq Note
      /\ s.output_notes \in [DOMAIN s.output_notes -> Tx \cup {Committed}]
      /\ blocks \in Seq(SUBSET Tx) /\ s.chain_tip \in Nat
      /\ s.transaction_deltas = Nodes(g) /\ BlocksOK(blocks)
      /\ \A b \in Account : ChainOK(s.accounts[b], b, blocks, g)
      /\ NotesAre(s.nullifiers, s.output_notes, Nodes(g), Retained(s))
  BY StateFacts
<1>2. ASSUME NEW a \in Account
      PROVE  /\ Updates(C, a) <= uncommitted_count(s.accounts[a])
             /\ account_commit(s.accounts[a], Updates(C, a)) \in Accounts
             /\ ChainOK(account_commit(s.accounts[a], Updates(C, a)), a, all, h)
  <2>1. PICK acc \in Accounts : acc = s.accounts[a]
    BY <1>1
  <2>2. ChainOK(acc, a, blocks, g)
    BY <1>1, <2>1
  <2> HIDE DEF blocks
  <2>3. /\ Updates(C, a) <= uncommitted_count(acc)
        /\ account_commit(acc, Updates(C, a)) \in Accounts
        /\ ChainOK(account_commit(acc, Updates(C, a)), a, Append(blocks, C), h)
    BY <1>1, <2>2, ChainCommit
  <2> QED BY <2>1, <2>3
<1> DEFINE notes == UNION {output_note_ids(t) : t \in C}
<1> DEFINE accounts == [a \in Account |-> account_commit(s.accounts[a], Updates(C, a))]
<1> DEFINE U == s.nullifiers
<1> DEFINE O == [n \in DOMAIN s.output_notes |-> IF n \in notes THEN Committed ELSE s.output_notes[n]]
<1> DEFINE L == Len(blocks)
<1>3. /\ L \in Nat /\ DOMAIN blocks = 1 .. L
      /\ all \in Seq(SUBSET Tx) /\ all # <<>> /\ DOMAIN all = 1 .. L + 1
      /\ all[L + 1] = C /\ \A p \in 1 .. L : all[p] = blocks[p]
      /\ UNION ToSet(all) = Retained(s) \cup C
  <2>1. ToSet(all) = ToSet(blocks) \cup {C}
    BY <1>1, AppendElements
  <2>2. UNION ToSet(all) = Retained(s) \cup C
    BY <2>1 DEF Retained
  <2>3. L \in Nat /\ DOMAIN blocks = 1 .. L
    BY <1>1, LenProperties
  <2> HIDE DEF blocks
  <2>4. /\ all \in Seq(SUBSET Tx) /\ all # <<>> /\ Len(all) = L + 1 /\ all[L + 1] = C
        /\ \A p \in 1 .. L : all[p] = blocks[p]
    BY <1>1, AppendProperties
  <2>5. DOMAIN all = 1 .. L + 1
    BY <2>4, LenProperties
  <2> QED BY <2>2, <2>3, <2>4, <2>5
<1>4. \A p \in 1 .. L : blocks[p] \cap C = {}
  <2>1. \A p \in 1 .. L : blocks[p] \subseteq Retained(s)
    BY <1>3 DEF Retained, ToSet
  <2> QED BY <2>1, LiveDisjoint
<1>5. BlocksOK(all)
  <2> HIDE DEF blocks, all, L
  <2>1. \A p \in 1 .. L + 1 : p \in 1 .. L \/ p = L + 1
    BY <1>3
  <2>2. \A p \in DOMAIN all : IsFiniteSet(all[p])
    BY <1>1, <1>3, <2>1 DEF BlocksOK
  <2>3. ASSUME NEW p \in 1 .. L + 1, NEW q \in 1 .. L + 1, p # q
        PROVE  all[p] \cap all[q] = {}
    <3>1. CASE p \in 1 .. L /\ q \in 1 .. L
      BY <1>1, <1>3, <2>3, <3>1 DEF BlocksOK
    <3>2. CASE p \in 1 .. L /\ q = L + 1
      BY <1>3, <1>4, <3>2
    <3>3. CASE p = L + 1 /\ q \in 1 .. L
      BY <1>3, <1>4, <3>3
    <3> QED BY <2>1, <2>3, <3>1, <3>2, <3>3
  <2> QED BY <1>3, <2>2, <2>3 DEF BlocksOK
<1>6. NotesAre(U, O, Nodes(h), UNION ToSet(all))
  <2>1. PICK I : I = Nodes(g)
    OBVIOUS
  <2>2. NotesAre(s.nullifiers, s.output_notes, I, Retained(s)) /\ C \subseteq I
    BY <1>1, <2>1
  <2>3. NotesAre(U, O, I \ C, Retained(s) \cup C)
    BY <2>2, NotesCommit
  <2> QED BY <1>3, <2>1, <2>3
<1>7. \A t \in C : output_note_ids(t) \subseteq DOMAIN s.output_notes
  BY <1>1 DEF NotesAre
<1>8. MarkCommitted(s, C) =
        [accounts |-> accounts, nullifiers |-> U, output_notes |-> O,
         transaction_deltas |-> Nodes(h), committed_blocks |-> all, chain_tip |-> s.chain_tip]
  <2>1. MarkCommitted(s, C) =
          [s EXCEPT !.transaction_deltas = Nodes(g) \ C, !.accounts = accounts,
                    !.output_notes = O, !.committed_blocks = all]
    BY <1>1 DEF MarkCommitted, InflightStates
  <2> HIDE DEF accounts, O, all
  <2> QED BY <1>1, <2>1 DEF InflightStates
<1>9. StateParts(accounts, U, O, all, s.chain_tip, h)
  <2>1. accounts \in [Account -> Accounts] /\ \A a \in Account : ChainOK(accounts[a], a, all, h)
    BY <1>2
  <2>2. U \subseteq Note /\ DOMAIN O \subseteq Note /\ O \in [DOMAIN O -> Tx \cup {Committed}]
    BY <1>1
  <2> HIDE DEF accounts, U, O, blocks, all
  <2> QED BY <1>1, <1>3, <1>5, <1>6, <2>1, <2>2 DEF StateParts
<1> HIDE DEF accounts, U, O, blocks, all
<1>10. PICK new, tip : new = MarkCommitted(s, C) /\ tip = s.chain_tip
  OBVIOUS
<1>11. StateOK(new, h) /\ new.chain_tip = tip /\ new.committed_blocks = all
  <2>0. PICK A, V, P, B : A = accounts /\ V = U /\ P = O /\ B = all
    OBVIOUS
  <2>1. StateParts(A, V, P, B, tip, h)
    BY <1>9, <1>10, <2>0
  <2>2. new = [accounts |-> A, nullifiers |-> V, output_notes |-> P,
               transaction_deltas |-> Nodes(h), committed_blocks |-> B, chain_tip |-> tip]
    BY <1>8, <1>10, <2>0
  <2>3. StateOK(new, h)
    BY <2>1, <2>2, StateMade
  <2> QED BY <2>0, <2>2, <2>3
<1> QED BY <1>2, <1>3, <1>7, <1>10, <1>11

(* commit_block of the state: its asserts hold and it fits the graph        *)
(* without the committed transactions.                                      *)
LEMMA StateCommit ==
    ASSUME NEW s, NEW g, StateOK(s, g), Nodes(g) \subseteq Tx,
           NEW C \in SUBSET Tx, IsFiniteSet(C), C \subseteq Nodes(g), \A k \in C : g.parents[k] \subseteq C,
           NEW h, Nodes(h) = Nodes(g) \ C, \A k \in Nodes(h) : h.parents[k] = g.parents[k] \ C
    PROVE  /\ state_commit_block_expects(s, C)
           /\ StateOK(state_commit_block(s, C), h)
           /\ state_commit_block(s, C).chain_tip = s.chain_tip + 1
<1>1. PICK s1 : s1 = MarkCommitted(s, C)
  OBVIOUS
<1>2. /\ \A a \in Account : Updates(C, a) <= uncommitted_count(s.accounts[a])
      /\ \A t \in C : output_note_ids(t) \subseteq DOMAIN s.output_notes
      /\ StateOK(s1, h) /\ s1.chain_tip = s.chain_tip /\ s1.committed_blocks # <<>>
  BY <1>1, StateMark
<1>3. Nodes(h) \subseteq Tx
  OBVIOUS
<1>4. /\ \A a \in Account : Updates(Head(s1.committed_blocks), a) <= s1.accounts[a].committed
      /\ StateOK(prune_block(s1), h) /\ prune_block(s1).chain_tip = s1.chain_tip
  BY <1>2, <1>3, StatePrune
<1>5. s.transaction_deltas = Nodes(g)
  BY StateFacts
<1>6. state_commit_block_expects(s, C)
  BY <1>1, <1>2, <1>4, <1>5 DEF state_commit_block_expects
<1>7. PICK s2 : s2 = prune_block(s1)
  OBVIOUS
<1>8. StateOK(s2, h) /\ s2.chain_tip = s.chain_tip /\ s2 \in InflightStates /\ s2.chain_tip \in Nat
  <2>1. StateOK(s2, h)
    BY <1>4, <1>7
  <2> QED BY <1>2, <1>4, <1>7, <2>1, StateFacts
<1>9. PICK s3 : s3 = state_commit_block(s, C)
  OBVIOUS
<1>10. s3 = [s2 EXCEPT !.chain_tip = s2.chain_tip + 1]
  BY <1>1, <1>7, <1>9 DEF state_commit_block
<1>11. /\ s3 \in InflightStates /\ s3.chain_tip = s.chain_tip + 1
       /\ s3.accounts = s2.accounts /\ s3.nullifiers = s2.nullifiers /\ s3.output_notes = s2.output_notes
       /\ s3.transaction_deltas = s2.transaction_deltas /\ s3.committed_blocks = s2.committed_blocks
  BY <1>8, <1>10 DEF InflightStates
<1>12. StateOK(s3, h)
  BY <1>8, <1>11 DEF StateOK, NotesOK, Retained
<1> QED BY <1>6, <1>9, <1>11, <1>12

-----------------------------------------------------------------------------
(* THE METHODS OF THE MEMPOOL                                               *)

(* What the builders see of a mempool.                                      *)
SameBuilds(m, n) ==
    /\ n.batches.batches = m.batches.batches
    /\ n.batches.inner.pending = m.batches.inner.pending
    /\ n.batches.inner.processed = m.batches.inner.processed
    /\ n.block_in_progress = m.block_in_progress

(* The tips of its parts.                                                   *)
SameTips(m, n) ==
    /\ n.chain_tip = m.chain_tip
    /\ n.subscription.chain_tip = m.subscription.chain_tip

(* A call that leaves the transactions, their edges, the inflight state and *)
(* the subscription alone.                                                  *)
SameContents(m, n) ==
    /\ Nodes(n.transactions) = Nodes(m.transactions)
    /\ n.transactions.parents = m.transactions.parents
    /\ n.state = m.state
    /\ n.subscription = m.subscription

(* A call that adds transaction t, which depends on the parents.            *)
Adds(m, n, t, parents) ==
    /\ t \notin Nodes(m.transactions)
    /\ Nodes(n.transactions) = Nodes(m.transactions) \cup {t}
    /\ n.transactions.parents[t] = parents
    /\ \A k \in Nodes(m.transactions) : n.transactions.parents[k] = m.transactions.parents[k]
    /\ n.state.committed_blocks = m.state.committed_blocks
    /\ n.subscription = transaction_added(m.subscription, t)

(* A call that removes the transactions R, with all that depend on them.    *)
Drops(m, n, R) ==
    /\ R \subseteq Nodes(m.transactions)
    /\ \A c \in Nodes(m.transactions) : m.transactions.parents[c] \cap R # {} => c \in R
    /\ Nodes(n.transactions) = Nodes(m.transactions) \ R
    /\ \A k \in Nodes(n.transactions) : n.transactions.parents[k] = m.transactions.parents[k]
    /\ n.state.committed_blocks = m.state.committed_blocks
    /\ n.subscription = txs_reverted(m.subscription, R)

(* The committed blocks that are retained of these.                         *)
Kept(blocks) == IF Len(blocks) <= num_retained_blocks THEN blocks ELSE Tail(blocks)

(* A call that commits the transactions C as block k and removes R.         *)
Retires(m, n, k, C, R) ==
    /\ C \subseteq Nodes(m.transactions)
    /\ \A c \in C : m.transactions.parents[c] \subseteq C
    /\ R \subseteq Nodes(m.transactions) \ C
    /\ \A c \in Nodes(m.transactions) \ C : m.transactions.parents[c] \cap R # {} => c \in R
    /\ Nodes(n.transactions) = Nodes(m.transactions) \ (C \cup R)
    /\ \A c \in Nodes(n.transactions) : n.transactions.parents[c] = m.transactions.parents[c] \ C
    /\ n.state.committed_blocks = Kept(Append(m.state.committed_blocks, C))
    /\ n.subscription = txs_reverted(block_committed(m.subscription, k, C), R)

(* The transactions of a consistent mempool.                                *)
LEMMA TrackedAreTxs ==
    ASSUME NEW g, GraphOK(g)
    PROVE  Nodes(g) \subseteq Tx /\ Nodes(g) = g.vertices /\ g.processed \subseteq Nodes(g)
           /\ WellFormed(g, Tx) /\ InOrder(g)
BY DEF GraphOK, WellFormed, GraphType, Nodes

(* A panic leaves the mempool consistent: no call that fails an expect has  *)
(* changed anything yet.                                                    *)
LEMMA PanicOK ==
    ASSUME NEW m, Consistent(m)
    PROVE  /\ Consistent([m EXCEPT !.panicked = TRUE])
           /\ [m EXCEPT !.panicked = TRUE].panicked
           /\ SameBuilds(m, [m EXCEPT !.panicked = TRUE])
           /\ SameTips(m, [m EXCEPT !.panicked = TRUE])
           /\ SameContents(m, [m EXCEPT !.panicked = TRUE])
<1>1. PICK n : n = [m EXCEPT !.panicked = TRUE]
  OBVIOUS
<1>2. IsMempool(m)
  BY DEF Consistent, Sound
<1>3. /\ IsMempool(n) /\ n.transactions = m.transactions /\ n.batches = m.batches /\ n.state = m.state
      /\ n.expirations = m.expirations /\ n.chain_tip = m.chain_tip
      /\ n.block_in_progress = m.block_in_progress /\ n.subscription = m.subscription /\ n.panicked = TRUE
  BY <1>1, <1>2 DEF IsMempool, MempoolFields
<1>4. Consistent(n)
  BY <1>3 DEF Consistent, Sound
<1> QED BY <1>1, <1>3, <1>4 DEF SameBuilds, SameTips, SameContents

(* add_transaction, for a transaction that was verified.                    *)
LEMMA AddOK ==
    ASSUME NEW m, Consistent(m), NEW t \in Tx, NEW auth, add_transaction_result(m, t, auth) = "Ok"
    PROVE  LET n == add_transaction(m, t, auth)
           IN  /\ Consistent(n) /\ n.panicked = m.panicked
               /\ SameBuilds(m, n) /\ SameTips(m, n)
               /\ Nodes(n.transactions) = Nodes(m.transactions) \cup {t}
               /\ Adds(m, n, t, insert_transaction_parents(m.state, t, auth))
<1> DEFINE g == m.transactions
<1> DEFINE s == m.state
<1> DEFINE p == m.subscription
<1>1. /\ IsMempool(m) /\ GraphOK(g) /\ BatchesOK(m.batches, g) /\ StateOK(s, g) /\ ProviderOK(p, g)
      /\ m.expirations = Nodes(g) /\ m.chain_tip = s.chain_tip
      /\ \A u \in Nodes(g) : expires_at(u) > m.chain_tip
  BY DEF Consistent, Sound
<1>2. verify_transaction(s, t, auth) = "Ok"
  BY DEF add_transaction_result
<1>3. t \notin Nodes(g)
  <2> HIDE DEF s, g
  <2> QED BY <1>1, <1>2, NotLive
<1>4. PICK parents : parents = insert_transaction_parents(s, t, auth)
  OBVIOUS
<1>5. parents \subseteq Nodes(g)
  <2> HIDE DEF s, g
  <2> QED BY <1>1, <1>2, <1>4, ParentsKnown
<1>6. PICK i : i = insert_pending(g, t, parents)
  OBVIOUS
<1>7. PICK h : h = promote_pending(i, t)
  OBVIOUS
<1>8. /\ insert_pending_result(g, t, parents) = "Ok" /\ promote_pending_result(i, t) = "Ok"
      /\ GraphOK(h) /\ Nodes(h) = Nodes(g) \cup {t} /\ h.processed = g.processed
      /\ h.parents = [k \in Nodes(g) \cup {t} |-> IF k = t THEN parents ELSE g.parents[k]]
  <2> HIDE DEF g
  <2> QED BY <1>1, <1>3, <1>5, <1>6, <1>7, GraphInsert
<1>9. \A k \in Nodes(g) : h.parents[k] = g.parents[k]
  BY <1>3, <1>8
<1>10. h.parents[t] = parents
  BY <1>8
<1>11. Nodes(g) \subseteq Tx /\ g.processed \subseteq Nodes(g)
  <2> HIDE DEF g
  <2> QED BY <1>1, TrackedAreTxs
<1>12. BatchesOK(m.batches, h)
  <2>1. \A k \in g.processed : h.parents[k] = g.parents[k]
    BY <1>9, <1>11
  <2>2. PICK bs : bs = m.batches
    OBVIOUS
  <2>3. BatchesOK(bs, g)
    BY <1>1, <2>2
  <2>4. BatchesOK(bs, h)
    <3> HIDE DEF g
    <3> QED BY <1>8, <2>1, <2>3, BatchesFrame
  <2> QED BY <2>2, <2>4
<1>13. PICK s1 : s1 = insert_transaction(s, t)
  OBVIOUS
<1>14. StateOK(s1, h) /\ s1.chain_tip = s.chain_tip
  <2> HIDE DEF s, g
  <2> QED BY <1>1, <1>2, <1>4, <1>8, <1>9, <1>10, <1>11, <1>13, StateInsert
<1>15. PICK p1 : p1 = transaction_added(p, t)
  OBVIOUS
<1>16. ProviderOK(p1, h) /\ p1.chain_tip = p.chain_tip /\ t \notin ToSet(p.inflight_txs)
  <2> HIDE DEF p, g
  <2>1. p \in Providers /\ ToSet(p.inflight_txs) = Nodes(g) /\ IsInjective(p.inflight_txs)
    BY <1>1 DEF ProviderOK
  <2>2. /\ p1 \in Providers /\ ToSet(p1.inflight_txs) = ToSet(p.inflight_txs) \cup {t}
        /\ IsInjective(p1.inflight_txs) /\ p1.chain_tip = p.chain_tip
    BY <1>3, <1>15, <2>1, TransactionAddedOK
  <2> QED BY <1>3, <1>8, <2>1, <2>2 DEF ProviderOK
<1>17. PICK n : n = add_transaction(m, t, auth)
  OBVIOUS
<1>18. PICK m1 : m1 = [m EXCEPT !.state = s1, !.subscription = p1, !.expirations = Nodes(g) \cup {t}]
  OBVIOUS
<1>19. /\ IsMempool(m1) /\ m1.transactions = g /\ m1.batches = m.batches /\ m1.state = s1
       /\ m1.expirations = Nodes(h) /\ m1.chain_tip = m.chain_tip
       /\ m1.block_in_progress = m.block_in_progress /\ m1.subscription = p1 /\ m1.panicked = m.panicked
  BY <1>1, <1>8, <1>18 DEF IsMempool, MempoolFields
<1>20. n = [m1 EXCEPT !.transactions = h]
  <2>1. n = transactions_insert(m1, t, parents)
    <3>1. m1 = [m EXCEPT !.state = insert_transaction(@, t), !.subscription = transaction_added(@, t),
                         !.expirations = @ \cup {t}]
      BY <1>1, <1>13, <1>15, <1>18
    <3> QED BY <1>4, <1>16, <1>17, <3>1 DEF add_transaction, expect
  <2> QED BY <1>6, <1>7, <1>8, <1>19, <2>1 DEF transactions_insert, expect
<1>21. /\ IsMempool(n) /\ n.transactions = h /\ n.batches = m.batches /\ n.state = s1
       /\ n.expirations = Nodes(h) /\ n.chain_tip = m.chain_tip
       /\ n.block_in_progress = m.block_in_progress /\ n.subscription = p1 /\ n.panicked = m.panicked
  BY <1>19, <1>20 DEF IsMempool, MempoolFields
<1>22. \A u \in Nodes(h) : expires_at(u) > m.chain_tip
  <2>1. expires_at(t) > m.chain_tip
    <3>1. ~(expires_at(t) <= s.chain_tip + expiration_slack)
      BY <1>2, Verified
    <3>2. s.chain_tip \in Nat /\ expires_at(t) \in Nat /\ expiration_slack \in Nat
      BY <1>1, StateFacts, TxFacts, InflightStateAssumption
    <3> QED BY <1>1, <3>1, <3>2
  <2> QED BY <1>1, <1>8, <2>1
<1>23. Sound(n)
  BY <1>1, <1>8, <1>12, <1>14, <1>16, <1>21 DEF Sound, Consistent
<1>24. Consistent(n)
  BY <1>21, <1>22, <1>23 DEF Consistent
<1>25. s1.committed_blocks = s.committed_blocks
  BY <1>1, <1>13 DEF insert_transaction, StateOK, InflightStates
<1>26. Adds(m, n, t, insert_transaction_parents(m.state, t, auth))
  BY <1>3, <1>4, <1>8, <1>9, <1>10, <1>15, <1>21, <1>25 DEF Adds
<1> QED BY <1>8, <1>16, <1>17, <1>21, <1>24, <1>26 DEF SameBuilds, SameTips

(* select_batch: the new batch awaits its proof.                            *)
LEMMA SelectBatchOK ==
    ASSUME NEW m, Consistent(m), NEW b, b = select_batch_result(m), b # <<>>
    PROVE  LET n == select_batch(m)
           IN  /\ Consistent(n) /\ n.panicked = m.panicked
               /\ b \in Batch /\ b \notin m.batches.batches
               /\ n.batches.batches = m.batches.batches \cup {b}
               /\ n.batches.inner.pending = m.batches.inner.pending \cup {b}
               /\ n.batches.inner.processed = m.batches.inner.processed
               /\ n.block_in_progress = m.block_in_progress
               /\ SameTips(m, n)
               /\ Nodes(n.transactions) = Nodes(m.transactions)
               /\ SameContents(m, n)
<1> DEFINE g == m.transactions
<1>1. /\ IsMempool(m) /\ GraphOK(g) /\ BatchesOK(m.batches, g) /\ StateOK(m.state, g)
      /\ ProviderOK(m.subscription, g)
      /\ m.expirations = Nodes(g) /\ m.chain_tip = m.state.chain_tip
      /\ \A u \in Nodes(g) : expires_at(u) > m.chain_tip
  BY DEF Consistent, Sound
<1>2. PICK k : k = transactions_select_batch(g)
  OBVIOUS
<1>3. Picked(g, k)
  <2> HIDE DEF g
  <2> QED BY <1>1, <1>2, SelectOK
<1>4. PICK h : h = k.g
  OBVIOUS
<1>5. /\ WellFormed(h, Tx) /\ h.pending = {} /\ h.vertices = g.vertices /\ h.parents = g.parents
      /\ b \in Seq(Tx) /\ h.processed = g.processed \cup ToSet(b) /\ ToSet(b) \cap g.processed = {}
      /\ k.parents = UNION {g.parents[t] : t \in ToSet(b)} /\ k.batch = b
  BY <1>2, <1>3, <1>4 DEF Picked, select_batch_result
<1>6. b \in Batch
  BY <1>5 DEF Batch
<1>7. Nodes(h) = Nodes(g) /\ GraphOK(h)
  BY <1>1, <1>5 DEF GraphOK, Nodes
<1>8. InOrder(g) /\ InOrder(h) /\ g.processed \subseteq Nodes(g) /\ h.processed \subseteq Nodes(h)
  <2> HIDE DEF g
  <2> QED BY <1>1, <1>7, TrackedAreTxs
<1>9. PICK bs : bs = m.batches
  OBVIOUS
<1>10. PICK r : r = batches_insert(bs, b, k.parents)
  OBVIOUS
<1>11. /\ batches_insert_expects(bs, b, k.parents)
       /\ BatchesOK(r, h)
       /\ b \notin bs.batches
       /\ r.batches = bs.batches \cup {b}
       /\ r.inner.pending = bs.inner.pending \cup {b}
       /\ r.inner.processed = bs.inner.processed
  <2>1. BatchesOK(bs, g)
    BY <1>1, <1>9
  <2> HIDE DEF g
  <2>2. PICK q : q = UNION {g.parents[t] : t \in ToSet(b)}
    OBVIOUS
  <2>3. k.parents = q
    BY <1>5, <2>2
  <2> QED BY <1>5, <1>6, <1>8, <1>10, <2>1, <2>2, <2>3, BatchInserted
<1>12. StateOK(m.state, h)
  <2>1. PICK s : s = m.state
    OBVIOUS
  <2>2. StateOK(s, g)
    BY <1>1, <2>1
  <2>3. \A a \in Account : ChainOK(s.accounts[a], a, s.committed_blocks, h)
    <3>1. \A a \in Account : ChainOK(s.accounts[a], a, s.committed_blocks, g)
      BY <2>2, StateFacts
    <3> HIDE DEF g
    <3> QED BY <1>5, <1>7, <3>1 DEF ChainOK
  <2>4. StateOK(s, h)
    BY <1>7, <2>2, <2>3 DEF StateOK, NotesOK
  <2> QED BY <2>1, <2>4
<1>13. ProviderOK(m.subscription, h)
  BY <1>1, <1>7 DEF ProviderOK
<1>14. PICK n : n = select_batch(m)
  OBVIOUS
<1>15. n = [[m EXCEPT !.transactions = h] EXCEPT !.batches = batches_insert(@, b, k.parents)]
  BY <1>2, <1>4, <1>5, <1>9, <1>11, <1>14 DEF select_batch, expect
<1>16. /\ IsMempool(n) /\ n.transactions = h /\ n.batches = r /\ n.state = m.state
       /\ n.expirations = m.expirations /\ n.chain_tip = m.chain_tip
       /\ n.block_in_progress = m.block_in_progress /\ n.subscription = m.subscription /\ n.panicked = m.panicked
  BY <1>1, <1>9, <1>10, <1>15 DEF IsMempool, MempoolFields
<1>17. Sound(n)
  BY <1>1, <1>7, <1>11, <1>12, <1>13, <1>16 DEF Sound, Consistent
<1>18. Consistent(n)
  BY <1>1, <1>7, <1>16, <1>17 DEF Consistent
<1>19. SameContents(m, n)
  BY <1>5, <1>7, <1>16 DEF SameContents
<1> QED BY <1>6, <1>7, <1>9, <1>11, <1>14, <1>16, <1>18, <1>19 DEF SameTips

(* commit_batch, which panics for a batch that is proven already.           *)
LEMMA CommitBatchOK ==
    ASSUME NEW m, Consistent(m), NEW b
    PROVE  LET n == commit_batch(m, b)
           IN  /\ Consistent(n) /\ SameTips(m, n)
               /\ b \notin m.batches.batches => n = m
               /\ b \in m.batches.inner.pending =>
                    /\ n.panicked = m.panicked
                    /\ n.batches.batches = m.batches.batches
                    /\ n.batches.inner.pending = m.batches.inner.pending \ {b}
                    /\ n.batches.inner.processed = m.batches.inner.processed
               /\ n.block_in_progress = m.block_in_progress
               /\ n.transactions = m.transactions
               /\ n.batches.batches = m.batches.batches
               /\ n.batches.inner.processed = m.batches.inner.processed
               /\ SameContents(m, n)
<1> DEFINE g == m.transactions
<1>0. PICK n : n = commit_batch(m, b)
  OBVIOUS
<1>1. /\ IsMempool(m) /\ BatchesOK(m.batches, g)
  BY DEF Consistent, Sound
<1>2. PICK bs : bs = m.batches
  OBVIOUS
<1>3. PICK in : in = bs.inner
  OBVIOUS
<1>4. BatchesOK(bs, g) /\ WellFormed(in, Batch) /\ Nodes(in) = bs.batches
  BY <1>1, <1>2, <1>3 DEF BatchesOK
<1>5. CASE b \notin m.batches.batches
  <2>1. n = m
    BY <1>0, <1>5 DEF commit_batch
  <2>2. b \notin m.batches.inner.pending
    BY <1>2, <1>3, <1>4, <1>5 DEF Nodes
  <2> QED BY <1>0, <2>1, <2>2 DEF SameTips, SameContents
<1>6. CASE b \in m.batches.batches /\ b \notin in.pending
  <2>1. n = [m EXCEPT !.panicked = TRUE]
    BY <1>0, <1>2, <1>3, <1>6 DEF commit_batch, expect, promote_pending_result
  <2>2. /\ n.transactions = m.transactions /\ n.block_in_progress = m.block_in_progress
        /\ n.batches = m.batches
    BY <1>1, <2>1 DEF IsMempool, MempoolFields
  <2>3. Consistent(n) /\ SameTips(m, n) /\ SameContents(m, n)
    BY <2>1, PanicOK
  <2> QED BY <1>0, <1>2, <1>3, <1>6, <2>2, <2>3
<1>7. CASE b \in m.batches.batches /\ b \in in.pending
  <2>1. PICK h : h = promote_pending(in, b)
    OBVIOUS
  <2>2. /\ try_make_root_asserts(Promoted(in, b), {b})
        /\ WellFormed(h, Batch) /\ h.pending = in.pending \ {b} /\ h.vertices = in.vertices \cup {b}
        /\ h.parents = in.parents /\ h.processed = in.processed
    BY <1>4, <1>7, <2>1, PromotePendingOK
  <2>3. Nodes(h) = Nodes(in)
    BY <1>7, <2>2 DEF Nodes
  <2>4. PICK r : r = [bs EXCEPT !.inner = h]
    OBVIOUS
  <2>5. BatchesOK(r, g) /\ r.inner = h /\ r.batches = bs.batches
    <3> HIDE DEF g
    <3>1. Nodes(h) = Nodes(bs.inner) /\ h.parents = bs.inner.parents
      BY <1>3, <2>2, <2>3
    <3> QED BY <1>4, <2>2, <2>4, <3>1, InnerFrame
  <2>6. n = [m EXCEPT !.batches = r]
    <3>1. promote_pending_result(in, b) = "Ok"
      BY <1>7, <2>2 DEF promote_pending_result
    <3>2. n = [m EXCEPT !.batches.inner = promote_pending(@, b)]
      BY <1>0, <1>2, <1>3, <1>7, <3>1 DEF commit_batch, expect
    <3> QED BY <1>1, <1>2, <1>3, <2>1, <2>4, <3>2 DEF IsMempool, MempoolFields
  <2>7. /\ IsMempool(n) /\ n.transactions = g /\ n.batches = r /\ n.state = m.state
        /\ n.expirations = m.expirations /\ n.chain_tip = m.chain_tip
        /\ n.block_in_progress = m.block_in_progress /\ n.subscription = m.subscription /\ n.panicked = m.panicked
    BY <1>1, <2>6 DEF IsMempool, MempoolFields
  <2>8. Consistent(n)
    BY <2>5, <2>7 DEF Sound, Consistent
  <2> QED BY <1>0, <1>2, <1>3, <1>7, <2>2, <2>5, <2>7, <2>8 DEF SameTips, SameContents
<1> QED BY <1>5, <1>6, <1>7

(* select_block: the block in progress is what was selected.                *)
LEMMA SelectBlockOK ==
    ASSUME NEW m, Consistent(m), NEW S \in BatchSelections(m.batches.inner)
    PROVE  LET n == select_block(m, S)
           IN  /\ Consistent(n) /\ SameTips(m, n)
               /\ n.transactions = m.transactions
               /\ SameContents(m, n)
               /\ n.batches.batches = m.batches.batches
               /\ m.block_in_progress = {} =>
                    /\ n.panicked = m.panicked
                    /\ n.batches.inner.pending = m.batches.inner.pending
                    /\ n.batches.inner.processed = m.batches.inner.processed \cup S
                    /\ n.block_in_progress = {S}
<1> DEFINE g == m.transactions
<1>0. PICK n : n = select_block(m, S)
  OBVIOUS
<1>1. /\ IsMempool(m) /\ BatchesOK(m.batches, g)
  BY DEF Consistent, Sound
<1>2. PICK bs : bs = m.batches
  OBVIOUS
<1>3. PICK in : in = bs.inner
  OBVIOUS
<1>4. BatchesOK(bs, g) /\ WellFormed(in, Batch) /\ Acyclic(in) /\ Nodes(in) = bs.batches /\ IsFiniteSet(bs.batches)
  BY <1>1, <1>2, <1>3 DEF BatchesOK
<1>5. /\ S \subseteq in.vertices \ in.processed
      /\ \A b \in S : in.parents[b] \ in.processed \subseteq S
  BY <1>2, <1>3 DEF BatchSelections, UnselectedParents
<1>6. S \subseteq bs.batches /\ IsFiniteSet(S) /\ S \subseteq Batch
  <2>1. in.vertices \subseteq Batch
    BY <1>4 DEF WellFormed, GraphType
  <2> QED BY <1>4, <1>5, <2>1, FS_Subset DEF Nodes
<1>7. CASE m.block_in_progress # {}
  <2>1. n = [m EXCEPT !.panicked = TRUE]
    BY <1>0, <1>7 DEF select_block, expect
  <2>2. n.transactions = m.transactions /\ n.batches = m.batches
    BY <1>1, <2>1 DEF IsMempool, MempoolFields
  <2>3. Consistent(n) /\ SameTips(m, n) /\ SameContents(m, n)
    BY <2>1, PanicOK
  <2> QED BY <1>0, <1>7, <2>2, <2>3
<1>8. CASE m.block_in_progress = {}
  <2>1. PICK h : h = ProcessRoots(in, S)
    OBVIOUS
  <2>2. /\ WellFormed(h, Batch) /\ h.pending = in.pending /\ h.vertices = in.vertices
        /\ h.parents = in.parents /\ h.processed = in.processed \cup S
    BY <1>4, <1>5, <1>6, <2>1, ProcessRootsOK
  <2>3. Nodes(h) = Nodes(in)
    BY <2>2 DEF Nodes
  <2>4. PICK r : r = [bs EXCEPT !.inner = h]
    OBVIOUS
  <2>5. BatchesOK(r, g) /\ r.inner = h /\ r.batches = bs.batches
    <3> HIDE DEF g
    <3>1. Nodes(h) = Nodes(bs.inner) /\ h.parents = bs.inner.parents
      BY <1>3, <2>2, <2>3
    <3> QED BY <1>4, <2>2, <2>4, <3>1, InnerFrame
  <2>6. n = [m EXCEPT !.batches = r, !.block_in_progress = {S}]
    <3>1. n = [m EXCEPT !.batches.inner = ProcessRoots(@, S), !.block_in_progress = {S}]
      BY <1>0, <1>8 DEF select_block, expect
    <3> QED BY <1>1, <1>2, <1>3, <2>1, <2>4, <3>1 DEF IsMempool, MempoolFields
  <2>7. /\ IsMempool(n) /\ n.transactions = g /\ n.batches = r /\ n.state = m.state
        /\ n.expirations = m.expirations /\ n.chain_tip = m.chain_tip
        /\ n.block_in_progress = {S} /\ n.subscription = m.subscription /\ n.panicked = m.panicked
    BY <1>1, <2>6 DEF IsMempool, MempoolFields
  <2>8. Consistent(n)
    BY <1>6, <2>5, <2>7 DEF Sound, Consistent
  <2> QED BY <1>0, <1>2, <1>3, <1>8, <2>2, <2>5, <2>7, <2>8 DEF SameTips, SameContents
<1> QED BY <1>7, <1>8

(* A state only depends on the transactions of the graph and their edges.   *)
LEMMA StateFrame ==
    ASSUME NEW s, NEW g, StateOK(s, g), NEW h, Nodes(h) = Nodes(g), h.parents = g.parents
    PROVE  StateOK(s, h)
<1>1. \A a \in Account : ChainOK(s.accounts[a], a, s.committed_blocks, g)
  BY StateFacts
<1>2. \A a \in Account : ChainOK(s.accounts[a], a, s.committed_blocks, h)
  BY <1>1 DEF ChainOK
<1> QED BY <1>2 DEF StateOK, NotesOK

(* No selected batch depends on one that is not selected.                   *)
LEMMA Unselected ==
    ASSUME NEW g, NEW bs, BatchesOK(bs, g), NEW ids, ids \subseteq bs.batches,
           ids \cap bs.inner.processed = {}
    PROVE  remove_batches_removed(bs, ids) \cap bs.inner.processed = {}
<1>1. PICK in : in = bs.inner
  OBVIOUS
<1>2. WellFormed(in, Batch) /\ Nodes(in) = bs.batches
  BY <1>1 DEF BatchesOK
<1> DEFINE T == Nodes(in) \ in.processed
<1>3. T \in SUBSET Nodes(in) /\ ids \subseteq T
  BY <1>1, <1>2
<1>4. \A c \in Nodes(in) : in.parents[c] \cap T # {} => c \in T
  BY <1>2 DEF WellFormed, InOrder
<1>5. PICK N : N = Nodes(in)
  OBVIOUS
<1>6. Reached(in, ids, N) \subseteq T
  <2>1. ids \subseteq Nodes(in) /\ N \subseteq Nodes(in) /\ \A c \in N : in.parents[c] \cap T # {} => c \in T
    BY <1>2, <1>4, <1>5
  <2> HIDE DEF T
  <2> QED BY <1>2, <1>3, <2>1, ReachedByParents
<1>7. remove_batches_removed(bs, ids) = Reached(in, ids, N)
  BY <1>1, <1>5 DEF remove_batches_removed, purge_subgraphs_removed
<1> QED BY <1>1, <1>6, <1>7

(* rollback_batch: the batch and those that depend on it are gone, their    *)
(* transactions wait again.                                                 *)
LEMMA RollbackBatchOK ==
    ASSUME NEW m, Consistent(m), NEW b
    PROVE  LET n == rollback_batch(m, b)
           IN  /\ Consistent(n) /\ n.panicked = m.panicked /\ SameTips(m, n)
               /\ Nodes(n.transactions) = Nodes(m.transactions)
               /\ SameContents(m, n)
               /\ n.batches.inner.processed \subseteq m.batches.inner.processed
               /\ n.block_in_progress = m.block_in_progress
               /\ b \notin m.batches.batches => n = m
               /\ b \in m.batches.batches =>
                    /\ b \notin n.batches.batches
                    /\ n.batches.batches \subseteq m.batches.batches
                    /\ n.batches.inner.pending = m.batches.inner.pending \cap n.batches.batches
                    /\ b \notin m.batches.inner.processed =>
                         n.batches.inner.processed = m.batches.inner.processed
<1> DEFINE g == m.transactions
<1>0. PICK n : n = rollback_batch(m, b)
  OBVIOUS
<1>1. /\ IsMempool(m) /\ GraphOK(g) /\ BatchesOK(m.batches, g) /\ StateOK(m.state, g)
      /\ ProviderOK(m.subscription, g)
  BY DEF Consistent, Sound
<1>2. CASE b \notin m.batches.batches
  <2>1. n = m
    BY <1>0, <1>2 DEF rollback_batch
  <2> QED BY <1>0, <1>2, <2>1 DEF SameTips, SameContents
<1>3. CASE b \in m.batches.batches
  <2>1. PICK bs : bs = m.batches
    OBVIOUS
  <2>2. PICK D, r, C : /\ D = remove_batches_removed(bs, {b}) /\ r = remove_batches(bs, {b}) /\ C = TxsOf(D)
    OBVIOUS
  <2>3. BatchesOK(bs, g) /\ {b} \subseteq bs.batches /\ InOrder(g)
    <3>1. InOrder(g)
      <4> HIDE DEF g
      <4> QED BY <1>1, TrackedAreTxs
    <3> QED BY <1>1, <1>3, <2>1, <3>1
  <2>4. /\ remove_batches_expects(bs, {b})
        /\ {b} \subseteq D /\ D \subseteq bs.batches
        /\ \A c \in g.processed : g.parents[c] \cap C # {} => c \in C
        /\ r.batches = bs.batches \ D
        /\ r.inner.pending = bs.inner.pending \ D
        /\ r.inner.processed = bs.inner.processed \ D
    <3> HIDE DEF g
    <3> QED BY <2>2, <2>3, BatchesRemoved
  <2>5. ASSUME NEW h, h.processed = g.processed \ C, \A t \in h.processed : h.parents[t] = g.parents[t]
        PROVE  BatchesOK(r, h)
    <3> HIDE DEF g
    <3> QED BY <2>2, <2>3, <2>5, BatchesRemoved
  <2>6. C \subseteq g.processed
    <3> HIDE DEF g
    <3> QED BY <2>2, <2>3, <2>4, IndexFacts
  <2>7. PICK h : h = revert_subgraphs(g, C)
    OBVIOUS
  <2>8. /\ revert_subgraphs_result(g, C) = "Ok" /\ GraphOK(h) /\ Nodes(h) = Nodes(g)
        /\ h.parents = g.parents /\ h.processed = g.processed \ C
    <3> HIDE DEF g
    <3> QED BY <1>1, <2>4, <2>6, <2>7, GraphRequeue
  <2>9. BatchesOK(r, h)
    BY <2>5, <2>8
  <2>10. StateOK(m.state, h)
    <3>1. PICK s : s = m.state
      OBVIOUS
    <3>2. StateOK(s, g)
      BY <1>1, <3>1
    <3>3. StateOK(s, h)
      <4> HIDE DEF g
      <4> QED BY <2>8, <3>2, StateFrame
    <3> QED BY <3>1, <3>3
  <2>11. ProviderOK(m.subscription, h)
    BY <1>1, <2>8 DEF ProviderOK
  <2>12. PICK m1 : m1 = [m EXCEPT !.batches = remove_batches(@, {b})]
    OBVIOUS
  <2>13. /\ IsMempool(m1) /\ m1.transactions = g /\ m1.batches = r /\ m1.state = m.state
         /\ m1.expirations = m.expirations /\ m1.chain_tip = m.chain_tip
         /\ m1.block_in_progress = m.block_in_progress /\ m1.subscription = m.subscription
         /\ m1.panicked = m.panicked
    BY <1>1, <2>1, <2>2, <2>12 DEF IsMempool, MempoolFields
  <2>14. n = requeue_transactions(m1, C)
    BY <1>0, <1>3, <2>1, <2>2, <2>4, <2>12 DEF rollback_batch, expect
  <2>15. n = [m1 EXCEPT !.transactions = h]
    BY <2>7, <2>8, <2>13, <2>14 DEF requeue_transactions, expect
  <2>16. /\ IsMempool(n) /\ n.transactions = h /\ n.batches = r /\ n.state = m.state
         /\ n.expirations = m.expirations /\ n.chain_tip = m.chain_tip
         /\ n.block_in_progress = m.block_in_progress /\ n.subscription = m.subscription
         /\ n.panicked = m.panicked
    BY <2>13, <2>15 DEF IsMempool, MempoolFields
  <2>17. Consistent(n)
    BY <2>8, <2>9, <2>10, <2>11, <2>16 DEF Sound, Consistent
  <2>18. b \notin bs.inner.processed => D \cap bs.inner.processed = {}
    <3>1. SUFFICES ASSUME b \notin bs.inner.processed
                   PROVE  D \cap bs.inner.processed = {}
      OBVIOUS
    <3>2. {b} \cap bs.inner.processed = {}
      BY <3>1
    <3> HIDE DEF g
    <3> QED BY <2>2, <2>3, <3>2, Unselected
  <2>19. r.inner.pending = bs.inner.pending \cap r.batches
    <3>1. bs.inner.pending \subseteq bs.batches
      BY <2>3 DEF BatchesOK, Nodes
    <3> QED BY <2>4, <3>1
  <2>20. SameContents(m, n) /\ n.batches.inner.processed \subseteq m.batches.inner.processed
    BY <2>1, <2>4, <2>8, <2>16 DEF SameContents
  <2> QED BY <1>0, <1>3, <2>1, <2>4, <2>8, <2>16, <2>17, <2>18, <2>19, <2>20 DEF SameTips
<1> QED BY <1>2, <1>3

(* revert_transactions: the transactions and all that depend on them are    *)
(* gone, their batches and those that depend on these are dissolved, and    *)
(* what is left of those waits again.                                       *)
LEMMA RevertOK ==
    ASSUME NEW m, Sound(m), NEW txs, txs \subseteq Nodes(m.transactions)
    PROVE  LET n == revert_transactions(m, txs)
               R == Reached(m.transactions, txs, Nodes(m.transactions))
           IN  /\ Sound(n) /\ n.panicked = m.panicked /\ SameTips(m, n)
               /\ txs \subseteq R
               /\ Nodes(n.transactions) = Nodes(m.transactions) \ R
               /\ n.block_in_progress = m.block_in_progress
               /\ n.batches.batches \subseteq m.batches.batches
               /\ n.batches.inner.pending = m.batches.inner.pending \cap n.batches.batches
               /\ n.batches.inner.processed = m.batches.inner.processed \cap n.batches.batches
               /\ \A b \in m.batches.batches : ToSet(b) \cap R # {} => b \notin n.batches.batches
               /\ Drops(m, n, R)
<1> DEFINE g == m.transactions
<1>0. PICK n, R : n = revert_transactions(m, txs) /\ R = Reached(g, txs, Nodes(g))
  OBVIOUS
<1>1. /\ IsMempool(m) /\ GraphOK(g) /\ BatchesOK(m.batches, g) /\ StateOK(m.state, g)
      /\ ProviderOK(m.subscription, g) /\ m.expirations = Nodes(g) /\ m.chain_tip = m.state.chain_tip
  BY DEF Sound
<1>2. /\ Nodes(g) \subseteq Tx /\ g.processed \subseteq Nodes(g) /\ WellFormed(g, Tx) /\ InOrder(g)
      /\ g.pending = {} /\ IsFiniteSet(Nodes(g)) /\ Nodes(g) = g.vertices
  <2> HIDE DEF g
  <2> QED BY <1>1, TrackedAreTxs DEF GraphOK
<1>3. /\ txs \subseteq R /\ R \subseteq Nodes(g)
      /\ \A c \in Nodes(g) : g.parents[c] \cap R # {} => c \in R
  <2>1. PICK N : N = Nodes(g)
    OBVIOUS
  <2>2. N \subseteq Nodes(g) /\ R = Reached(g, txs, N) /\ txs \subseteq Nodes(g)
    BY <1>0, <2>1
  <2>3. /\ txs \subseteq R /\ R \subseteq Nodes(g)
        /\ \A c \in N : g.parents[c] \cap R # {} => c \in R
    <3> HIDE DEF g
    <3> QED BY <1>2, <2>2, ReachedByParents
  <2> QED BY <2>1, <2>3
<1>4. R = purge_subgraphs_removed(g, txs)
  BY <1>0 DEF purge_subgraphs_removed
<1>5. PICK h1 : h1 = purge_subgraphs(g, txs)
  OBVIOUS
<1>6. /\ WellFormed(h1, Tx) /\ h1.pending = g.pending \ R /\ h1.vertices = g.vertices \ R
      /\ h1.processed = g.processed \ R /\ h1.parents = [k \in Nodes(g) \ R |-> g.parents[k]]
  <2>1. txs \subseteq Nodes(g)
    OBVIOUS
  <2> HIDE DEF g
  <2> QED BY <1>2, <1>4, <1>5, <2>1, PurgeSubgraphsOK
<1>7. Nodes(h1) = Nodes(g) \ R /\ GraphOK(h1) /\ \A k \in Nodes(g) \ R : h1.parents[k] = g.parents[k]
  <2>1. Nodes(h1) = Nodes(g) \ R
    BY <1>6 DEF Nodes
  <2>2. IsFiniteSet(Nodes(g) \ R)
    BY <1>2, FS_Subset
  <2> HIDE DEF g
  <2> QED BY <1>2, <1>6, <2>1, <2>2 DEF GraphOK
<1>8. PICK bs : bs = m.batches
  OBVIOUS
<1>9. PICK ids : ids = {bs.transactions[t] : t \in R \cap DOMAIN bs.transactions}
  OBVIOUS
<1>10. BatchesOK(bs, g) /\ DOMAIN bs.transactions = g.processed /\ bs.transactions \in [g.processed -> bs.batches]
  BY <1>1, <1>8 DEF BatchesOK
<1>11. ids \subseteq bs.batches
  BY <1>9, <1>10
<1>12. PICK D, r, T : D = remove_batches_removed(bs, ids) /\ r = remove_batches(bs, ids) /\ T = TxsOf(D)
  OBVIOUS
<1>13. /\ remove_batches_expects(bs, ids)
       /\ ids \subseteq D /\ D \subseteq bs.batches
       /\ \A c \in g.processed : g.parents[c] \cap T # {} => c \in T
       /\ r.batches = bs.batches \ D
       /\ r.inner.pending = bs.inner.pending \ D
       /\ r.inner.processed = bs.inner.processed \ D
  <2> HIDE DEF g
  <2> QED BY <1>2, <1>10, <1>11, <1>12, BatchesRemoved
<1>14. ASSUME NEW h, h.processed = g.processed \ T, \A t \in h.processed : h.parents[t] = g.parents[t]
       PROVE  BatchesOK(r, h)
  <2> HIDE DEF g
  <2> QED BY <1>2, <1>10, <1>11, <1>12, <1>14, BatchesRemoved
<1>15. T \subseteq g.processed /\ \A t \in g.processed : t \in T <=> bs.transactions[t] \in D
  <2> HIDE DEF g
  <2> QED BY <1>10, <1>12, <1>13, IndexFacts
<1>16. R \cap g.processed \subseteq T
  BY <1>9, <1>10, <1>13, <1>15
<1>17. PICK C : C = T \ R
  OBVIOUS
<1>18. /\ C \subseteq h1.processed
       /\ \A c \in h1.processed : h1.parents[c] \cap C # {} => c \in C
  <2>1. C \subseteq h1.processed
    BY <1>6, <1>15, <1>17
  <2>2. ASSUME NEW c \in h1.processed, h1.parents[c] \cap C # {}
        PROVE  c \in C
    <3>1. c \in g.processed /\ c \notin R /\ c \in Nodes(g) \ R
      BY <1>2, <1>6
    <3>2. g.parents[c] \cap T # {}
      BY <1>7, <1>17, <2>2, <3>1
    <3> QED BY <1>13, <1>17, <3>1, <3>2
  <2> QED BY <2>1, <2>2
<1>19. PICK h : h = revert_subgraphs(h1, C)
  OBVIOUS
<1>20. /\ revert_subgraphs_result(h1, C) = "Ok" /\ GraphOK(h) /\ Nodes(h) = Nodes(h1)
       /\ h.parents = h1.parents /\ h.processed = h1.processed \ C
  BY <1>7, <1>18, <1>19, GraphRequeue
<1>21. h.processed = g.processed \ T
  BY <1>6, <1>16, <1>17, <1>20
<1>22. Nodes(h) = Nodes(g) \ R /\ \A k \in Nodes(h) : h.parents[k] = g.parents[k]
  BY <1>7, <1>20
<1>23. BatchesOK(r, h)
  <2>1. \A t \in h.processed : t \in Nodes(h)
    <3>1. g.processed \ T \subseteq Nodes(g) \ R
      BY <1>2, <1>16
    <3> QED BY <1>21, <1>22, <3>1
  <2>2. \A t \in h.processed : h.parents[t] = g.parents[t]
    BY <1>22, <2>1
  <2> QED BY <1>14, <1>21, <2>2
<1>24. PICK s, s1 : s = m.state /\ s1 = state_revert_transactions(s, R)
  OBVIOUS
<1>25. revert_transactions_expects(s, R) /\ StateOK(s1, h) /\ s1.chain_tip = s.chain_tip
  <2>1. StateOK(s, g)
    BY <1>1, <1>24
  <2> HIDE DEF g
  <2> QED BY <1>2, <1>3, <1>22, <1>24, <2>1, StateRevert
<1>26. PICK p, p1 : p = m.subscription /\ p1 = txs_reverted(p, R)
  OBVIOUS
<1>27. ProviderOK(p1, h) /\ p1.chain_tip = p.chain_tip /\ R \subseteq ToSet(p.inflight_txs)
  <2>1. p \in Providers /\ ToSet(p.inflight_txs) = Nodes(g) /\ IsInjective(p.inflight_txs)
    BY <1>1, <1>26 DEF ProviderOK
  <2>2. R \subseteq Tx
    BY <1>2, <1>3
  <2> HIDE DEF g
  <2>3. /\ p1 \in Providers /\ ToSet(p1.inflight_txs) = ToSet(p.inflight_txs) \ R
        /\ IsInjective(p1.inflight_txs) /\ p1.chain_tip = p.chain_tip
    BY <1>26, <2>1, <2>2, TxsRevertedOK
  <2> QED BY <1>3, <1>22, <2>1, <2>3 DEF ProviderOK
<1>28. purge_subgraphs_result(g, txs) = "Ok"
  BY DEF purge_subgraphs_result, contains, Nodes
<1>29. PICK m1 : m1 = [m EXCEPT !.transactions = purge_subgraphs(@, txs), !.batches = remove_batches(@, ids)]
  OBVIOUS
<1>30. /\ IsMempool(m1) /\ m1.transactions = h1 /\ m1.batches = r /\ m1.state = s
       /\ m1.expirations = Nodes(g) /\ m1.chain_tip = m.chain_tip
       /\ m1.block_in_progress = m.block_in_progress /\ m1.subscription = p /\ m1.panicked = m.panicked
  BY <1>1, <1>5, <1>8, <1>12, <1>24, <1>26, <1>29 DEF IsMempool, MempoolFields
<1>31. PICK m2 : m2 = requeue_transactions(m1, C)
  OBVIOUS
<1>32. m2 = [m1 EXCEPT !.transactions = h]
  BY <1>19, <1>20, <1>30, <1>31 DEF requeue_transactions, expect
<1>33. /\ IsMempool(m2) /\ m2.transactions = h /\ m2.batches = r /\ m2.state = s
       /\ m2.expirations = Nodes(g) /\ m2.chain_tip = m.chain_tip
       /\ m2.block_in_progress = m.block_in_progress /\ m2.subscription = p /\ m2.panicked = m.panicked
  BY <1>30, <1>32 DEF IsMempool, MempoolFields
<1>34. n = [m2 EXCEPT !.expirations = @ \ R, !.state = state_revert_transactions(@, R),
                      !.subscription = txs_reverted(@, R)]
  <2>1. /\ remove_batches_expects(m.batches, ids) /\ revert_transactions_expects(m.state, R)
        /\ R \subseteq ToSet(m.subscription.inflight_txs)
    BY <1>8, <1>13, <1>24, <1>25, <1>26, <1>27
  <2>2. ids = {m.batches.transactions[t] : t \in R \cap DOMAIN m.batches.transactions}
    BY <1>8, <1>9
  <2>3. C = TxsOf(remove_batches_removed(m.batches, ids)) \ R
    BY <1>8, <1>12, <1>17
  <2> QED BY <1>0, <1>4, <1>28, <1>29, <1>31, <2>1, <2>2, <2>3 DEF revert_transactions, expect
<1>35. /\ IsMempool(n) /\ n.transactions = h /\ n.batches = r /\ n.state = s1
       /\ n.expirations = Nodes(h) /\ n.chain_tip = m.chain_tip
       /\ n.block_in_progress = m.block_in_progress /\ n.subscription = p1 /\ n.panicked = m.panicked
  <2>1. Nodes(g) \ R = Nodes(h)
    BY <1>22
  <2> QED BY <1>24, <1>26, <1>33, <1>34, <2>1 DEF IsMempool, MempoolFields
<1>36. Sound(n)
  <2>1. n.chain_tip = n.state.chain_tip
    BY <1>1, <1>24, <1>25, <1>35
  <2> QED BY <1>20, <1>23, <1>25, <1>27, <1>35, <2>1 DEF Sound
<1>37. /\ r.inner.pending = bs.inner.pending \cap r.batches
       /\ r.inner.processed = bs.inner.processed \cap r.batches
  <2>1. bs.inner.pending \subseteq bs.batches /\ bs.inner.processed \subseteq bs.batches
    BY <1>10 DEF BatchesOK, Nodes, WellFormed, GraphType
  <2> QED BY <1>13, <2>1
<1>38. ASSUME NEW b \in bs.batches, ToSet(b) \cap R # {}
       PROVE  b \notin r.batches
  <2>1. PICK t \in ToSet(b) : t \in R
    BY <1>38
  <2>2. t \in g.processed /\ bs.transactions[t] = b
    BY <1>10, <2>1 DEF BatchesOK
  <2> QED BY <1>9, <1>10, <1>13, <2>1, <2>2
<1>39. s1.committed_blocks = s.committed_blocks
  BY <1>1, <1>24 DEF state_revert_transactions, StateOK, InflightStates
<1>40. Drops(m, n, R)
  BY <1>3, <1>22, <1>24, <1>26, <1>35, <1>39 DEF Drops
<1> QED BY <1>0, <1>3, <1>8, <1>13, <1>22, <1>26, <1>27, <1>35, <1>36, <1>37, <1>38, <1>40 DEF SameTips

(* rollback_block: without a block in progress, or with batches of it       *)
(* missing, it panics; else the block's transactions are gone with all that *)
(* depend on them.                                                          *)
LEMMA RollbackBlockOK ==
    ASSUME NEW m, Consistent(m)
    PROVE  LET n == rollback_block(m)
               P == m.batches.inner.processed
           IN  /\ Consistent(n) /\ SameTips(m, n)
               /\ Nodes(n.transactions) \subseteq Nodes(m.transactions)
               /\ n.panicked \/ n.block_in_progress = {}
               /\ n.batches.batches \subseteq m.batches.batches
               /\ Nodes(m.transactions) \ Nodes(n.transactions) \subseteq
                    Reached(m.transactions, TxsOf(UNION m.block_in_progress), Nodes(m.transactions))
               /\ m.block_in_progress = {P} =>
                    /\ n.panicked = m.panicked
                    /\ n.block_in_progress = {}
                    /\ n.batches.inner.processed = {}
                    /\ n.batches.inner.pending = m.batches.inner.pending \cap n.batches.batches
               /\ \/ n.panicked /\ SameContents(m, n)
                  \/ /\ n.panicked = m.panicked
                     /\ n.batches.inner.processed \subseteq P \ UNION m.block_in_progress
                     /\ \E R : Drops(m, n, R)
<1>0. PICK n, block, P : /\ n = rollback_block(m) /\ block = CHOOSE b \in m.block_in_progress : TRUE
                         /\ P = m.batches.inner.processed
  OBVIOUS
<1>1. /\ IsMempool(m) /\ GraphOK(m.transactions) /\ BatchesOK(m.batches, m.transactions)
      /\ \A t \in Nodes(m.transactions) : expires_at(t) > m.chain_tip
  BY DEF Consistent, Sound
<1>2. P \subseteq m.batches.batches
  BY <1>0, <1>1 DEF BatchesOK, WellFormed, GraphType, Nodes
<1>3. m.block_in_progress = {P} => block = P
  BY <1>0
<1>4. CASE ~(m.block_in_progress # {} /\ block \subseteq m.batches.batches)
  <2>1. n = [m EXCEPT !.panicked = TRUE]
    BY <1>0, <1>4 DEF rollback_block, expect
  <2>2. n.transactions = m.transactions /\ n.panicked /\ n.batches = m.batches
    BY <1>1, <2>1 DEF IsMempool, MempoolFields
  <2>3. Consistent(n) /\ SameTips(m, n) /\ SameContents(m, n)
    BY <2>1, PanicOK
  <2>4. m.block_in_progress # {P}
    BY <1>2, <1>3, <1>4
  <2> QED BY <1>0, <2>2, <2>3, <2>4
<1>5. CASE m.block_in_progress # {} /\ block \subseteq m.batches.batches
  <2>1. PICK m1 : m1 = [m EXCEPT !.block_in_progress = {}]
    OBVIOUS
  <2>2. PICK txs : txs = TxsOf(block)
    OBVIOUS
  <2>3. n = revert_transactions(m1, txs)
    BY <1>0, <1>5, <2>1, <2>2 DEF rollback_block, expect
  <2>4. /\ IsMempool(m1) /\ m1.transactions = m.transactions /\ m1.batches = m.batches /\ m1.state = m.state
        /\ m1.expirations = m.expirations /\ m1.chain_tip = m.chain_tip
        /\ m1.block_in_progress = {} /\ m1.subscription = m.subscription /\ m1.panicked = m.panicked
    BY <1>1, <2>1 DEF IsMempool, MempoolFields
  <2>5. Sound(m1)
    BY <2>4 DEF Consistent, Sound
  <2>6. PICK g : g = m.transactions
    OBVIOUS
  <2>7. txs \subseteq g.processed /\ (\A b \in m.batches.batches : ToSet(b) # {})
    BY <1>1, <1>5, <2>2, <2>6, IndexFacts
  <2>8. txs \subseteq Nodes(g)
    BY <1>1, <2>6, <2>7, TrackedAreTxs
  <2>9. PICK R : R = Reached(g, txs, Nodes(g))
    OBVIOUS
  <2>10. /\ Sound(n) /\ n.panicked = m1.panicked /\ SameTips(m1, n)
         /\ txs \subseteq R
         /\ Nodes(n.transactions) = Nodes(g) \ R
         /\ n.block_in_progress = m1.block_in_progress
         /\ n.batches.batches \subseteq m1.batches.batches
         /\ n.batches.inner.pending = m1.batches.inner.pending \cap n.batches.batches
         /\ n.batches.inner.processed = m1.batches.inner.processed \cap n.batches.batches
         /\ \A b \in m1.batches.batches : ToSet(b) \cap R # {} => b \notin n.batches.batches
         /\ Drops(m1, n, R)
    BY <2>3, <2>4, <2>5, <2>6, <2>8, <2>9, RevertOK
  <2>11. SameTips(m, n)
    BY <2>4, <2>10 DEF SameTips
  <2>12. Consistent(n)
    BY <1>1, <2>6, <2>10, <2>11 DEF Consistent, SameTips
  <2>13. n.batches.inner.processed \subseteq P \ block
    <3>1. ASSUME NEW b \in block PROVE b \notin n.batches.batches
      <4>1. b \in m.batches.batches /\ ToSet(b) # {} /\ ToSet(b) \subseteq txs
        BY <1>5, <2>2, <2>7, <3>1 DEF TxsOf
      <4> QED BY <2>4, <2>10, <4>1
    <3> QED BY <1>0, <2>4, <2>10, <3>1
  <2>14. UNION m.block_in_progress = block
    <3>1. m.block_in_progress = {block}
      BY <1>0, <1>5 DEF Consistent, Sound
    <3> QED BY <3>1
  <2>15. R = Reached(m.transactions, TxsOf(UNION m.block_in_progress), Nodes(m.transactions))
    BY <2>2, <2>6, <2>9, <2>14
  <2>16. m.block_in_progress = {P} => n.batches.inner.processed = {}
    BY <1>3, <2>13
  <2>17. Drops(m, n, R)
    BY <2>4, <2>10 DEF Drops
  <2> QED BY <1>0, <2>4, <2>6, <2>10, <2>11, <2>12, <2>13, <2>14, <2>15, <2>16, <2>17
<1> QED BY <1>4, <1>5

Expiring(g, tip) == {t \in Nodes(g) : expires_at(t) = tip}

(* From mempool m to n: the block in progress was committed as block k.     *)
Commits(m, n, k) ==
    /\ Consistent(n)
    /\ n.panicked \/ n.block_in_progress = {}
    /\ Nodes(n.transactions) \subseteq Nodes(m.transactions)
    /\ n.batches.batches \subseteq m.batches.batches
    /\ m.block_in_progress = {m.batches.inner.processed} =>
         /\ n.panicked = m.panicked
         /\ n.block_in_progress = {}
         /\ n.batches.inner.processed = {}
         /\ n.batches.inner.pending = m.batches.inner.pending \cap n.batches.batches
         /\ n.chain_tip = m.chain_tip + 1
         /\ n.subscription.chain_tip = k
    /\ Nodes(m.transactions) \ Nodes(n.transactions) \subseteq
         TxsOf(UNION m.block_in_progress)
         \cup Reached(m.transactions, Expiring(m.transactions, n.chain_tip), Nodes(m.transactions))
    /\ \/ n.panicked /\ SameContents(m, n)
       \/ /\ n.panicked = m.panicked
          /\ n.chain_tip = m.chain_tip + 1 /\ n.subscription.chain_tip = k
          /\ n.batches.inner.processed \subseteq m.batches.inner.processed \ UNION m.block_in_progress
          /\ \E R : Retires(m, n, k, TxsOf(UNION m.block_in_progress), R)

(* commit_block: without a block in progress that can be pruned it panics;  *)
(* else the block's transactions are gone, and with them what expires at    *)
(* the new tip and all that depends on it.                                  *)
LEMMA CommitBlockOK ==
    ASSUME NEW m, Consistent(m), NEW k \in Nat, NEW n, n = commit_block(m, k)
    PROVE  Commits(m, n, k)
<1>0. PICK block, P : /\ block = CHOOSE b \in m.block_in_progress : TRUE
                      /\ P = m.batches.inner.processed
  OBVIOUS
<1>1. PICK g, bs, s, p, X : /\ g = m.transactions /\ bs = m.batches /\ s = m.state /\ p = m.subscription
                            /\ X = TxsOf(UNION m.block_in_progress)
  OBVIOUS
<1>2. /\ IsMempool(m) /\ GraphOK(g) /\ BatchesOK(bs, g) /\ StateOK(s, g) /\ ProviderOK(p, g)
      /\ m.expirations = Nodes(g) /\ m.chain_tip = s.chain_tip /\ m.panicked \in BOOLEAN
      /\ \A t \in Nodes(g) : expires_at(t) > m.chain_tip
  BY <1>1 DEF Consistent, Sound
<1>3. /\ WellFormed(g, Tx) /\ g.pending = {} /\ IsFiniteSet(Nodes(g)) /\ Nodes(g) \subseteq Tx
      /\ Nodes(g) = g.vertices /\ g.processed \subseteq Nodes(g)
  BY <1>2, TrackedAreTxs DEF GraphOK
<1>4. PICK C : C = TxsOf(block)
  OBVIOUS
<1>5. m.block_in_progress # {} => X = C
  <2>1. ASSUME m.block_in_progress # {} PROVE m.block_in_progress = {block}
    BY <1>0, <2>1 DEF Consistent, Sound
  <2>2. UNION {block} = block
    OBVIOUS
  <2> QED BY <1>1, <1>4, <2>1, <2>2
<1>6. m.block_in_progress = {P} => block = P
  BY <1>0
<1> DEFINE Expects == /\ m.block_in_progress # {}
                      /\ prune_processed_result(bs.inner, block) = "Ok"
                      /\ prune_processed_result(g, C) = "Ok"
                      /\ state_commit_block_expects(s, C)
                      /\ C \subseteq ToSet(p.inflight_txs)
<1>7. CASE ~Expects
  <2>1. n = [m EXCEPT !.panicked = TRUE]
    BY <1>0, <1>1, <1>4, <1>7 DEF commit_block, expect
  <2>2. n.transactions = m.transactions /\ n.panicked /\ n.batches = m.batches
    BY <1>2, <2>1 DEF IsMempool, MempoolFields
  <2>3. Consistent(n) /\ SameContents(m, n)
    BY <2>1, PanicOK
  <2>4. ASSUME m.block_in_progress = {P} PROVE FALSE
    <3>1. block = bs.inner.processed
      BY <1>0, <1>1, <1>6, <2>4
    <3>2. /\ C \subseteq g.processed
          /\ prune_processed_result(bs.inner, block) = "Ok"
          /\ prune_processed_result(g, C) = "Ok"
      BY <1>2, <1>3, <1>4, <3>1, BlockPrunable
    <3>3. PICK h : h = prune_processed(g, C)
      OBVIOUS
    <3>4. /\ \A c \in C : g.parents[c] \subseteq C
          /\ h.vertices = g.vertices \ C
          /\ h.pending = g.pending
          /\ h.parents = [c \in Nodes(g) \ C |-> g.parents[c] \ C]
      BY <1>3, <3>2, <3>3, PruneProcessedOK
    <3>5. Nodes(h) = Nodes(g) \ C
      BY <1>3, <3>4 DEF Nodes
    <3>6. \A c \in Nodes(h) : h.parents[c] = g.parents[c] \ C
      BY <3>4, <3>5
    <3>7. C \subseteq Nodes(g) /\ C \in SUBSET Tx /\ IsFiniteSet(C)
      BY <1>3, <3>2, FS_Subset
    <3>8. state_commit_block_expects(s, C)
      BY <1>2, <1>3, <3>4, <3>5, <3>6, <3>7, StateCommit
    <3>9. C \subseteq ToSet(p.inflight_txs)
      BY <1>2, <3>7 DEF ProviderOK
    <3> QED BY <1>7, <2>4, <3>2, <3>8, <3>9
  <2> QED BY <1>0, <1>1, <2>2, <2>3, <2>4 DEF Commits
<1>8. CASE Expects
  <2>1. PICK h, r, s1, p1 : /\ h = prune_processed(g, C)
                            /\ r = WithoutBatches(bs, prune_processed(bs.inner, block), block)
                            /\ s1 = state_commit_block(s, C)
                            /\ p1 = block_committed(p, k, C)
    OBVIOUS
  <2>2. /\ WellFormed(h, Tx)
        /\ C \subseteq g.processed
        /\ \A c \in C : g.parents[c] \subseteq C
        /\ h.pending = g.pending
        /\ h.vertices = g.vertices \ C
        /\ h.processed = g.processed \ C
        /\ h.parents = [c \in Nodes(g) \ C |-> g.parents[c] \ C]
    BY <1>3, <1>8, <2>1, PruneProcessedOK
  <2>3. Nodes(h) = Nodes(g) \ C
    BY <1>3, <2>2 DEF Nodes
  <2>4. \A c \in Nodes(h) : h.parents[c] = g.parents[c] \ C
    BY <2>2, <2>3
  <2>5. C \subseteq Nodes(g) /\ C \in SUBSET Tx /\ IsFiniteSet(C) /\ IsFiniteSet(Nodes(g) \ C)
    BY <1>3, <2>2, FS_Subset
  <2>6. GraphOK(h)
    BY <1>3, <2>2, <2>3, <2>5 DEF GraphOK
  <2>7. /\ BatchesOK(r, h) /\ block \subseteq bs.batches
        /\ r.batches = bs.batches \ block
        /\ r.inner.pending = bs.inner.pending
        /\ r.inner.processed = bs.inner.processed \ block
    <3>1. \A t \in h.processed : h.parents[t] = g.parents[t] \ C
      BY <2>4, <2>6, TrackedAreTxs
    <3> QED BY <1>2, <1>3, <1>4, <1>8, <2>1, <2>2, <3>1, BatchesPruned
  <2>8. StateOK(s1, h) /\ s1.chain_tip = s.chain_tip + 1
    BY <1>2, <1>3, <2>1, <2>2, <2>3, <2>4, <2>5, StateCommit
  <2>9. ProviderOK(p1, h) /\ p1.chain_tip = k
    <3>1. p \in Providers /\ IsInjective(p.inflight_txs) /\ ToSet(p.inflight_txs) = Nodes(g)
      BY <1>2 DEF ProviderOK
    <3>2. p1 \in Providers /\ ToSet(p1.inflight_txs) = ToSet(p.inflight_txs) \ C
          /\ IsInjective(p1.inflight_txs) /\ p1.chain_tip = k
      BY <2>1, <2>5, <3>1, BlockCommittedOK
    <3> QED BY <2>3, <3>1, <3>2 DEF ProviderOK
  <2>10. PICK m1 : m1 = [m EXCEPT
                 !.block_in_progress = {},
                 !.batches = WithoutBatches(@, prune_processed(@.inner, block), block),
                 !.transactions = prune_processed(@, C),
                 !.expirations = @ \ C,
                 !.state = state_commit_block(@, C),
                 !.chain_tip = @ + 1,
                 !.subscription = block_committed(@, k, C)]
    OBVIOUS
  <2>11. /\ IsMempool(m1) /\ m1.transactions = h /\ m1.batches = r /\ m1.state = s1
         /\ m1.expirations = Nodes(h) /\ m1.chain_tip = m.chain_tip + 1
         /\ m1.block_in_progress = {} /\ m1.subscription = p1 /\ m1.panicked = m.panicked
    BY <1>1, <1>2, <2>1, <2>3, <2>10 DEF IsMempool, MempoolFields
  <2>12. Sound(m1)
    <3>1. m1.chain_tip = m1.state.chain_tip
      BY <1>2, <2>8, <2>11
    <3> QED BY <1>2, <2>6, <2>7, <2>8, <2>9, <2>11, <3>1 DEF Sound
  <2>13. PICK E : E = expirations_get(m1, m1.chain_tip)
    OBVIOUS
  <2>14. n = revert_transactions(m1, E)
    BY <1>0, <1>1, <1>4, <1>8, <2>10, <2>13 DEF commit_block, expect
  <2>15. E \subseteq Nodes(h) /\ \A t \in Nodes(h) : t \in E <=> expires_at(t) = m.chain_tip + 1
    BY <2>11, <2>13 DEF expirations_get
  <2>16. PICK R : R = Reached(h, E, Nodes(h))
    OBVIOUS
  <2>17. /\ Sound(n) /\ n.panicked = m1.panicked /\ SameTips(m1, n)
         /\ E \subseteq R
         /\ Nodes(n.transactions) = Nodes(h) \ R
         /\ n.block_in_progress = m1.block_in_progress
         /\ n.batches.batches \subseteq m1.batches.batches
         /\ n.batches.inner.pending = m1.batches.inner.pending \cap n.batches.batches
         /\ n.batches.inner.processed = m1.batches.inner.processed \cap n.batches.batches
         /\ Drops(m1, n, R)
    BY <2>11, <2>12, <2>14, <2>15, <2>16, RevertOK
  <2>18. n.chain_tip = m.chain_tip + 1 /\ n.subscription.chain_tip = k
    BY <2>9, <2>11, <2>17 DEF SameTips
  <2>19. Consistent(n)
    <3>1. ASSUME NEW t \in Nodes(n.transactions) PROVE expires_at(t) > m.chain_tip + 1
      <4>1. t \in Nodes(g) /\ t \in Nodes(h) /\ t \notin E
        BY <2>3, <2>17, <3>1
      <4>2. expires_at(t) > m.chain_tip /\ expires_at(t) # m.chain_tip + 1 /\ t \in Tx
        BY <1>2, <1>3, <2>15, <4>1
      <4>3. m.chain_tip \in Nat /\ expires_at(t) \in Nat
        BY <1>2, <4>2, TxFacts DEF StateOK, InflightStates
      <4> QED BY <4>2, <4>3
    <3> QED BY <2>17, <2>18, <3>1 DEF Consistent
  <2>20. ASSUME m.block_in_progress = {P} PROVE n.batches.inner.processed = {}
    BY <1>0, <1>1, <1>6, <2>7, <2>11, <2>17, <2>20
  <2>21. n.batches.batches \subseteq bs.batches /\ n.batches.inner.pending = bs.inner.pending \cap n.batches.batches
    BY <2>7, <2>11, <2>17
  <2>22. PICK D : D = Expiring(g, n.chain_tip)
    OBVIOUS
  <2>23. R \subseteq Reached(g, D, Nodes(g))
    <3>1. D \subseteq Nodes(g) /\ E \subseteq Nodes(h) \cap D
      BY <2>3, <2>15, <2>18, <2>22 DEF Expiring
    <3>2. Nodes(h) \subseteq Nodes(g) /\ \A c \in Nodes(h) : h.parents[c] \subseteq g.parents[c]
      BY <2>3, <2>4
    <3> QED BY <1>3, <2>2, <2>16, <3>1, <3>2, ReachedLess
  <2>24. Nodes(g) \ Nodes(n.transactions) \subseteq X \cup Reached(g, D, Nodes(g))
    BY <1>5, <1>8, <2>3, <2>17, <2>23
  <2>25. Nodes(n.transactions) \subseteq Nodes(g)
    BY <2>3, <2>17
  <2>26. n.panicked = m.panicked /\ n.block_in_progress = {}
    BY <2>11, <2>17
  <2>27. s1.committed_blocks = Kept(Append(s.committed_blocks, C))
    <3>1. s \in InflightStates
      BY <1>2 DEF StateOK
    <3>2. PICK s2 : s2 = MarkCommitted(s, C)
      OBVIOUS
    <3>3. /\ s2.committed_blocks = Append(s.committed_blocks, C)
          /\ s2 = [f \in {"accounts", "nullifiers", "output_notes", "transaction_deltas",
                          "committed_blocks", "chain_tip"} |-> s2[f]]
      BY <3>1, <3>2 DEF MarkCommitted, InflightStates
    <3>4. prune_block(s2).committed_blocks = Kept(s2.committed_blocks)
      BY <3>3 DEF prune_block, Kept
    <3>5. s1.committed_blocks = prune_block(s2).committed_blocks
      BY <2>1, <3>2, <3>3 DEF state_commit_block, prune_block
    <3> QED BY <3>3, <3>4, <3>5
  <2>28. Retires(m, n, k, C, R)
    <3>1. /\ R \subseteq Nodes(h) /\ (\A c \in Nodes(h) : h.parents[c] \cap R # {} => c \in R)
          /\ (\A c \in Nodes(n.transactions) : n.transactions.parents[c] = h.parents[c])
          /\ n.state.committed_blocks = s1.committed_blocks
          /\ n.subscription = txs_reverted(p1, R)
          /\ Nodes(n.transactions) = Nodes(h) \ R
      BY <2>11, <2>17 DEF Drops
    <3>2. \A c \in Nodes(h) : g.parents[c] \cap R # {} => c \in R
      BY <2>3, <2>4, <3>1
    <3>3. \A c \in Nodes(n.transactions) : n.transactions.parents[c] = g.parents[c] \ C
      BY <2>4, <3>1
    <3>4. Nodes(n.transactions) = Nodes(g) \ (C \cup R)
      BY <2>3, <3>1
    <3> QED BY <1>1, <2>1, <2>2, <2>3, <2>5, <2>27, <3>1, <3>2, <3>3, <3>4 DEF Retires
  <2>29. n.batches.inner.processed \subseteq m.batches.inner.processed \ UNION m.block_in_progress
    <3>1. UNION m.block_in_progress = block
      BY <1>0, <1>8 DEF Consistent, Sound
    <3> QED BY <1>1, <2>7, <2>11, <2>17, <3>1
  <2>30. \E Q : Retires(m, n, k, TxsOf(UNION m.block_in_progress), Q)
    BY <1>1, <1>5, <1>8, <2>28
  <2> HIDE DEF Expects
  <2> QED BY <1>0, <1>1, <2>18, <2>19, <2>20, <2>21, <2>22, <2>24, <2>25, <2>26, <2>29, <2>30 DEF Commits
<1> QED BY <1>7, <1>8

(* A call that only changes the subscription.                               *)
LEMMA SubscriptionFrame ==
    ASSUME NEW m, Consistent(m), NEW p, ProviderOK(p, m.transactions),
           p.chain_tip = m.subscription.chain_tip
    PROVE  LET n == [m EXCEPT !.subscription = p]
           IN  /\ Consistent(n) /\ n.panicked = m.panicked
               /\ SameBuilds(m, n) /\ SameTips(m, n) /\ n.transactions = m.transactions
               /\ n.subscription = p /\ n.state = m.state
<1>1. PICK n : n = [m EXCEPT !.subscription = p]
  OBVIOUS
<1>2. IsMempool(m)
  BY DEF Consistent, Sound
<1>3. /\ IsMempool(n) /\ n.transactions = m.transactions /\ n.batches = m.batches /\ n.state = m.state
      /\ n.expirations = m.expirations /\ n.chain_tip = m.chain_tip
      /\ n.block_in_progress = m.block_in_progress /\ n.subscription = p /\ n.panicked = m.panicked
  BY <1>1, <1>2 DEF IsMempool, MempoolFields
<1>4. Consistent(n)
  BY <1>3 DEF Consistent, Sound
<1> QED BY <1>1, <1>3, <1>4 DEF SameBuilds, SameTips

(* subscribe, and an event leaving the channel.                             *)
LEMMA SubscriptionOK ==
    ASSUME NEW m, Consistent(m)
    PROVE  /\ LET n == subscribe(m)
              IN  /\ Consistent(n) /\ n.panicked = m.panicked
                  /\ SameBuilds(m, n) /\ SameTips(m, n) /\ n.transactions = m.transactions /\ n.state = m.state
           /\ m.subscription.channel # <<>> =>
                /\ Head(m.subscription.channel) \in Event
                /\ LET n == [m EXCEPT !.subscription.channel = Tail(@)]
                   IN  /\ Consistent(n) /\ n.panicked = m.panicked
                       /\ SameBuilds(m, n) /\ SameTips(m, n) /\ n.transactions = m.transactions /\ n.state = m.state
<1>1. PICK p : p = m.subscription
  OBVIOUS
<1>2. IsMempool(m) /\ ProviderOK(p, m.transactions) /\ p \in Providers
  BY <1>1 DEF Consistent, Sound, ProviderOK
<1>3. PICK q : q = provider_subscribe(p)
  OBVIOUS
<1>4. q \in Providers /\ q.inflight_txs = p.inflight_txs /\ q.chain_tip = p.chain_tip
  BY <1>2, <1>3, SubscribeOK
<1>5. ProviderOK(q, m.transactions)
  BY <1>2, <1>4 DEF ProviderOK
<1>6. subscribe(m) = [m EXCEPT !.subscription = q]
  BY <1>1, <1>3 DEF subscribe
<1>7. LET n == subscribe(m)
      IN  /\ Consistent(n) /\ n.panicked = m.panicked
          /\ SameBuilds(m, n) /\ SameTips(m, n) /\ n.transactions = m.transactions /\ n.state = m.state
  BY <1>1, <1>4, <1>5, <1>6, SubscriptionFrame
<1>8. ASSUME m.subscription.channel # <<>>
      PROVE  /\ Head(m.subscription.channel) \in Event
             /\ LET n == [m EXCEPT !.subscription.channel = Tail(@)]
                IN  /\ Consistent(n) /\ n.panicked = m.panicked
                    /\ SameBuilds(m, n) /\ SameTips(m, n) /\ n.transactions = m.transactions /\ n.state = m.state
  <2>1. PICK c : c = p.channel
    OBVIOUS
  <2>2. c \in Seq(Event) /\ c # <<>>
    BY <1>1, <1>2, <1>8, <2>1 DEF Providers
  <2>3. Head(c) \in Event /\ Tail(c) \in Seq(Event)
    BY <2>2, HeadTailProperties
  <2>4. PICK r : r = [p EXCEPT !.channel = Tail(c)]
    OBVIOUS
  <2>5. r \in Providers /\ r.inflight_txs = p.inflight_txs /\ r.chain_tip = p.chain_tip
    BY <1>2, <2>3, <2>4 DEF Providers
  <2>6. ProviderOK(r, m.transactions)
    BY <1>2, <2>5 DEF ProviderOK
  <2>7. PICK n : n = [m EXCEPT !.subscription = r]
    OBVIOUS
  <2>8. [m EXCEPT !.subscription.channel = Tail(@)] = n
    BY <1>1, <2>1, <2>4, <2>7
  <2>9. /\ Consistent(n) /\ n.panicked = m.panicked
        /\ SameBuilds(m, n) /\ SameTips(m, n) /\ n.transactions = m.transactions /\ n.state = m.state
    BY <1>1, <2>5, <2>6, <2>7, SubscriptionFrame
  <2> QED BY <1>1, <2>1, <2>3, <2>8, <2>9
<1> QED BY <1>7, <1>8

(* Mempool::new                                                             *)
LEMMA NewOK ==
    ASSUME NEW tip \in Nat
    PROVE  LET n == Mempool_new(tip)
           IN  /\ Consistent(n) /\ n.panicked = FALSE
               /\ n.batches.batches = {}
               /\ n.batches.inner.pending = {} /\ n.batches.inner.processed = {}
               /\ n.block_in_progress = {} /\ Nodes(n.transactions) = {}
               /\ n.chain_tip = tip /\ n.subscription.chain_tip = tip
<1>1. PICK n : n = Mempool_new(tip)
  OBVIOUS
<1>2. PICK e : e = EmptyGraph
  OBVIOUS
<1>3. e.pending = {} /\ e.vertices = {} /\ e.processed = {} /\ Nodes(e) = {}
  BY <1>2 DEF EmptyGraph, Nodes
<1>4. WellFormed(e, Tx) /\ WellFormed(e, Batch)
  BY <1>2 DEF EmptyGraph, WellFormed, GraphType, Mirrored, InOrder, RootsOf, Nodes
<1>5. GraphOK(e) /\ Acyclic(e) /\ IsFiniteSet({})
  BY <1>3, <1>4, FS_EmptySet DEF GraphOK, Acyclic
<1>6. PICK bs, s, p : bs = n.batches /\ s = n.state /\ p = n.subscription
  OBVIOUS
<1>7. /\ n.transactions = e /\ n.expirations = {} /\ n.chain_tip = tip /\ n.block_in_progress = {}
      /\ n.panicked = FALSE /\ IsMempool(n)
  BY <1>1, <1>2 DEF Mempool_new, IsMempool, MempoolFields
<1>8. bs = [inner |-> e, transactions |-> [t \in {} |-> <<>>], batches |-> {}]
  BY <1>1, <1>2, <1>6 DEF Mempool_new
<1>9. BatchesOK(bs, e)
  <2>1. bs.inner = e /\ bs.batches = {} /\ bs.transactions = [t \in {} |-> <<>>]
    BY <1>8
  <2>2. bs.transactions \in [{} -> {}]
    BY <2>1
  <2> QED BY <1>3, <1>4, <1>5, <1>8, <2>1, <2>2 DEF BatchesOK
<1>10. s = InflightState_new(tip) /\ s.chain_tip = tip
  BY <1>1, <1>6 DEF Mempool_new, InflightState_new
<1>11. StateOK(s, e)
  <2>1. EmptyAccount \in Accounts /\ EmptyAccount.states = <<>> /\ EmptyAccount.committed = 0
    BY EmptySeq DEF EmptyAccount, Accounts
  <2>2. s.output_notes \in UNION {[D -> Tx \cup {Committed}] : D \in SUBSET Note}
    <3>1. s.output_notes \in [{} -> Tx \cup {Committed}] /\ {} \in SUBSET Note
      BY <1>10 DEF InflightState_new
    <3> QED BY <3>1
  <2>3. s \in InflightStates
    BY <1>10, <2>1, <2>2, EmptySeq DEF InflightState_new, InflightStates
  <2>4. Len(<<>>) = 0 /\ <<>> \in Seq(SUBSET Tx) /\ ToSet(<<>>) = {} /\ DOMAIN <<>> = {}
    BY EmptySeq DEF ToSet
  <2>5. ASSUME NEW a \in Account PROVE ChainOK(EmptyAccount, a, <<>>, e)
    BY <1>3, <2>1, <2>4 DEF ChainOK
  <2>6. BlocksOK(<<>>) /\ s.committed_blocks = <<>>
    BY <1>10, <2>4 DEF BlocksOK, InflightState_new
  <2>7. NotesOK(s, e)
    BY <1>3, <1>10, <2>4 DEF NotesOK, NotesAre, Retained, InflightState_new
  <2>8. \A a \in Account : s.accounts[a] = EmptyAccount
    BY <1>10 DEF InflightState_new
  <2> QED BY <1>3, <1>10, <2>3, <2>5, <2>6, <2>7, <2>8 DEF StateOK, InflightState_new
<1>12. ProviderOK(p, e) /\ p.chain_tip = tip
  <2>1. p = SubscriptionProvider_new(tip)
    BY <1>1, <1>6 DEF Mempool_new
  <2>2. p \in Providers
    BY <2>1, EmptySeq DEF SubscriptionProvider_new, Providers
  <2>3. p.inflight_txs = <<>> /\ p.chain_tip = tip
    BY <2>1 DEF SubscriptionProvider_new
  <2>4. ToSet(<<>>) = {} /\ IsInjective(<<>>)
    BY EmptySeq DEF ToSet, IsInjective
  <2> QED BY <1>3, <2>2, <2>3, <2>4 DEF ProviderOK
<1>13. Consistent(n)
  BY <1>3, <1>5, <1>6, <1>7, <1>9, <1>10, <1>11, <1>12 DEF Consistent, Sound
<1> QED BY <1>1, <1>3, <1>6, <1>7, <1>8, <1>12, <1>13

-----------------------------------------------------------------------------
(* THE JOBS                                                                 *)

(* The jobs after a call that only drops batches.                           *)
LEMMA TrackingOK ==
    ASSUME NEW js, JobTypes(js), NEW m, NEW Q
    PROVE  /\ JobTypes(Tracking(js, m))
           /\ \A w \in Worker : /\ Tracking(js, m)[w].batch = js[w].batch
                                /\ js[w].stale => Tracking(js, m)[w].stale
           /\ JobsFit(js, Q) /\ m.batches.inner.pending = Q \cap m.batches.batches
              => JobsFit(Tracking(js, m), m.batches.inner.pending)
<1>1. PICK ks, B, P : ks = Tracking(js, m) /\ B = m.batches.batches /\ P = m.batches.inner.pending
  OBVIOUS
<1>2. ASSUME NEW w \in Worker
      PROVE  /\ ks[w] \in [batch : Seq(Tx), stale : BOOLEAN]
             /\ ks[w].batch = js[w].batch
             /\ ks[w].stale <=> (js[w].stale \/ (js[w].batch # <<>> /\ js[w].batch \notin B))
  <2>1. js[w] \in [batch : Seq(Tx), stale : BOOLEAN]
    BY DEF JobTypes
  <2>2. ks[w] = [js[w] EXCEPT !.stale = @ \/ (js[w].batch # <<>> /\ js[w].batch \notin B)]
    BY <1>1 DEF Tracking
  <2> QED BY <2>1, <2>2
<1>3. ks = [w \in Worker |-> ks[w]]
  BY <1>1 DEF Tracking
<1>4. JobTypes(ks)
  <2>1. ks \in [Worker -> [batch : Seq(Tx), stale : BOOLEAN]]
    BY <1>2, <1>3
  <2> QED BY <1>2, <2>1 DEF JobTypes
<1>5. ASSUME JobsFit(js, Q), P = Q \cap B
      PROVE  JobsFit(ks, P)
  BY <1>2, <1>5 DEF JobsFit
<1> QED BY <1>1, <1>2, <1>4, <1>5

(* A worker is done with a batch that has left the mempool, or with one     *)
(* that awaited its proof.                                                  *)
LEMMA JobEnds ==
    ASSUME NEW js, JobTypes(js), NEW Q, NEW w \in Worker
    PROVE  LET ks == [js EXCEPT ![w] = IdleJob]
           IN  /\ JobTypes(ks)
               /\ \A v \in Worker : ks[v] = IF v = w THEN IdleJob ELSE js[v]
               /\ JobsFit(js, Q) /\ js[w].stale => JobsFit(ks, Q)
               /\ JobsFit(js, Q) /\ js[w].batch # <<>> /\ ~js[w].stale =>
                    js[w].batch \in Q /\ JobsFit(ks, Q \ {js[w].batch})
<1>1. PICK ks : ks = [js EXCEPT ![w] = IdleJob]
  OBVIOUS
<1>2. IdleJob \in [batch : Seq(Tx), stale : BOOLEAN] /\ IdleJob.batch = <<>> /\ IdleJob.stale = FALSE
  BY EmptySeq DEF IdleJob
<1>3. js \in [Worker -> [batch : Seq(Tx), stale : BOOLEAN]]
  BY DEF JobTypes
<1>4. ks \in [Worker -> [batch : Seq(Tx), stale : BOOLEAN]] /\ \A v \in Worker : ks[v] = IF v = w THEN IdleJob ELSE js[v]
  BY <1>1, <1>2, <1>3
<1>5. JobTypes(ks)
  BY <1>2, <1>4 DEF JobTypes
<1>6. ASSUME JobsFit(js, Q), js[w].stale PROVE JobsFit(ks, Q)
  <2>1. \A v \in Worker : ks[v].batch # <<>> /\ ~ks[v].stale => ks[v].batch \in Q
    BY <1>2, <1>4, <1>6 DEF JobsFit
  <2>2. \A u, v \in Worker :
          u # v /\ ~ks[u].stale /\ ~ks[v].stale /\ ks[u].batch = ks[v].batch => ks[u].batch = <<>>
    BY <1>2, <1>4, <1>6 DEF JobsFit
  <2>3. \A b \in Q : \E v \in Worker : ks[v].batch = b /\ ~ks[v].stale
    BY <1>4, <1>6 DEF JobsFit
  <2> QED BY <2>1, <2>2, <2>3 DEF JobsFit
<1>7. ASSUME JobsFit(js, Q), js[w].batch # <<>>, ~js[w].stale
      PROVE  js[w].batch \in Q /\ JobsFit(ks, Q \ {js[w].batch})
  <2>1. js[w].batch \in Q
    BY <1>7 DEF JobsFit
  <2>2. \A v \in Worker : ks[v].batch # <<>> /\ ~ks[v].stale => ks[v].batch \in Q \ {js[w].batch}
    BY <1>2, <1>4, <1>7 DEF JobsFit
  <2>3. \A u, v \in Worker :
          u # v /\ ~ks[u].stale /\ ~ks[v].stale /\ ks[u].batch = ks[v].batch => ks[u].batch = <<>>
    BY <1>2, <1>4, <1>7 DEF JobsFit
  <2>4. \A b \in Q \ {js[w].batch} : \E v \in Worker : ks[v].batch = b /\ ~ks[v].stale
    BY <1>4, <1>7 DEF JobsFit
  <2> QED BY <2>1, <2>2, <2>3, <2>4 DEF JobsFit
<1> QED BY <1>1, <1>4, <1>5, <1>6, <1>7

(* A worker takes a batch that no one has.                                  *)
LEMMA JobStarts ==
    ASSUME NEW js, JobTypes(js), NEW Q, NEW w \in Worker, js[w].batch = <<>>,
           NEW b \in Batch, <<>> \notin Q
    PROVE  LET ks == [js EXCEPT ![w].batch = b]
           IN  /\ JobTypes(ks)
               /\ \A v \in Worker : v # w => ks[v] = js[v]
               /\ ks[w].batch = b /\ ~ks[w].stale
               /\ JobsFit(js, Q) /\ b \notin Q => JobsFit(ks, Q \cup {b})
<1>1. PICK ks : ks = [js EXCEPT ![w].batch = b]
  OBVIOUS
<1>2. js \in [Worker -> [batch : Seq(Tx), stale : BOOLEAN]] /\ ~js[w].stale /\ b \in Seq(Tx) /\ b # <<>>
  BY DEF JobTypes, Batch
<1>3. ks \in [Worker -> [batch : Seq(Tx), stale : BOOLEAN]]
  BY <1>1, <1>2
<1>4. (\A v \in Worker : v # w => ks[v] = js[v]) /\ ks[w].batch = b /\ ks[w].stale = js[w].stale
  BY <1>1, <1>2
<1>5. JobTypes(ks)
  BY <1>2, <1>3, <1>4 DEF JobTypes
<1>6. ASSUME JobsFit(js, Q), b \notin Q PROVE JobsFit(ks, Q \cup {b})
  <2>1. \A v \in Worker : ks[v].batch # <<>> /\ ~ks[v].stale => ks[v].batch \in Q \cup {b}
    BY <1>4, <1>6 DEF JobsFit
  <2>2. \A v \in Worker : v # w /\ ~js[v].stale => js[v].batch # b
    BY <1>2, <1>6 DEF JobsFit
  <2>3. \A u, v \in Worker :
          u # v /\ ~ks[u].stale /\ ~ks[v].stale /\ ks[u].batch = ks[v].batch => ks[u].batch = <<>>
    BY <1>4, <1>6, <2>2 DEF JobsFit
  <2>4. \A c \in Q \cup {b} : \E v \in Worker : ks[v].batch = c /\ ~ks[v].stale
    <3>1. ASSUME NEW c \in Q PROVE \E v \in Worker : ks[v].batch = c /\ ~ks[v].stale
      <4>1. PICK v \in Worker : js[v].batch = c /\ ~js[v].stale
        BY <1>6, <3>1 DEF JobsFit
      <4>2. CASE v # w
        BY <1>4, <4>1, <4>2
      <4>3. CASE v = w
        <5>1. c = <<>>
          BY <4>1, <4>3
        <5> QED BY <3>1, <5>1
      <4> QED BY <4>2, <4>3
    <3> QED BY <1>2, <1>4, <3>1
  <2> QED BY <2>1, <2>3, <2>4 DEF JobsFit
<1> QED BY <1>1, <1>2, <1>4, <1>5, <1>6

-----------------------------------------------------------------------------
(* THE STEPS                                                                *)

(* The batches of a consistent mempool.                                     *)
LEMMA BatchFacts ==
    ASSUME NEW m, Consistent(m)
    PROVE  /\ m.batches.inner.pending \subseteq m.batches.batches
           /\ m.batches.inner.processed \subseteq m.batches.batches
           /\ m.batches.batches \subseteq Batch /\ <<>> \notin m.batches.inner.pending
           /\ m.block_in_progress # {} /\ m.batches.inner.processed = UNION m.block_in_progress
              => m.block_in_progress = {m.batches.inner.processed}
<1>1. PICK bs : bs = m.batches
  OBVIOUS
<1>2. WellFormed(bs.inner, Batch) /\ Nodes(bs.inner) = bs.batches
  BY <1>1 DEF Consistent, Sound, BatchesOK
<1>3. /\ bs.inner.pending \subseteq bs.batches /\ bs.inner.processed \subseteq bs.batches
      /\ bs.batches \subseteq Batch
  BY <1>2 DEF WellFormed, GraphType, Nodes
<1>4. <<>> \notin bs.inner.pending
  BY <1>3 DEF Batch
<1>5. ASSUME m.block_in_progress # {}, m.batches.inner.processed = UNION m.block_in_progress
      PROVE  m.block_in_progress = {m.batches.inner.processed}
  BY <1>5 DEF Consistent, Sound
<1> QED BY <1>1, <1>3, <1>4, <1>5

(* What a step promises of the mempool and those that use it.               *)
MempoolPart ==
    /\ Consistent(mempool)
    /\ JobTypes(jobs)
    /\ BuilderMatches
    /\ ~reused => Undisturbed
    /\ ~reused /\ faults.lost = 0 => TipsMatch

(* A call that leaves the batches alone.                                    *)
LEMMA QuietCall ==
    ASSUME Inv, NEW n, Consistent(n), n.panicked = mempool.panicked,
           SameBuilds(mempool, n), SameTips(mempool, n),
           Call(n, jobs), UNCHANGED <<builder, store, reused, faults>>
    PROVE  MempoolPart'
<1>1. mempool' = n /\ jobs' = Tracking(jobs, n)
  BY DEF Call
<1>2. JobTypes(jobs) /\ Consistent(mempool) /\ BuilderMatches
  BY DEF Inv, ProcessTypes
<1>3. PICK Q : Q = mempool.batches.inner.pending
  OBVIOUS
<1>4. n.batches.inner.pending = Q \cap n.batches.batches
  BY <1>2, <1>3, BatchFacts DEF SameBuilds
<1>5. JobTypes(jobs') /\ (JobsFit(jobs, Q) => JobsFit(jobs', n.batches.inner.pending))
  BY <1>1, <1>2, <1>4, TrackingOK
<1>6. BuilderMatches'
  BY <1>1, <1>2 DEF BuilderMatches, height, SameBuilds
<1>7. ASSUME ~reused' PROVE Undisturbed'
  <2>1. ~reused /\ Undisturbed
    BY <1>7 DEF Inv
  <2> QED BY <1>1, <1>3, <1>5, <2>1 DEF Undisturbed, SameBuilds
<1>8. ASSUME ~reused', faults'.lost = 0 PROVE TipsMatch'
  <2>1. TipsMatch
    BY <1>8 DEF Inv
  <2> QED BY <1>1, <2>1 DEF TipsMatch, SameTips, height
<1> QED BY <1>1, <1>5, <1>6, <1>7, <1>8 DEF MempoolPart

(* A step that leaves the mempool and its builders alone.                   *)
LEMMA NoCall ==
    ASSUME Inv, UNCHANGED <<mempool, jobs, builder, store, reused>>, faults'.lost = faults.lost
    PROVE  MempoolPart' /\ BuilderTypes' /\ StoreTypes'
BY DEF Inv, ProcessTypes, MempoolPart, BuilderTypes, StoreTypes, BuilderMatches, Undisturbed, JobsFit,
       JobTypes, TipsMatch, height

(* The length of the chain.                                                 *)
LEMMA HeightFacts ==
    ASSUME StoreTypes
    PROVE  height \in Nat /\ \A i \in 1 .. height : store.chain[i] \subseteq Tx
BY LenProperties, ElementOfSeq DEF StoreTypes, height

(* Every bounded fault counts for itself.                                   *)
LEMMA FaultOK ==
    ASSUME FaultTypes, NEW kind \in {"batch", "block", "lost", "restart", "subscription"}, NEW bound,
           Fault(kind, bound), reused' \in BOOLEAN
    PROVE  /\ FaultTypes'
           /\ kind # "lost" => faults'.lost = faults.lost
           /\ kind = "lost" => faults'.lost # 0
BY DEF FaultTypes, Fault

(* The handlers' steps.                                                     *)
LEMMA RequestSteps ==
    ASSUME Inv, NEW t \in Tx, ReadInputs(t) \/ ReportHeight(t)
    PROVE  Inv'
<1>1. /\ UNCHANGED <<mempool, jobs, builder, store, subscriber, reused, faults>>
  BY DEF ReadInputs, ReportHeight
<1>2. RequestTypes /\ StoreTypes /\ SubscriberTypes /\ FaultTypes
  BY DEF Inv, ProcessTypes
<1>3. height \in Nat
  BY <1>2, HeightFacts
<1>4. CASE ReadInputs(t)
  <2>1. store.accounts[account_id(t)] \in Nat /\ proven_unauthenticated(t) \subseteq Note
    BY <1>2, TransactionsAssumption DEF StoreTypes, account_id, proven_unauthenticated
  <2>2. PICK auth : auth = [state   |-> store.accounts[account_id(t)],
                            notes   |-> proven_unauthenticated(t) \cap CommittedNotes,
                            height  |-> 0,
                            read_at |-> height]
    OBVIOUS
  <2>3. auth \in Authentication
    BY <1>3, <2>1, <2>2 DEF Authentication
  <2>4. requests' = requests \/ requests' = [requests EXCEPT ![t] = [step |-> "read", auth |-> auth]]
    BY <1>4, <2>2 DEF ReadInputs
  <2> QED BY <1>1, <1>2, <2>3, <2>4, NoCall
          DEF Inv, MempoolPart, ProcessTypes, RequestTypes, SubscriberTypes, FaultTypes, Inputs
<1>5. CASE ReportHeight(t)
  <2>1. requests[t] \in Inputs
    BY <1>2, <1>5 DEF ReportHeight, RequestTypes, NoRequest
  <2>2. [requests[t] EXCEPT !.step = "authenticated", !.auth.height = height] \in Inputs
    BY <1>3, <2>1 DEF Inputs, Authentication
  <2>3. requests' = [requests EXCEPT ![t] = [requests[t] EXCEPT !.step = "authenticated", !.auth.height = height]]
    BY <1>2, <1>5, <2>1 DEF ReportHeight, RequestTypes, Inputs, Authentication
  <2>4. RequestTypes'
    BY <1>2, <2>2, <2>3 DEF RequestTypes
  <2> QED BY <1>1, <1>2, <2>4, NoCall
          DEF Inv, MempoolPart, ProcessTypes, SubscriberTypes, FaultTypes
<1> QED BY <1>4, <1>5

LEMMA AddTransactionStep ==
    ASSUME Inv, NEW t \in Tx, AddTransaction(t)
    PROVE  Inv'
<1>1. UNCHANGED <<builder, store, subscriber, faults, reused>>
  BY DEF AddTransaction
<1>2. /\ RequestTypes /\ StoreTypes /\ SubscriberTypes /\ FaultTypes /\ BuilderTypes
      /\ Consistent(mempool)
  BY DEF Inv, ProcessTypes
<1>3. PICK auth : auth = requests[t].auth
  OBVIOUS
<1>4. MempoolPart'
  <2>1. CASE add_transaction_result(mempool, t, auth) = "Ok"
    <3>1. PICK n : n = add_transaction(mempool, t, auth)
      OBVIOUS
    <3>2. Call(n, jobs)
      BY <1>3, <2>1, <3>1 DEF AddTransaction
    <3>3. Consistent(n) /\ n.panicked = mempool.panicked /\ SameBuilds(mempool, n) /\ SameTips(mempool, n)
      BY <1>2, <2>1, <3>1, AddOK
    <3> QED BY <1>1, <3>2, <3>3, QuietCall
  <2>2. CASE add_transaction_result(mempool, t, auth) # "Ok"
    <3>1. Call(mempool, jobs)
      BY <1>3, <2>2 DEF AddTransaction
    <3>2. SameBuilds(mempool, mempool) /\ SameTips(mempool, mempool)
      BY DEF SameBuilds, SameTips
    <3> QED BY <1>1, <1>2, <3>1, <3>2, QuietCall
  <2> QED BY <2>1, <2>2
<1>5. RequestTypes'
  <2>1. requests' = [requests EXCEPT ![t] = NoRequest]
    BY DEF AddTransaction
  <2> QED BY <1>2, <2>1 DEF RequestTypes
<1>6. StoreTypes' /\ SubscriberTypes' /\ FaultTypes' /\ BuilderTypes'
  BY <1>1, <1>2 DEF StoreTypes, SubscriberTypes, FaultTypes, BuilderTypes, height
<1> QED BY <1>4, <1>5, <1>6 DEF Inv, MempoolPart, ProcessTypes

(* The batch jobs' steps.                                                   *)
LEMMA SelectBatchStep ==
    ASSUME Inv, NEW w \in Worker, SelectBatch(w)
    PROVE  Inv'
<1>1. UNCHANGED <<requests, builder, store, subscriber, faults, reused>>
  BY DEF SelectBatch
<1>2. /\ RequestTypes /\ StoreTypes /\ SubscriberTypes /\ FaultTypes /\ BuilderTypes
      /\ Consistent(mempool) /\ JobTypes(jobs) /\ BuilderMatches
  BY DEF Inv, ProcessTypes
<1>3. PICK b, n, js, Q : /\ b = select_batch_result(mempool) /\ n = select_batch(mempool)
                         /\ js = [jobs EXCEPT ![w].batch = b] /\ Q = mempool.batches.inner.pending
  OBVIOUS
<1>4. jobs[w].batch = <<>> /\ b # <<>> /\ mempool' = n /\ jobs' = Tracking(js, n)
  BY <1>3 DEF SelectBatch, Call
<1>5. /\ Consistent(n) /\ n.panicked = mempool.panicked
      /\ b \in Batch /\ b \notin mempool.batches.batches
      /\ n.batches.batches = mempool.batches.batches \cup {b}
      /\ n.batches.inner.pending = Q \cup {b}
      /\ n.batches.inner.processed = mempool.batches.inner.processed
      /\ n.block_in_progress = mempool.block_in_progress
      /\ SameTips(mempool, n)
  BY <1>2, <1>3, <1>4, SelectBatchOK
<1>6. Q \subseteq mempool.batches.batches /\ <<>> \notin Q /\ b \notin Q
  BY <1>2, <1>3, <1>5, BatchFacts
<1>7. JobTypes(js) /\ (JobsFit(jobs, Q) => JobsFit(js, Q \cup {b}))
  BY <1>2, <1>3, <1>4, <1>5, <1>6, JobStarts
<1>8. n.batches.inner.pending = (Q \cup {b}) \cap n.batches.batches
  BY <1>5, <1>6
<1>9. JobTypes(jobs') /\ (JobsFit(js, Q \cup {b}) => JobsFit(jobs', n.batches.inner.pending))
  BY <1>4, <1>7, <1>8, TrackingOK
<1>10. BuilderMatches'
  BY <1>1, <1>2, <1>4, <1>5 DEF BuilderMatches, height
<1>11. ASSUME ~reused' PROVE Undisturbed'
  <2>1. Undisturbed
    BY <1>1, <1>11 DEF Inv
  <2> QED BY <1>3, <1>4, <1>5, <1>7, <1>9, <2>1 DEF Undisturbed
<1>12. ASSUME ~reused', faults'.lost = 0 PROVE TipsMatch'
  <2>1. TipsMatch
    BY <1>1, <1>12 DEF Inv
  <2> QED BY <1>1, <1>4, <1>5, <2>1 DEF TipsMatch, SameTips, height
<1>13. RequestTypes' /\ StoreTypes' /\ SubscriberTypes' /\ FaultTypes' /\ BuilderTypes'
  BY <1>1, <1>2 DEF RequestTypes, StoreTypes, SubscriberTypes, FaultTypes, BuilderTypes, height
<1> QED BY <1>4, <1>5, <1>9, <1>10, <1>11, <1>12, <1>13 DEF Inv, ProcessTypes

(* A job ends: its batch is one that awaits its proof, or is unknown.       *)
LEMMA JobEndsCall ==
    ASSUME Inv, NEW w \in Worker, NEW b, b = jobs[w].batch, b # <<>>,
           NEW n, Consistent(n), SameTips(mempool, n),
           n.block_in_progress = mempool.block_in_progress,
           ~mempool.panicked,
           b \notin mempool.batches.batches => n = mempool,
           b \in mempool.batches.inner.pending =>
             /\ n.panicked = mempool.panicked
             /\ n.batches.inner.pending = (mempool.batches.inner.pending \ {b}) \cap n.batches.batches
             /\ n.batches.inner.processed = mempool.batches.inner.processed,
           Call(n, [jobs EXCEPT ![w] = IdleJob]),
           reused' = (reused \/ Aliased(w)),
           UNCHANGED <<builder, store>>, faults'.lost = faults.lost
    PROVE  MempoolPart'
<1>1. PICK js, Q : js = [jobs EXCEPT ![w] = IdleJob] /\ Q = mempool.batches.inner.pending
  OBVIOUS
<1>2. mempool' = n /\ jobs' = Tracking(js, n)
  BY <1>1 DEF Call
<1>3. JobTypes(jobs) /\ Consistent(mempool) /\ BuilderMatches
  BY DEF Inv, ProcessTypes
<1>4. /\ JobTypes(js)
      /\ JobsFit(jobs, Q) /\ jobs[w].stale => JobsFit(js, Q)
      /\ JobsFit(jobs, Q) /\ ~jobs[w].stale => b \in Q /\ JobsFit(js, Q \ {b})
  BY <1>1, <1>3, JobEnds
<1>5. JobTypes(jobs')
  BY <1>2, <1>4, TrackingOK
<1>6. BuilderMatches'
  BY <1>2, <1>3 DEF BuilderMatches, height
<1>7. ASSUME ~reused' PROVE Undisturbed'
  <2>1. Undisturbed /\ ~Aliased(w)
    BY <1>7 DEF Inv
  <2>2. JobsFit(jobs, Q) /\ ~mempool.panicked
    BY <1>1, <2>1 DEF Undisturbed
  <2>3. CASE jobs[w].stale
    <3>1. n = mempool
      BY <2>1, <2>3 DEF Aliased
    <3>2. n.batches.inner.pending = Q \cap n.batches.batches
      BY <1>1, <1>3, <3>1, BatchFacts
    <3>3. JobsFit(jobs', n.batches.inner.pending)
      BY <1>2, <1>4, <2>2, <2>3, <3>2, TrackingOK
    <3> QED BY <1>2, <2>1, <3>1, <3>3 DEF Undisturbed
  <2>4. CASE ~jobs[w].stale
    <3>1. PICK T : T = Q \ {b}
      OBVIOUS
    <3>2. b \in Q /\ JobsFit(js, T)
      BY <1>4, <2>2, <2>4, <3>1
    <3>3. /\ n.panicked = mempool.panicked /\ n.batches.inner.processed = mempool.batches.inner.processed
          /\ n.batches.inner.pending = T \cap n.batches.batches
      BY <1>1, <3>1, <3>2
    <3>4. JobsFit(jobs', n.batches.inner.pending)
      BY <1>2, <1>4, <3>2, <3>3, TrackingOK
    <3> QED BY <1>2, <2>1, <3>3, <3>4 DEF Undisturbed
  <2> QED BY <2>3, <2>4
<1>8. ASSUME ~reused', faults'.lost = 0 PROVE TipsMatch'
  <2>1. TipsMatch
    BY <1>8 DEF Inv
  <2> QED BY <1>2, <2>1 DEF TipsMatch, SameTips, height
<1> QED BY <1>2, <1>5, <1>6, <1>7, <1>8 DEF MempoolPart

LEMMA CommitBatchStep ==
    ASSUME Inv, ~mempool.panicked, NEW w \in Worker, CommitBatch(w)
    PROVE  Inv'
<1>1. UNCHANGED <<requests, builder, store, subscriber, faults>> /\ reused' = (reused \/ Aliased(w))
  BY DEF CommitBatch
<1>2. /\ RequestTypes /\ StoreTypes /\ SubscriberTypes /\ FaultTypes /\ BuilderTypes
      /\ Consistent(mempool) /\ JobTypes(jobs)
  BY DEF Inv, ProcessTypes
<1>3. PICK b, n : b = jobs[w].batch /\ n = commit_batch(mempool, b)
  OBVIOUS
<1>4. b # <<>> /\ Call(n, [jobs EXCEPT ![w] = IdleJob])
  BY <1>3 DEF CommitBatch
<1>5. /\ Consistent(n) /\ SameTips(mempool, n)
      /\ b \notin mempool.batches.batches => n = mempool
      /\ b \in mempool.batches.inner.pending =>
           /\ n.panicked = mempool.panicked
           /\ n.batches.inner.pending = mempool.batches.inner.pending \ {b}
           /\ n.batches.inner.processed = mempool.batches.inner.processed
      /\ n.batches.batches = mempool.batches.batches
      /\ n.block_in_progress = mempool.block_in_progress
  BY <1>2, <1>3, CommitBatchOK
<1>6. (mempool.batches.inner.pending \ {b}) \cap n.batches.batches = mempool.batches.inner.pending \ {b}
  BY <1>2, <1>5, BatchFacts
<1>7. MempoolPart'
  BY <1>1, <1>3, <1>4, <1>5, <1>6, JobEndsCall
<1>8. RequestTypes' /\ StoreTypes' /\ SubscriberTypes' /\ FaultTypes' /\ BuilderTypes'
  <2>1. Aliased(w) \in BOOLEAN
    BY <1>2 DEF Aliased, JobTypes
  <2> QED BY <1>1, <1>2, <2>1 DEF RequestTypes, StoreTypes, SubscriberTypes, FaultTypes, BuilderTypes, height
<1> QED BY <1>7, <1>8 DEF Inv, MempoolPart, ProcessTypes

LEMMA RollbackBatchStep ==
    ASSUME Inv, ~mempool.panicked, NEW w \in Worker, RollbackBatch(w)
    PROVE  Inv'
<1>1. /\ UNCHANGED <<requests, builder, store, subscriber>> /\ reused' = (reused \/ Aliased(w))
      /\ Fault("batch", MaxBatchFailures)
  BY DEF RollbackBatch
<1>2. /\ RequestTypes /\ StoreTypes /\ SubscriberTypes /\ FaultTypes /\ BuilderTypes
      /\ Consistent(mempool) /\ JobTypes(jobs)
  BY DEF Inv, ProcessTypes
<1>3. PICK b, n : b = jobs[w].batch /\ n = rollback_batch(mempool, b)
  OBVIOUS
<1>4. b # <<>> /\ Call(n, [jobs EXCEPT ![w] = IdleJob])
  BY <1>3 DEF RollbackBatch
<1>5. /\ Consistent(n) /\ n.panicked = mempool.panicked /\ SameTips(mempool, n)
      /\ b \notin mempool.batches.batches => n = mempool
      /\ b \in mempool.batches.batches =>
           /\ b \notin n.batches.batches
           /\ n.batches.inner.pending = mempool.batches.inner.pending \cap n.batches.batches
           /\ b \notin mempool.batches.inner.processed =>
                n.batches.inner.processed = mempool.batches.inner.processed
           /\ n.block_in_progress = mempool.block_in_progress
  BY <1>2, <1>3, RollbackBatchOK
<1>6. ASSUME b \in mempool.batches.inner.pending
      PROVE  /\ n.batches.inner.pending = (mempool.batches.inner.pending \ {b}) \cap n.batches.batches
             /\ n.batches.inner.processed = mempool.batches.inner.processed
  <2>1. b \notin mempool.batches.inner.processed
    <3>1. PICK in : in = mempool.batches.inner
      OBVIOUS
    <3>2. WellFormed(in, Batch)
      BY <1>2, <3>1 DEF Consistent, Sound, BatchesOK
    <3> QED BY <1>6, <3>1, <3>2 DEF WellFormed, GraphType
  <2>2. b \in mempool.batches.batches
    BY <1>2, <1>6, BatchFacts
  <2> QED BY <1>5, <2>1, <2>2
<1>7. faults'.lost = faults.lost
  BY <1>1, <1>2 DEF Fault, FaultTypes
<1>8. n.block_in_progress = mempool.block_in_progress
  BY <1>5
<1>9. MempoolPart'
  BY <1>1, <1>3, <1>4, <1>5, <1>6, <1>7, <1>8, JobEndsCall
<1>10. FaultTypes'
  <2>1. reused' \in BOOLEAN
    BY <1>1, <1>2 DEF Aliased, JobTypes, FaultTypes
  <2> QED BY <1>1, <1>2, <2>1, FaultOK
<1>11. RequestTypes' /\ StoreTypes' /\ SubscriberTypes' /\ BuilderTypes'
  BY <1>1, <1>2 DEF RequestTypes, StoreTypes, SubscriberTypes, BuilderTypes, height
<1> QED BY <1>9, <1>10, <1>11 DEF Inv, MempoolPart, ProcessTypes

(* The account states after a valid block.                                  *)
LEMMA StateAfterOK ==
    ASSUME StoreTypes, NEW txs, txs \subseteq Tx, IsFiniteSet(txs), Valid(txs), NEW a \in Account
    PROVE  StateAfter(txs, a) \in Nat
<1>1. PICK order : order = CHOOSE o \in Orders(txs) : TRUE
  OBVIOUS
<1>2. PICK N : N = Cardinality(txs)
  OBVIOUS
<1>3. order \in [1 .. N -> txs] /\ N \in Nat
  <2>1. order \in Orders(txs)
    BY <1>1 DEF Valid
  <2>2. N \in Nat
    BY <1>2, FS_CardinalityType
  <2> QED BY <1>2, <2>1, <2>2 DEF Orders
<1>4. PICK mine : mine = {i \in DOMAIN order : account_id(order[i]) = a}
  OBVIOUS
<1>5. mine \subseteq 1 .. N
  BY <1>3, <1>4
<1>6. StateAfter(txs, a) = IF mine = {} THEN store.accounts[a]
                           ELSE final_state(order[CHOOSE i \in mine : \A j \in mine : j <= i])
  BY <1>1, <1>4 DEF StateAfter
<1>7. CASE mine = {}
  BY <1>6, <1>7 DEF StoreTypes
<1>8. CASE mine # {}
  <2>1. PICK T : T = {N - i : i \in mine}
    OBVIOUS
  <2>2. T \subseteq Nat /\ T # {}
    <3>1. \A i \in 1 .. N : N - i \in Nat
      BY <1>3
    <3>2. \A i \in mine : N - i \in Nat
      BY <1>5, <3>1
    <3> QED BY <1>8, <2>1, <3>2
  <2>3. PICK x \in T : \A y \in T : x <= y
    BY <2>2, LeastNatural
  <2>4. PICK i \in mine : x = N - i
    BY <2>1, <2>3
  <2>5. ASSUME NEW j \in mine PROVE j <= i
    <3>1. N - i <= N - j
      BY <2>1, <2>3, <2>4
    <3> QED BY <1>3, <1>5, <3>1
  <2>6. PICK k : k = CHOOSE q \in mine : \A j \in mine : j <= q
    OBVIOUS
  <2>7. k \in mine
    BY <2>5, <2>6
  <2>8. order[k] \in Tx
    BY <1>3, <1>5, <2>7
  <2> QED BY <1>6, <1>8, <2>6, <2>8, TxFacts
<1> QED BY <1>7, <1>8

(* The block builder's steps.                                               *)
LEMMA SelectBlockStep ==
    ASSUME Inv, ~mempool.panicked, SelectBlock
    PROVE  Inv'
<1>1. UNCHANGED <<requests, store, subscriber, faults, reused>> /\ builder.step = "idle" /\ height < MaxHeight
  BY DEF SelectBlock
<1>2. /\ RequestTypes /\ StoreTypes /\ SubscriberTypes /\ FaultTypes /\ BuilderTypes
      /\ Consistent(mempool) /\ JobTypes(jobs) /\ BuilderMatches
  BY DEF Inv, ProcessTypes
<1>3. mempool.block_in_progress = {}
  BY <1>1, <1>2 DEF BuilderMatches
<1>4. PICK S \in BatchSelections(mempool.batches.inner) :
        /\ Call(select_block(mempool, S), jobs)
        /\ builder' = [step |-> "selected", block |-> TxsOf(S)]
  BY DEF SelectBlock
<1>5. PICK n, Q : n = select_block(mempool, S) /\ Q = mempool.batches.inner.pending
  OBVIOUS
<1>6. mempool' = n /\ jobs' = Tracking(jobs, n)
  BY <1>4, <1>5 DEF Call
<1>7. /\ Consistent(n) /\ SameTips(mempool, n)
      /\ n.panicked = mempool.panicked
      /\ n.batches.batches = mempool.batches.batches
      /\ n.batches.inner.pending = Q
      /\ n.batches.inner.processed = mempool.batches.inner.processed \cup S
      /\ n.block_in_progress = {S}
  BY <1>2, <1>3, <1>4, <1>5, SelectBlockOK
<1>8. TxsOf(S) \subseteq Tx /\ IsFiniteSet(TxsOf(S))
  <2>1. PICK g, bs : g = mempool.transactions /\ bs = mempool.batches
    OBVIOUS
  <2>2. BatchesOK(bs, g) /\ GraphOK(g)
    BY <1>2, <2>1 DEF Consistent, Sound
  <2>3. S \subseteq bs.inner.processed \cup S /\ S \subseteq bs.batches
    <3>1. S \subseteq bs.inner.vertices
      BY <2>1 DEF BatchSelections
    <3> QED BY <2>2, <3>1 DEF BatchesOK, Nodes
  <2>4. TxsOf(S) \subseteq g.processed
    BY <2>2, <2>3, IndexFacts
  <2>5. g.processed \subseteq Nodes(g) /\ Nodes(g) \subseteq Tx /\ IsFiniteSet(Nodes(g))
    BY <2>2, TrackedAreTxs DEF GraphOK
  <2> QED BY <2>4, <2>5, FS_Subset
<1>9. Q = Q \cap n.batches.batches
  BY <1>2, <1>5, <1>7, BatchFacts
<1>10. JobTypes(jobs') /\ (JobsFit(jobs, Q) => JobsFit(jobs', n.batches.inner.pending))
  BY <1>2, <1>6, <1>7, <1>9, TrackingOK
<1>11. UNION {S} = S /\ UNION {} = {}
  OBVIOUS
<1>12. builder'.step = "selected" /\ builder'.block = TxsOf(S)
  BY <1>4
<1>13. BuilderMatches'
  BY <1>6, <1>7, <1>11, <1>12 DEF BuilderMatches
<1>14. ASSUME ~reused' PROVE Undisturbed'
  <2>1. Undisturbed
    BY <1>1, <1>14 DEF Inv
  <2>2. n.batches.inner.processed = S
    BY <1>3, <1>7, <1>11, <2>1 DEF Undisturbed
  <2> QED BY <1>5, <1>6, <1>7, <1>10, <1>11, <2>1, <2>2 DEF Undisturbed
<1>15. ASSUME ~reused', faults'.lost = 0 PROVE TipsMatch'
  <2>1. TipsMatch
    BY <1>1, <1>15 DEF Inv
  <2> QED BY <1>1, <1>6, <1>7, <1>12, <2>1 DEF TipsMatch, SameTips, height
<1>16. BuilderTypes'
  BY <1>1, <1>4, <1>8, <1>12 DEF BuilderTypes, height
<1>17. RequestTypes' /\ StoreTypes' /\ SubscriberTypes' /\ FaultTypes'
  BY <1>1, <1>2 DEF RequestTypes, StoreTypes, SubscriberTypes, FaultTypes, height
<1> QED BY <1>6, <1>7, <1>10, <1>13, <1>14, <1>15, <1>16, <1>17 DEF Inv, ProcessTypes

LEMMA ApplyBlockStep ==
    ASSUME Inv, ApplyBlock
    PROVE  Inv'
<1>1. /\ UNCHANGED <<mempool, requests, jobs, subscriber, reused>>
      /\ builder.step = "selected" /\ Valid(builder.block)
  BY DEF ApplyBlock
<1>2. /\ RequestTypes /\ StoreTypes /\ SubscriberTypes /\ FaultTypes /\ BuilderTypes
      /\ Consistent(mempool) /\ JobTypes(jobs) /\ BuilderMatches
  BY DEF Inv, ProcessTypes
<1>3. height \in Nat /\ height < MaxHeight /\ builder.block \subseteq Tx /\ IsFiniteSet(builder.block)
  BY <1>1, <1>2, HeightFacts DEF BuilderTypes
<1>4. /\ store' = [chain |-> store'.chain, accounts |-> store'.accounts]
      /\ store'.chain = Append(store.chain, builder.block)
      /\ store'.accounts = [a \in Account |-> StateAfter(builder.block, a)]
  BY DEF ApplyBlock
<1>5. /\ store'.chain \in Seq(SUBSET Tx) /\ height' = height + 1
      /\ store'.chain[height'] = builder.block
  <2>1. store.chain \in Seq(SUBSET Tx) /\ builder.block \in SUBSET Tx
    BY <1>2, <1>3 DEF StoreTypes
  <2>2. /\ store'.chain \in Seq(SUBSET Tx) /\ Len(store'.chain) = Len(store.chain) + 1
        /\ store'.chain[Len(store.chain) + 1] = builder.block
    BY <1>4, <2>1, AppendProperties
  <2> QED BY <2>2 DEF height
<1>6. MaxHeight \in Nat
  BY BlockProducerAssumption
<1>7. StoreTypes'
  <2>1. store'.accounts \in [Account -> Nat]
    BY <1>1, <1>2, <1>3, <1>4, StateAfterOK
  <2>2. height' <= MaxHeight
    BY <1>3, <1>5, <1>6
  <2> QED BY <1>4, <1>5, <2>1, <2>2 DEF StoreTypes
<1>8. /\ builder'.block = builder.block /\ builder' \in [step : {"applied", "failed"}, block : SUBSET Tx]
      /\ \/ builder'.step = "applied" /\ UNCHANGED faults
         \/ builder'.step = "failed" /\ Fault("lost", MaxLostReplies)
  BY <1>2 DEF ApplyBlock, BuilderTypes
<1>9. FaultTypes' /\ (builder'.step = "applied" \/ faults'.lost # 0)
  <2>1. reused' \in BOOLEAN
    BY <1>1, <1>2 DEF FaultTypes
  <2> QED BY <1>2, <1>8, <2>1, FaultOK DEF FaultTypes
<1>10. BuilderTypes'
  BY <1>3, <1>8 DEF BuilderTypes
<1>11. BuilderMatches'
  <2>1. height' > 0
    BY <1>3, <1>5
  <2> QED BY <1>1, <1>2, <1>5, <1>8, <2>1 DEF BuilderMatches
<1>12. ASSUME ~reused' PROVE Undisturbed'
  <2>1. Undisturbed
    BY <1>1, <1>12 DEF Inv
  <2> QED BY <1>1, <2>1 DEF Undisturbed, JobsFit
<1>13. ASSUME ~reused', faults'.lost = 0 PROVE TipsMatch'
  <2>1. builder'.step = "applied" /\ faults'.lost = faults.lost
    BY <1>8, <1>9, <1>13
  <2>2. TipsMatch
    BY <1>1, <1>13, <2>1 DEF Inv
  <2>3. mempool'.chain_tip = height /\ mempool'.subscription.chain_tip = height
    BY <1>1, <1>3, <2>2 DEF TipsMatch
  <2> QED BY <1>3, <1>5, <2>1, <2>3 DEF TipsMatch
<1>14. RequestTypes' /\ SubscriberTypes' /\ JobTypes(jobs)' /\ Consistent(mempool)'
  BY <1>1, <1>2 DEF RequestTypes, SubscriberTypes, JobTypes
<1> QED BY <1>7, <1>9, <1>10, <1>11, <1>12, <1>13, <1>14 DEF Inv, ProcessTypes

LEMMA FailBlockStep ==
    ASSUME Inv, FailBlock
    PROVE  Inv'
<1>1. /\ UNCHANGED <<mempool, requests, jobs, store, subscriber, reused>>
      /\ builder.step = "selected" /\ builder' = [builder EXCEPT !.step = "failed"]
      /\ UNCHANGED faults \/ Fault("block", MaxBlockFailures)
  BY DEF FailBlock
<1>2. /\ RequestTypes /\ StoreTypes /\ SubscriberTypes /\ FaultTypes /\ BuilderTypes
      /\ Consistent(mempool) /\ JobTypes(jobs) /\ BuilderMatches
  BY DEF Inv, ProcessTypes
<1>3. FaultTypes' /\ faults'.lost = faults.lost
  <2>1. reused' \in BOOLEAN
    BY <1>1, <1>2 DEF FaultTypes
  <2> QED BY <1>1, <1>2, <2>1, FaultOK DEF FaultTypes
<1>4. builder'.step = "failed" /\ builder'.block = builder.block /\ BuilderTypes'
  BY <1>1, <1>2 DEF BuilderTypes
<1>5. BuilderMatches'
  BY <1>1, <1>2, <1>4 DEF BuilderMatches
<1>6. ASSUME ~reused' PROVE Undisturbed'
  <2>1. Undisturbed
    BY <1>1, <1>6 DEF Inv
  <2> QED BY <1>1, <2>1 DEF Undisturbed, JobsFit
<1>7. ASSUME ~reused', faults'.lost = 0 PROVE TipsMatch'
  <2>1. TipsMatch
    BY <1>1, <1>3, <1>7 DEF Inv
  <2> QED BY <1>1, <1>4, <2>1 DEF TipsMatch, height
<1>8. RequestTypes' /\ SubscriberTypes' /\ StoreTypes' /\ JobTypes(jobs)' /\ Consistent(mempool)'
  BY <1>1, <1>2 DEF RequestTypes, SubscriberTypes, JobTypes, StoreTypes, height
<1> QED BY <1>3, <1>4, <1>5, <1>6, <1>7, <1>8 DEF Inv, ProcessTypes

(* The builder has its answer: the mempool's block in progress is gone.     *)
LEMMA BlockEndsCall ==
    ASSUME Inv, ~mempool.panicked, builder.step # "idle", NEW n, Consistent(n),
           n.panicked \/ n.block_in_progress = {},
           LET P == mempool.batches.inner.processed
           IN  mempool.block_in_progress = {P} =>
                 /\ n.panicked = mempool.panicked
                 /\ n.batches.inner.processed = {}
                 /\ n.block_in_progress = {}
                 /\ n.batches.inner.pending = mempool.batches.inner.pending \cap n.batches.batches,
           Call(n, jobs), builder' = IdleBuilder, UNCHANGED <<store, reused>>
    PROVE  /\ JobTypes(jobs)' /\ BuilderMatches' /\ BuilderTypes' /\ (~reused' => Undisturbed')
           /\ ~reused => mempool.block_in_progress = {mempool.batches.inner.processed}
<1>1. mempool' = n /\ jobs' = Tracking(jobs, n)
  BY DEF Call
<1>2. JobTypes(jobs) /\ Consistent(mempool) /\ BuilderMatches
  BY DEF Inv, ProcessTypes
<1>3. JobTypes(jobs')
  BY <1>1, <1>2, TrackingOK
<1>4. builder'.step = "idle" /\ builder'.block = {} /\ builder' \in [step : {"idle"}, block : SUBSET Tx]
  BY DEF IdleBuilder
<1>5. TxsOf({}) = {} /\ UNION {} = {}
  BY DEF TxsOf
<1>6. BuilderMatches'
  BY <1>1, <1>4, <1>5 DEF BuilderMatches
<1>7. BuilderTypes'
  BY <1>4, FS_EmptySet DEF BuilderTypes
<1>8. ASSUME ~reused PROVE mempool.block_in_progress = {mempool.batches.inner.processed}
  <2>1. Undisturbed
    BY <1>8 DEF Inv
  <2>2. mempool.block_in_progress # {}
    BY <1>2 DEF BuilderMatches
  <2> QED BY <1>2, <2>1, <2>2, BatchFacts DEF Undisturbed
<1>9. ASSUME ~reused' PROVE Undisturbed'
  <2>1. PICK Q : Q = mempool.batches.inner.pending
    OBVIOUS
  <2>2. JobsFit(jobs, Q)
    BY <1>9, <2>1 DEF Inv, Undisturbed
  <2>3. n.batches.inner.pending = Q \cap n.batches.batches
    BY <1>8, <1>9, <2>1
  <2>4. JobsFit(jobs', n.batches.inner.pending)
    BY <1>1, <1>2, <2>2, <2>3, TrackingOK
  <2> QED BY <1>1, <1>5, <1>8, <1>9, <2>4 DEF Undisturbed
<1> QED BY <1>1, <1>3, <1>6, <1>7, <1>8, <1>9

LEMMA CommitBlockStep ==
    ASSUME Inv, ~mempool.panicked, CommitBlock
    PROVE  Inv'
<1>1. /\ UNCHANGED <<requests, store, subscriber, faults, reused>>
      /\ builder.step = "applied" /\ builder' = IdleBuilder
  BY DEF CommitBlock
<1>2. /\ RequestTypes /\ StoreTypes /\ SubscriberTypes /\ FaultTypes /\ Consistent(mempool)
  BY DEF Inv, ProcessTypes
<1>3. height \in Nat
  BY <1>2, HeightFacts
<1>4. PICK n, k : n = commit_block(mempool, k) /\ k = height
  OBVIOUS
<1>5. Call(n, jobs)
  BY <1>4 DEF CommitBlock
<1>6. /\ Consistent(n) /\ (n.panicked \/ n.block_in_progress = {})
      /\ mempool.block_in_progress = {mempool.batches.inner.processed} =>
           /\ n.panicked = mempool.panicked
           /\ n.block_in_progress = {}
           /\ n.batches.inner.processed = {}
           /\ n.batches.inner.pending = mempool.batches.inner.pending \cap n.batches.batches
           /\ n.chain_tip = mempool.chain_tip + 1
           /\ n.subscription.chain_tip = k
  <2>1. k \in Nat
    BY <1>3, <1>4
  <2>2. Commits(mempool, n, k)
    BY <1>2, <1>4, <2>1, CommitBlockOK
  <2> QED BY <2>2 DEF Commits
<1>7. /\ JobTypes(jobs)' /\ BuilderMatches' /\ BuilderTypes' /\ (~reused' => Undisturbed')
      /\ ~reused => mempool.block_in_progress = {mempool.batches.inner.processed}
  BY <1>1, <1>5, <1>6, BlockEndsCall
<1>8. ASSUME ~reused', faults'.lost = 0 PROVE TipsMatch'
  <2>1. TipsMatch
    BY <1>1, <1>8 DEF Inv
  <2>2. mempool.chain_tip = height - 1
    BY <1>1, <2>1 DEF TipsMatch
  <2>3. n.chain_tip = height /\ n.subscription.chain_tip = height
    BY <1>1, <1>3, <1>4, <1>6, <1>7, <1>8, <2>2
  <2>4. mempool' = n /\ height' = height /\ builder'.step = "idle"
    BY <1>1, <1>5 DEF Call, height, IdleBuilder
  <2> QED BY <1>3, <2>3, <2>4 DEF TipsMatch
<1>9. RequestTypes' /\ StoreTypes' /\ SubscriberTypes' /\ FaultTypes' /\ mempool' = n
  BY <1>1, <1>2, <1>5 DEF RequestTypes, StoreTypes, SubscriberTypes, FaultTypes, height, Call
<1> QED BY <1>6, <1>7, <1>8, <1>9 DEF Inv, ProcessTypes

LEMMA RollbackBlockStep ==
    ASSUME Inv, ~mempool.panicked, RollbackBlock
    PROVE  Inv'
<1>1. /\ UNCHANGED <<requests, store, subscriber, faults, reused>>
      /\ builder.step = "failed" /\ builder' = IdleBuilder
  BY DEF RollbackBlock
<1>2. /\ RequestTypes /\ StoreTypes /\ SubscriberTypes /\ FaultTypes /\ Consistent(mempool)
  BY DEF Inv, ProcessTypes
<1>3. PICK n : n = rollback_block(mempool)
  OBVIOUS
<1>4. Call(n, jobs)
  BY <1>3 DEF RollbackBlock
<1>5. /\ Consistent(n) /\ SameTips(mempool, n) /\ (n.panicked \/ n.block_in_progress = {})
      /\ mempool.block_in_progress = {mempool.batches.inner.processed} =>
           /\ n.panicked = mempool.panicked
           /\ n.block_in_progress = {}
           /\ n.batches.inner.processed = {}
           /\ n.batches.inner.pending = mempool.batches.inner.pending \cap n.batches.batches
  BY <1>2, <1>3, RollbackBlockOK
<1>6. /\ JobTypes(jobs)' /\ BuilderMatches' /\ BuilderTypes' /\ (~reused' => Undisturbed')
  BY <1>1, <1>4, <1>5, BlockEndsCall
<1>7. ASSUME ~reused', faults'.lost = 0 PROVE TipsMatch'
  <2>1. TipsMatch
    BY <1>1, <1>7 DEF Inv
  <2>2. mempool' = n /\ height' = height /\ builder'.step = "idle"
    BY <1>1, <1>4 DEF Call, height, IdleBuilder
  <2> QED BY <1>1, <1>5, <2>1, <2>2 DEF TipsMatch, SameTips
<1>8. RequestTypes' /\ StoreTypes' /\ SubscriberTypes' /\ FaultTypes' /\ mempool' = n
  BY <1>1, <1>2, <1>4 DEF RequestTypes, StoreTypes, SubscriberTypes, FaultTypes, height, Call
<1> QED BY <1>5, <1>6, <1>7, <1>8 DEF Inv, ProcessTypes

(* The subscriber's steps.                                                  *)
LEMMA SubscriberSteps ==
    ASSUME Inv, LoadCommitted \/ StreamEnds
    PROVE  Inv'
<1>1. UNCHANGED <<mempool, requests, jobs, builder, store, reused>>
  BY DEF LoadCommitted, StreamEnds
<1>2. RequestTypes /\ StoreTypes /\ SubscriberTypes /\ FaultTypes
  BY DEF Inv, ProcessTypes
<1>3. RequestTypes'
  BY <1>1, <1>2 DEF RequestTypes
<1>4. CASE LoadCommitted
  <2>1. FaultTypes' /\ faults'.lost = faults.lost
    <3>1. reused' \in BOOLEAN /\ Fault("subscription", MaxSubscriptions)
      BY <1>1, <1>2, <1>4 DEF FaultTypes, LoadCommitted
    <3> QED BY <1>2, <3>1, FaultOK
  <2>2. height \in Nat /\ CommittedTxs \subseteq Tx
    <3>1. height \in Nat /\ \A i \in 1 .. height : store.chain[i] \subseteq Tx
      BY <1>2, HeightFacts
    <3>2. ToSet(store.chain) = {store.chain[i] : i \in 1 .. height}
      BY <1>2, LenProperties DEF ToSet, height, StoreTypes
    <3> QED BY <3>1, <3>2 DEF CommittedTxs
  <2>3. SubscriberTypes'
    BY <1>4, <2>2 DEF LoadCommitted, SubscriberTypes
  <2> QED BY <1>1, <1>3, <2>1, <2>3, NoCall DEF Inv, MempoolPart, ProcessTypes
<1>5. CASE StreamEnds
  <2>1. UNCHANGED faults /\ subscriber' = NoSubscriber
    BY <1>5 DEF StreamEnds
  <2>2. FaultTypes'
    BY <1>1, <1>2, <2>1 DEF FaultTypes
  <2>3. SubscriberTypes'
    BY <2>1 DEF SubscriberTypes, NoSubscriber
  <2> QED BY <1>1, <1>3, <2>1, <2>2, <2>3, NoCall DEF Inv, MempoolPart, ProcessTypes
<1> QED BY <1>4, <1>5

LEMMA SubscriptionSteps ==
    ASSUME Inv, Subscribe \/ Receive
    PROVE  Inv'
<1>1. UNCHANGED <<requests, builder, store, faults, reused>>
  BY DEF Subscribe, Receive
<1>2. /\ RequestTypes /\ StoreTypes /\ SubscriberTypes /\ FaultTypes /\ BuilderTypes
      /\ Consistent(mempool)
  BY DEF Inv, ProcessTypes
<1>3. RequestTypes' /\ StoreTypes' /\ FaultTypes' /\ BuilderTypes'
  BY <1>1, <1>2 DEF RequestTypes, StoreTypes, FaultTypes, BuilderTypes, height
<1>4. CASE Subscribe
  <2>1. MempoolPart'
    <3>1. CASE Call(subscribe(mempool), jobs)
      <4>1. PICK n : n = subscribe(mempool)
        OBVIOUS
      <4>2. Consistent(n) /\ n.panicked = mempool.panicked /\ SameBuilds(mempool, n) /\ SameTips(mempool, n)
        BY <1>2, <4>1, SubscriptionOK
      <4> QED BY <1>1, <3>1, <4>1, <4>2, QuietCall
    <3>2. CASE Call(mempool, jobs)
      <4>1. SameBuilds(mempool, mempool) /\ SameTips(mempool, mempool)
        BY DEF SameBuilds, SameTips
      <4> QED BY <1>1, <1>2, <3>2, <4>1, QuietCall
    <3> QED BY <1>4, <3>1, <3>2 DEF Subscribe
  <2>2. SubscriberTypes'
    BY <1>2, <1>4 DEF Subscribe, SubscriberTypes, NoSubscriber
  <2> QED BY <1>3, <2>1, <2>2 DEF Inv, MempoolPart, ProcessTypes
<1>5. CASE Receive
  <2>1. PICK n, e : /\ n = [mempool EXCEPT !.subscription.channel = Tail(@)]
                    /\ e = Head(mempool.subscription.channel)
    OBVIOUS
  <2>2. mempool.subscription.channel # <<>> /\ Call(n, jobs) /\ subscriber' = Seen(subscriber, e)
    BY <1>5, <2>1 DEF Receive
  <2>3. /\ Consistent(n) /\ n.panicked = mempool.panicked /\ SameBuilds(mempool, n) /\ SameTips(mempool, n)
        /\ e \in Event
    BY <1>2, <2>1, <2>2, SubscriptionOK
  <2>4. MempoolPart'
    BY <1>1, <2>2, <2>3, QuietCall
  <2>5. SubscriberTypes'
    BY <1>2, <2>2, <2>3 DEF Seen, SubscriberTypes, Event
  <2> QED BY <1>3, <2>4, <2>5 DEF Inv, MempoolPart, ProcessTypes
<1> QED BY <1>4, <1>5

(* A block producer that has just started.                                  *)
Fresh ==
    /\ height \in Nat
    /\ mempool = Mempool_new(height)
    /\ requests = [t \in Tx |-> NoRequest]
    /\ jobs = [w \in Worker |-> IdleJob]
    /\ builder = IdleBuilder
    /\ subscriber = NoSubscriber

FreshPart ==
    /\ Consistent(mempool) /\ RequestTypes /\ JobTypes(jobs) /\ BuilderTypes
    /\ SubscriberTypes /\ BuilderMatches /\ Undisturbed /\ TipsMatch

LEMMA Started == Fresh => FreshPart
<1> SUFFICES ASSUME Fresh PROVE FreshPart
  OBVIOUS
<1>0. PICK n : n = mempool
  OBVIOUS
<1>1. /\ Consistent(n) /\ n.panicked = FALSE
      /\ n.batches.inner.pending = {} /\ n.batches.inner.processed = {}
      /\ n.block_in_progress = {}
      /\ n.chain_tip = height /\ n.subscription.chain_tip = height
  BY <1>0, NewOK DEF Fresh
<1>2. IdleJob \in [batch : Seq(Tx), stale : BOOLEAN] /\ IdleJob.batch = <<>> /\ IdleJob.stale = FALSE
  BY EmptySeq DEF IdleJob
<1>3. JobTypes(jobs)
  BY <1>2 DEF JobTypes, Fresh
<1>4. builder.step = "idle" /\ builder.block = {} /\ builder \in [step : {"idle"}, block : SUBSET Tx]
  BY DEF IdleBuilder, Fresh
<1>5. BuilderTypes
  BY <1>4, FS_EmptySet DEF BuilderTypes
<1>6. TxsOf({}) = {} /\ UNION {} = {}
  BY DEF TxsOf
<1>7. BuilderMatches
  BY <1>0, <1>1, <1>4, <1>6 DEF BuilderMatches
<1>8. Undisturbed
  <2>1. \A w \in Worker : jobs[w].batch = <<>>
    BY <1>2 DEF Fresh
  <2>2. JobsFit(jobs, {})
    BY <2>1 DEF JobsFit
  <2> QED BY <1>0, <1>1, <1>6, <2>2 DEF Undisturbed
<1>9. TipsMatch
  <2>1. height \in Nat
    BY DEF Fresh
  <2> QED BY <1>0, <1>1, <1>4, <2>1 DEF TipsMatch
<1>10. RequestTypes /\ SubscriberTypes
  BY DEF RequestTypes, SubscriberTypes, NoSubscriber, Fresh
<1> QED BY <1>0, <1>1, <1>3, <1>5, <1>7, <1>8, <1>9, <1>10 DEF FreshPart

LEMMA InitInv == Init => Inv
<1> SUFFICES ASSUME Init PROVE Inv
  OBVIOUS
<1>1. store.chain = <<>> /\ store.accounts = GenesisAccounts /\ store = [chain |-> store.chain, accounts |-> store.accounts]
  BY DEF Init
<1>2. height = 0 /\ store.chain \in Seq(SUBSET Tx)
  BY <1>1, EmptySeq DEF height
<1>3. StoreTypes
  BY <1>1, <1>2, BlockProducerAssumption DEF StoreTypes
<1>4. FaultTypes
  BY DEF Init, FaultTypes
<1>5. Fresh
  BY <1>2 DEF Init, Fresh
<1> QED BY <1>3, <1>4, <1>5, Started DEF Inv, ProcessTypes, FreshPart

LEMMA RestartStep ==
    ASSUME Inv, Restart
    PROVE  Inv'
<1>1. StoreTypes /\ FaultTypes
  BY DEF Inv, ProcessTypes
<1>2. UNCHANGED store /\ height' = height /\ reused' = FALSE
  BY DEF Restart, height
<1>3. StoreTypes'
  BY <1>1, <1>2 DEF StoreTypes, height
<1>4. FaultTypes'
  <2>1. UNCHANGED faults \/ Fault("restart", MaxRestarts)
    BY DEF Restart
  <2> QED BY <1>1, <1>2, <2>1, FaultOK DEF FaultTypes
<1>5. height' \in Nat
  BY <1>1, <1>2, HeightFacts
<1>6. Fresh'
  BY <1>2, <1>5 DEF Restart, Fresh
<1>7. (Fresh => FreshPart)'
  BY Started, PTL
<1> QED BY <1>3, <1>4, <1>6, <1>7 DEF Inv, ProcessTypes, FreshPart

LEMMA NextInv == Inv /\ [Next]_vars => Inv'
<1> SUFFICES ASSUME Inv, [Next]_vars PROVE Inv'
  OBVIOUS
<1>1. CASE ~mempool.panicked /\ Step
  <2>1. ASSUME NEW t \in Tx, ReadInputs(t) \/ ReportHeight(t) PROVE Inv'
    BY <2>1, RequestSteps
  <2>2. ASSUME NEW t \in Tx, AddTransaction(t) PROVE Inv'
    BY <2>2, AddTransactionStep
  <2>3. ASSUME NEW w \in Worker, SelectBatch(w) PROVE Inv'
    BY <2>3, SelectBatchStep
  <2>4. ASSUME NEW w \in Worker, CommitBatch(w) PROVE Inv'
    BY <1>1, <2>4, CommitBatchStep
  <2>5. ASSUME NEW w \in Worker, RollbackBatch(w) PROVE Inv'
    BY <1>1, <2>5, RollbackBatchStep
  <2>6. CASE SelectBlock
    BY <1>1, <2>6, SelectBlockStep
  <2>7. CASE ApplyBlock
    BY <2>7, ApplyBlockStep
  <2>8. CASE FailBlock
    BY <2>8, FailBlockStep
  <2>9. CASE CommitBlock
    BY <1>1, <2>9, CommitBlockStep
  <2>10. CASE RollbackBlock
    BY <1>1, <2>10, RollbackBlockStep
  <2>11. CASE LoadCommitted \/ StreamEnds
    BY <2>11, SubscriberSteps
  <2>12. CASE Subscribe \/ Receive
    BY <2>12, SubscriptionSteps
  <2> QED BY <1>1, <2>1, <2>2, <2>3, <2>4, <2>5, <2>6, <2>7, <2>8, <2>9, <2>10, <2>11, <2>12 DEF Step
<1>2. CASE Restart
  BY <1>2, RestartStep
<1>3. CASE UNCHANGED vars
  <2>1. /\ UNCHANGED <<mempool, jobs, builder, store, reused>> /\ UNCHANGED <<requests, subscriber, faults>>
    BY <1>3 DEF vars
  <2>2. RequestTypes' /\ SubscriberTypes' /\ FaultTypes'
    BY <2>1 DEF Inv, ProcessTypes, RequestTypes, SubscriberTypes, FaultTypes
  <2> QED BY <2>1, <2>2, NoCall DEF Inv, MempoolPart, ProcessTypes
<1> QED BY <1>1, <1>2, <1>3 DEF Next

(* The invariant of the block producer holds for ever: the mempool's parts  *)
(* fit together in every interleaving of handlers, jobs, the block builder, *)
(* the subscriber and restarts.                                             *)
THEOREM Invariant == Spec => []Inv
BY InitInv, NextInv, PTL DEF Spec

-----------------------------------------------------------------------------
(* WHAT FOLLOWS FROM THE INVARIANT                                          *)

LEMMA TrackersFollow == Inv => TrackersAgree
<1> SUFFICES ASSUME Inv PROVE TrackersAgree
  OBVIOUS
<1>1. PICK g, q : g = mempool.transactions /\ q = mempool.subscription.inflight_txs
  OBVIOUS
<1>2. /\ ProviderOK(mempool.subscription, g) /\ StateOK(mempool.state, g)
      /\ mempool.expirations = Nodes(g)
  BY <1>1 DEF Inv, Consistent, Sound
<1>3. q \in Seq(Tx) /\ ToSet(q) = Nodes(g) /\ IsInjective(q)
  BY <1>1, <1>2 DEF ProviderOK, Providers
<1>4. Len(q) \in Nat /\ DOMAIN q = 1 .. Len(q)
  BY <1>3, LenProperties
<1>5. Numbers(q, 1 .. Len(q), Nodes(g))
  <2>1. \A i, j \in 1 .. Len(q) : q[i] = q[j] => i = j
    BY <1>3, <1>4 DEF IsInjective
  <2>2. ToSet(q) = {q[i] : i \in 1 .. Len(q)}
    BY <1>4 DEF ToSet
  <2> QED BY <1>3, <2>1, <2>2 DEF Numbers
<1>6. IsFiniteSet(1 .. Len(q)) /\ Cardinality(1 .. Len(q)) = Len(q)
  <2>1. PICK N : N = Len(q)
    OBVIOUS
  <2>2. 1 \in Int /\ N \in Int /\ N \in Nat
    BY <1>4, <2>1
  <2>3. IsFiniteSet(1 .. N) /\ Cardinality(1 .. N) = IF 1 > N THEN 0 ELSE N - 1 + 1
    BY <2>2, FS_Interval
  <2> QED BY <2>1, <2>2, <2>3
<1>7. Cardinality(Nodes(g)) = Len(q)
  BY <1>5, <1>6, ImageCardinality
<1> QED BY <1>1, <1>2, <1>3, <1>7 DEF TrackersAgree, Tracked, StateOK

LEMMA BatchesFollow == Inv => BatchesMatchTransactions
<1> SUFFICES ASSUME Inv PROVE BatchesMatchTransactions
  OBVIOUS
<1>1. PICK g, bs : g = mempool.transactions /\ bs = mempool.batches
  OBVIOUS
<1>2. BatchesOK(bs, g)
  BY <1>1 DEF Inv, Consistent, Sound
<1>3. /\ Nodes(bs.inner) = bs.batches
      /\ DOMAIN bs.transactions = g.processed
      /\ \A b \in bs.batches : ToSet(b) \subseteq g.processed
      /\ \A t \in g.processed : bs.transactions[t] \in bs.batches
      /\ \A b \in bs.batches, t \in g.processed : t \in ToSet(b) <=> bs.transactions[t] = b
      /\ \A b \in bs.batches :
           bs.inner.parents[b] =
             {bs.transactions[p] : p \in UNION {g.parents[t] : t \in ToSet(b)}} \ {b}
  BY <1>2 DEF BatchesOK
<1>4. TxsOf(bs.batches) = g.processed
  BY <1>3 DEF TxsOf
<1>5. \A b \in bs.batches : \A t \in ToSet(b) : bs.transactions[t] = b
  BY <1>3
<1> QED BY <1>1, <1>3, <1>4, <1>5 DEF BatchesMatchTransactions

LEMMA ChainsFollow == Inv => AccountChains
<1> SUFFICES ASSUME Inv, NEW a \in Account
             PROVE  LET acc     == mempool.state.accounts[a]
                        txs(I)  == {acc.states[i].tx : i \in I}
                        mine(T) == {t \in T : account_id(t) = a}
                    IN  /\ acc.committed <= Len(acc.states)
                        /\ txs(1 .. acc.committed) = mine(UNION ToSet(mempool.state.committed_blocks))
                        /\ txs(acc.committed + 1 .. Len(acc.states)) = mine(Nodes(mempool.transactions))
                        /\ \A i \in DOMAIN acc.states :
                             /\ acc.states[i].state = final_state(acc.states[i].tx)
                             /\ i > 1 => initial_state(acc.states[i].tx) = acc.states[i - 1].state
  BY DEF AccountChains, Tracked
<1> DEFINE acc == mempool.state.accounts[a]
<1> DEFINE B == mempool.state.committed_blocks
<1> DEFINE g == mempool.transactions
<1>1. StateOK(mempool.state, g)
  BY DEF Inv, Consistent, Sound
<1>2. ChainOK(acc, a, B, g) /\ acc \in Accounts
  BY <1>1 DEF StateOK, InflightStates
<1>3. Len(acc.states) \in Nat /\ DOMAIN acc.states = 1 .. Len(acc.states)
  BY <1>2, LenProperties DEF Accounts
<1>4. ASSUME NEW i \in 1 .. Len(acc.states)
      PROVE  /\ acc.states[i].state = final_state(acc.states[i].tx)
             /\ i > 1 => initial_state(acc.states[i].tx) = acc.states[i - 1].state
  <2> HIDE DEF acc, B, g
  <2>1. acc.states[i].state = final_state(acc.states[i].tx)
    BY <1>2, <1>4 DEF ChainOK
  <2>2. ASSUME i > 1 PROVE initial_state(acc.states[i].tx) = acc.states[i - 1].state
    <3>1. i \in 2 .. Len(acc.states) /\ i - 1 \in 1 .. Len(acc.states)
      BY <1>3, <1>4, <2>2
    <3> QED BY <1>2, <3>1 DEF ChainOK
  <2> QED BY <2>1, <2>2
<1>5. /\ acc.committed <= Len(acc.states)
      /\ {acc.states[i].tx : i \in 1 .. acc.committed} = {t \in UNION ToSet(B) : account_id(t) = a}
      /\ {acc.states[i].tx : i \in acc.committed + 1 .. Len(acc.states)} = {t \in Nodes(g) : account_id(t) = a}
  <2> HIDE DEF acc, B, g
  <2> QED BY <1>2 DEF ChainOK
<1> QED BY <1>3, <1>4, <1>5

LEMMA NotesFollow == Inv => NotesExact
<1> SUFFICES ASSUME Inv PROVE NotesExact
  OBVIOUS
<1>1. PICK g, s : g = mempool.transactions /\ s = mempool.state
  OBVIOUS
<1>2. PICK I, R, O : I = Nodes(g) /\ R = UNION ToSet(s.committed_blocks) /\ O = s.output_notes
  OBVIOUS
<1>3. NotesAre(s.nullifiers, O, I, R)
  BY <1>1, <1>2 DEF Inv, Consistent, Sound, StateOK, NotesOK, Retained
<1>4. /\ s.nullifiers = UNION {nullifiers(t) : t \in I \cup R}
      /\ DOMAIN O = UNION {output_note_ids(t) : t \in I \cup R}
  BY <1>3 DEF NotesAre
<1>5. ASSUME NEW n \in DOMAIN O, NEW C, C = {t \in I : n \in output_note_ids(t)}
      PROVE  O[n] \in (IF C = {} THEN {Committed} ELSE C)
  <2>1. PICK t \in I \cup R : n \in output_note_ids(t)
    BY <1>4
  <2>2. CASE t \in I
    <3>1. O[n] = t /\ t \in C
      BY <1>3, <1>5, <2>1, <2>2 DEF NotesAre
    <3> QED BY <3>1
  <2>3. CASE t \notin I
    <3>1. O[n] = Committed
      BY <1>3, <2>1, <2>3 DEF NotesAre
    <3>2. C = {}
      <4>1. ASSUME NEW u \in C PROVE FALSE
        <5>1. u \in I /\ n \in output_note_ids(u) /\ u # t
          BY <1>5, <2>3, <4>1
        <5> QED BY <1>3, <2>1, <5>1 DEF NotesAre
      <4> QED BY <4>1
    <3> QED BY <3>1, <3>2
  <2> QED BY <2>2, <2>3
<1> QED BY <1>1, <1>2, <1>4, <1>5 DEF NotesExact, Tracked

LEMMA TypesFollow == Inv => TypeOK
<1> SUFFICES ASSUME Inv PROVE TypeOK
  OBVIOUS
<1>1. Consistent(mempool) /\ ProcessTypes
  BY DEF Inv
<1>2. PICK m : m = mempool
  OBVIOUS
<1>3. /\ GraphOK(m.transactions) /\ StateOK(m.state, m.transactions) /\ BatchesOK(m.batches, m.transactions)
      /\ m.expirations = Nodes(m.transactions) /\ m.panicked \in BOOLEAN
  BY <1>1, <1>2 DEF Consistent, Sound
<1>4. GraphType(m.transactions, Tx) /\ Nodes(m.transactions) \subseteq Tx
  BY <1>3, TrackedAreTxs DEF WellFormed
<1>5. \A b \in Nodes(m.batches.inner) : b \in Seq(Tx) /\ b # <<>>
  <2>1. Nodes(m.batches.inner) \subseteq Batch
    <3>1. m.batches.batches \subseteq Batch
      BY <1>1, <1>2, BatchFacts
    <3> QED BY <1>3, <3>1 DEF BatchesOK
  <2> QED BY <2>1 DEF Batch
<1>6. m.state.transaction_deltas \subseteq Tx
  BY <1>3, <1>4 DEF StateOK
<1>7. Cardinality(m.block_in_progress) <= 1
  <2>1. CASE m.block_in_progress = {}
    BY <2>1, FS_EmptySet
  <2>2. CASE m.block_in_progress # {}
    <3>1. PICK S : m.block_in_progress = {S}
      BY <1>1, <1>2, <2>2 DEF Consistent, Sound
    <3>2. Cardinality({S}) = 1
      BY FS_Singleton, Zenon
    <3> QED BY <3>1, <3>2
  <2> QED BY <2>1, <2>2
<1>8. \A w \in Worker : jobs[w].batch \in Seq(Tx) /\ jobs[w].stale \in BOOLEAN
  BY <1>1 DEF ProcessTypes, JobTypes
<1>9. /\ requests \in [Tx -> Inputs \cup {NoRequest}]
      /\ builder \in [step : {"idle", "selected", "applied", "failed"}, block : SUBSET Tx]
      /\ store.chain \in Seq(SUBSET Tx) /\ height <= MaxHeight
      /\ store.accounts \in [Account -> Nat]
      /\ subscriber \in [step : {"none", "loaded", "attached"}, tip : Nat,
                         committed : SUBSET Tx, inflight : SUBSET Tx]
  BY <1>1 DEF ProcessTypes, RequestTypes, BuilderTypes, StoreTypes, SubscriberTypes
<1> QED BY <1>2, <1>3, <1>4, <1>5, <1>6, <1>7, <1>8, <1>9 DEF TypeOK

(* Every piece of state has its type, the transaction graph, the state      *)
(* deltas, the expirations and the subscription hold the same transactions, *)
(* and the batches match them, whatever the interleaving and even when      *)
(* stale jobs report on batches with reused ids.                            *)
THEOREM PartsAgreeAlways == Spec => []PartsAgree
<1>1. Inv => PartsAgree
  BY TypesFollow, TrackersFollow, BatchesFollow DEF PartsAgree
<1> QED BY <1>1, Invariant, PTL

(* No transaction in the mempool has expired at its tip.                    *)
THEOREM NotExpiredAlways == Spec => []NotExpired
<1>1. Inv => NotExpired
  BY DEF Inv, Consistent, NotExpired, Tracked
<1> QED BY <1>1, Invariant, PTL

(* The mempool does not panic, its parts and its builders agree, and no     *)
(* batch is without a job, unless a job whose batch was dropped reported on *)
(* a later batch of the same id.                                            *)
THEOREM ConsistentUnlessReusedAlways == Spec => []ConsistentUnlessReused
<1>1. ASSUME Inv, ~reused PROVE NoPanic /\ BlockInProgressMatches /\ NoLimbo
  <2>1. Undisturbed /\ BuilderMatches
    BY <1>1 DEF Inv
  <2> QED BY <2>1 DEF Undisturbed, BuilderMatches, BlockInProgressMatches, NoPanic, NoLimbo, JobsFit
<1>2. Inv => ConsistentUnlessReused
  BY <1>1, TrackersFollow, BatchesFollow, ChainsFollow DEF ConsistentUnlessReused
<1> QED BY <1>2, Invariant, PTL

-----------------------------------------------------------------------------
(* ONE WORKER                                                               *)

(* With one worker the batch of a stale job does not come back.             *)
NoReuse ==
    /\ ~reused
    /\ \A w \in Worker : jobs[w].stale => jobs[w].batch \notin mempool.batches.batches

(* A call that selects no batch.                                            *)
LEMMA NoReuseCall ==
    ASSUME NoReuse, NEW js, JobTypes(js), NEW n, Call(n, js), n.batches.batches \subseteq mempool.batches.batches,
           \A w \in Worker : js[w].stale => js[w] = jobs[w], ~reused'
    PROVE  NoReuse'
<1>1. PICK ks : ks = Tracking(js, n)
  OBVIOUS
<1>2. mempool' = n /\ jobs' = ks
  BY <1>1 DEF Call
<1>3. ASSUME NEW w \in Worker, ks[w].stale PROVE ks[w].batch \notin n.batches.batches
  <2>1. js[w] \in [batch : Seq(Tx), stale : BOOLEAN]
    BY DEF JobTypes
  <2>2. ks[w] = [js[w] EXCEPT !.stale = @ \/ (js[w].batch # <<>> /\ js[w].batch \notin n.batches.batches)]
    BY <1>1 DEF Tracking
  <2>3. ks[w].batch = js[w].batch /\ (js[w].stale \/ js[w].batch \notin n.batches.batches)
    BY <1>3, <2>1, <2>2
  <2> QED BY <2>3 DEF NoReuse
<1> QED BY <1>2, <1>3 DEF NoReuse

LEMMA NoReuseStep ==
    ASSUME \A v, w \in Worker : v = w, Inv, NoReuse, [Next]_vars
    PROVE  NoReuse'
<1>1. Consistent(mempool) /\ JobTypes(jobs) /\ StoreTypes /\ ~reused
  BY DEF Inv, ProcessTypes, NoReuse
<1>2. ASSUME NEW n, Call(n, jobs), n.batches.batches \subseteq mempool.batches.batches, UNCHANGED reused
      PROVE  NoReuse'
  BY <1>1, <1>2, NoReuseCall
<1>3. ASSUME NEW w \in Worker, NEW n, Call(n, [jobs EXCEPT ![w] = IdleJob]),
             n.batches.batches \subseteq mempool.batches.batches, reused' = (reused \/ Aliased(w))
      PROVE  NoReuse'
  <2>1. PICK js : js = [jobs EXCEPT ![w] = IdleJob]
    OBVIOUS
  <2>2. JobTypes(js) /\ \A v \in Worker : js[v] = IF v = w THEN IdleJob ELSE jobs[v]
    <3>1. IdleJob \in [batch : Seq(Tx), stale : BOOLEAN] /\ IdleJob.stale = FALSE
      BY EmptySeq DEF IdleJob
    <3> QED BY <1>1, <2>1, <3>1 DEF JobTypes
  <2>3. \A v \in Worker : js[v].stale => js[v] = jobs[v]
    BY <2>2 DEF IdleJob
  <2>4. ~reused'
    BY <1>1, <1>3 DEF NoReuse, Aliased
  <2> QED BY <1>3, <2>1, <2>2, <2>3, <2>4, NoReuseCall
<1>4. ASSUME UNCHANGED <<mempool, jobs, reused>> PROVE NoReuse'
  BY <1>4 DEF NoReuse
<1>5. CASE Step
  <2>1. ASSUME NEW t \in Tx, ReadInputs(t) \/ ReportHeight(t) PROVE NoReuse'
    BY <1>4, <2>1 DEF ReadInputs, ReportHeight
  <2>2. ASSUME NEW t \in Tx, AddTransaction(t) PROVE NoReuse'
    <3>1. PICK auth : auth = requests[t].auth
      OBVIOUS
    <3>2. UNCHANGED reused
      BY <2>2 DEF AddTransaction
    <3>3. CASE add_transaction_result(mempool, t, auth) = "Ok"
      <4>1. PICK n : n = add_transaction(mempool, t, auth)
        OBVIOUS
      <4>2. Call(n, jobs)
        BY <2>2, <3>1, <3>3, <4>1 DEF AddTransaction
      <4>3. n.batches.batches = mempool.batches.batches
        BY <1>1, <3>3, <4>1, AddOK DEF SameBuilds
      <4> QED BY <1>2, <3>2, <4>2, <4>3
    <3>4. CASE add_transaction_result(mempool, t, auth) # "Ok"
      <4>1. Call(mempool, jobs)
        BY <2>2, <3>1, <3>4 DEF AddTransaction
      <4> QED BY <1>2, <3>2, <4>1
    <3> QED BY <3>3, <3>4
  <2>3. ASSUME NEW w \in Worker, SelectBatch(w) PROVE NoReuse'
    <3>1. PICK b, n, js : /\ b = select_batch_result(mempool) /\ n = select_batch(mempool)
                          /\ js = [jobs EXCEPT ![w].batch = b]
      OBVIOUS
    <3>2. jobs[w].batch = <<>> /\ b # <<>> /\ mempool' = n /\ jobs' = Tracking(js, n) /\ UNCHANGED reused
      BY <2>3, <3>1 DEF SelectBatch, Call
    <3>3. b \in Batch /\ n.batches.batches = mempool.batches.batches \cup {b}
      BY <1>1, <3>1, <3>2, SelectBatchOK
    <3>4. js[w] \in [batch : Seq(Tx), stale : BOOLEAN] /\ js[w].batch = b /\ ~js[w].stale
      BY <1>1, <3>1, <3>2, <3>3 DEF JobTypes, Batch
    <3>5. ~jobs'[w].stale
      <4>1. jobs'[w] = [js[w] EXCEPT !.stale = @ \/ (js[w].batch # <<>> /\ js[w].batch \notin n.batches.batches)]
        BY <3>2 DEF Tracking
      <4> QED BY <3>3, <3>4, <4>1
    <3>6. \A v \in Worker : ~jobs'[v].stale
      BY <3>5
    <3> QED BY <1>1, <3>2, <3>6 DEF NoReuse
  <2>4. ASSUME NEW w \in Worker, CommitBatch(w) PROVE NoReuse'
    <3>1. PICK b, n : b = jobs[w].batch /\ n = commit_batch(mempool, b)
      OBVIOUS
    <3>2. Call(n, [jobs EXCEPT ![w] = IdleJob]) /\ reused' = (reused \/ Aliased(w))
      BY <2>4, <3>1 DEF CommitBatch
    <3>3. n.batches.batches = mempool.batches.batches
      BY <1>1, <3>1, CommitBatchOK
    <3> QED BY <1>3, <3>2, <3>3
  <2>5. ASSUME NEW w \in Worker, RollbackBatch(w) PROVE NoReuse'
    <3>1. PICK b, n : b = jobs[w].batch /\ n = rollback_batch(mempool, b)
      OBVIOUS
    <3>2. Call(n, [jobs EXCEPT ![w] = IdleJob]) /\ reused' = (reused \/ Aliased(w))
      BY <2>5, <3>1 DEF RollbackBatch
    <3>3. n.batches.batches \subseteq mempool.batches.batches
      BY <1>1, <3>1, RollbackBatchOK
    <3> QED BY <1>3, <3>2, <3>3
  <2>6. CASE SelectBlock
    <3>1. PICK S \in BatchSelections(mempool.batches.inner) : Call(select_block(mempool, S), jobs)
      BY <2>6 DEF SelectBlock
    <3>2. PICK n : n = select_block(mempool, S)
      OBVIOUS
    <3>3. n.batches.batches = mempool.batches.batches
      BY <1>1, <3>1, <3>2, SelectBlockOK
    <3> QED BY <1>2, <2>6, <3>1, <3>2, <3>3 DEF SelectBlock
  <2>7. CASE ApplyBlock \/ FailBlock \/ LoadCommitted \/ StreamEnds
    BY <1>4, <2>7 DEF ApplyBlock, FailBlock, LoadCommitted, StreamEnds
  <2>8. CASE CommitBlock
    <3>1. PICK n, k : n = commit_block(mempool, k) /\ k = height
      OBVIOUS
    <3>2. Call(n, jobs) /\ UNCHANGED reused
      BY <2>8, <3>1 DEF CommitBlock
    <3>3. k \in Nat
      BY <1>1, <3>1, HeightFacts
    <3>4. Commits(mempool, n, k)
      BY <1>1, <3>1, <3>3, CommitBlockOK
    <3> QED BY <1>2, <3>2, <3>4 DEF Commits
  <2>9. CASE RollbackBlock
    <3>1. PICK n : n = rollback_block(mempool)
      OBVIOUS
    <3>2. Call(n, jobs) /\ UNCHANGED reused
      BY <2>9, <3>1 DEF RollbackBlock
    <3>3. n.batches.batches \subseteq mempool.batches.batches
      BY <1>1, <3>1, RollbackBlockOK
    <3> QED BY <1>2, <3>2, <3>3
  <2>10. CASE Subscribe
    <3>1. UNCHANGED reused
      BY <2>10 DEF Subscribe
    <3>2. subscribe(mempool).batches.batches = mempool.batches.batches
      BY <1>1, SubscriptionOK DEF SameBuilds
    <3>3. Call(subscribe(mempool), jobs) \/ Call(mempool, jobs)
      BY <2>10 DEF Subscribe
    <3> QED BY <1>2, <3>1, <3>2, <3>3
  <2>11. CASE Receive
    <3>1. PICK n : n = [mempool EXCEPT !.subscription.channel = Tail(@)]
      OBVIOUS
    <3>2. mempool.subscription.channel # <<>> /\ Call(n, jobs) /\ UNCHANGED reused
      BY <2>11, <3>1 DEF Receive
    <3>3. SameBuilds(mempool, n)
      BY <1>1, <3>1, <3>2, SubscriptionOK
    <3> QED BY <1>2, <3>2, <3>3 DEF SameBuilds
  <2> QED BY <1>5, <2>1, <2>2, <2>3, <2>4, <2>5, <2>6, <2>7, <2>8, <2>9, <2>10, <2>11 DEF Step
<1>6. CASE Restart
  BY <1>6 DEF Restart, NoReuse, IdleJob
<1>7. CASE UNCHANGED vars
  BY <1>4, <1>7 DEF vars
<1> QED BY <1>5, <1>6, <1>7 DEF Next

(* A block producer with one worker never panics: no expect, unwrap or      *)
(* assert of the mempool fails, whatever is submitted, fails or expires.    *)
THEOREM OneWorkerNeverPanics ==
    ASSUME \A v, w \in Worker : v = w
    PROVE  Spec => []NoPanic
<1>1. Init => NoReuse
  BY DEF Init, NoReuse, IdleJob
<1>2. Inv /\ NoReuse /\ [Next]_vars => NoReuse'
  BY NoReuseStep
<1>3. Inv /\ NoReuse => NoPanic
  BY DEF Inv, NoReuse, Undisturbed, NoPanic
<1> QED BY <1>1, <1>2, <1>3, Invariant, PTL DEF Spec

-----------------------------------------------------------------------------
(* WHAT LEAVES THE MEMPOOL                                                  *)

(* The steps NothingLost allows.                                            *)
Keeps ==
    LET g     == mempool.transactions
        gone  == Tracked \ Tracked'
        doomed == IF builder.step = "failed" THEN builder.block
                  ELSE {t \in Tracked : expires_at(t) = mempool'.chain_tip}
    IN  \/ gone \subseteq CommittedTxs \cup Reached(g, doomed, Nodes(g))
        \/ Restart

LEMMA StepKeeps ==
    ASSUME Inv, ~mempool.panicked, Step
    PROVE  Keeps
<1>1. Consistent(mempool) /\ StoreTypes /\ BuilderMatches
  BY DEF Inv, ProcessTypes
<1>2. ASSUME Tracked \subseteq Tracked' PROVE Keeps
  BY <1>2 DEF Keeps
<1>3. ASSUME UNCHANGED mempool PROVE Keeps
  BY <1>2, <1>3 DEF Tracked
<1>4. ASSUME NEW n, mempool' = n, Nodes(mempool.transactions) \subseteq Nodes(n.transactions) PROVE Keeps
  BY <1>2, <1>4 DEF Tracked
<1>5. ASSUME NEW t \in Tx, ReadInputs(t) \/ ReportHeight(t) PROVE Keeps
  BY <1>3, <1>5 DEF ReadInputs, ReportHeight
<1>6. ASSUME NEW t \in Tx, AddTransaction(t) PROVE Keeps
  <2>1. PICK auth : auth = requests[t].auth
    OBVIOUS
  <2>2. CASE add_transaction_result(mempool, t, auth) = "Ok"
    <3>1. PICK n : n = add_transaction(mempool, t, auth)
      OBVIOUS
    <3>2. mempool' = n
      BY <1>6, <2>1, <2>2, <3>1 DEF AddTransaction, Call
    <3>3. Nodes(n.transactions) = Nodes(mempool.transactions) \cup {t}
      BY <1>1, <2>2, <3>1, AddOK
    <3> QED BY <1>4, <3>2, <3>3
  <2>3. CASE add_transaction_result(mempool, t, auth) # "Ok"
    <3>1. UNCHANGED mempool
      BY <1>6, <2>1, <2>3 DEF AddTransaction, Call
    <3> QED BY <1>3, <3>1
  <2> QED BY <2>2, <2>3
<1>7. ASSUME NEW w \in Worker, SelectBatch(w) PROVE Keeps
  <2>1. PICK b, n : b = select_batch_result(mempool) /\ n = select_batch(mempool)
    OBVIOUS
  <2>2. b # <<>> /\ mempool' = n
    BY <1>7, <2>1 DEF SelectBatch, Call
  <2>3. Nodes(n.transactions) = Nodes(mempool.transactions)
    BY <1>1, <2>1, <2>2, SelectBatchOK
  <2> QED BY <1>4, <2>2, <2>3
<1>8. ASSUME NEW w \in Worker, CommitBatch(w) PROVE Keeps
  <2>1. PICK b, n : b = jobs[w].batch /\ n = commit_batch(mempool, b)
    OBVIOUS
  <2>2. mempool' = n
    BY <1>8, <2>1 DEF CommitBatch, Call
  <2>3. n.transactions = mempool.transactions
    BY <1>1, <2>1, CommitBatchOK
  <2> QED BY <1>4, <2>2, <2>3
<1>9. ASSUME NEW w \in Worker, RollbackBatch(w) PROVE Keeps
  <2>1. PICK b, n : b = jobs[w].batch /\ n = rollback_batch(mempool, b)
    OBVIOUS
  <2>2. mempool' = n
    BY <1>9, <2>1 DEF RollbackBatch, Call
  <2>3. Nodes(n.transactions) = Nodes(mempool.transactions)
    BY <1>1, <2>1, RollbackBatchOK
  <2> QED BY <1>4, <2>2, <2>3
<1>10. CASE SelectBlock
  <2>1. PICK S \in BatchSelections(mempool.batches.inner) : Call(select_block(mempool, S), jobs)
    BY <1>10 DEF SelectBlock
  <2>2. PICK n : n = select_block(mempool, S)
    OBVIOUS
  <2>3. mempool' = n
    BY <2>1, <2>2 DEF Call
  <2>4. n.transactions = mempool.transactions
    BY <1>1, <2>2, SelectBlockOK
  <2> QED BY <1>4, <2>3, <2>4
<1>11. CASE ApplyBlock \/ FailBlock \/ LoadCommitted \/ StreamEnds
  BY <1>3, <1>11 DEF ApplyBlock, FailBlock, LoadCommitted, StreamEnds
<1>12. CASE CommitBlock
  <2>1. PICK n, k : n = commit_block(mempool, k) /\ k = height
    OBVIOUS
  <2>2. mempool' = n /\ builder.step = "applied"
    BY <1>12, <2>1 DEF CommitBlock, Call
  <2>3. k \in Nat
    BY <1>1, <2>1, HeightFacts
  <2>4. Commits(mempool, n, k)
    BY <1>1, <2>1, <2>3, CommitBlockOK
  <2>5. TxsOf(UNION mempool.block_in_progress) = builder.block /\ k > 0 /\ store.chain[k] = builder.block
    BY <1>1, <2>1, <2>2 DEF BuilderMatches
  <2>6. builder.block \subseteq CommittedTxs
    <3>1. store.chain \in Seq(SUBSET Tx)
      BY <1>1 DEF StoreTypes
    <3>2. DOMAIN store.chain = 1 .. Len(store.chain) /\ Len(store.chain) = k
      BY <2>1, <3>1, LenProperties DEF height
    <3>3. k \in DOMAIN store.chain
      BY <2>3, <2>5, <3>2
    <3>4. store.chain[k] \in ToSet(store.chain)
      BY <3>3 DEF ToSet
    <3> QED BY <2>5, <3>4 DEF CommittedTxs
  <2>7. PICK g, D : g = mempool.transactions /\ D = Expiring(g, n.chain_tip)
    OBVIOUS
  <2>8. Nodes(g) \ Nodes(n.transactions) \subseteq CommittedTxs \cup Reached(g, D, Nodes(g))
    BY <2>4, <2>5, <2>6, <2>7 DEF Commits
  <2>9. D = {t \in Tracked : expires_at(t) = mempool'.chain_tip}
    BY <2>2, <2>7 DEF Expiring, Tracked
  <2>10. Tracked \ Tracked' = Nodes(g) \ Nodes(n.transactions)
    BY <2>2, <2>7 DEF Tracked
  <2> QED BY <2>2, <2>7, <2>8, <2>9, <2>10 DEF Keeps
<1>13. CASE RollbackBlock
  <2>1. PICK n : n = rollback_block(mempool)
    OBVIOUS
  <2>2. mempool' = n /\ builder.step = "failed"
    BY <1>13, <2>1 DEF RollbackBlock, Call
  <2>3. PICK g, D : g = mempool.transactions /\ D = builder.block
    OBVIOUS
  <2>4. D = TxsOf(UNION mempool.block_in_progress)
    BY <1>1, <2>3 DEF BuilderMatches
  <2>5. Nodes(g) \ Nodes(n.transactions) \subseteq Reached(g, D, Nodes(g))
    BY <1>1, <2>1, <2>3, <2>4, RollbackBlockOK
  <2>6. Tracked \ Tracked' = Nodes(g) \ Nodes(n.transactions)
    BY <2>2, <2>3 DEF Tracked
  <2> QED BY <2>2, <2>3, <2>5, <2>6 DEF Keeps
<1>14. CASE Subscribe
  <2>1. subscribe(mempool).transactions = mempool.transactions
    BY <1>1, SubscriptionOK
  <2>2. mempool' = subscribe(mempool) \/ mempool' = mempool
    BY <1>14 DEF Subscribe, Call
  <2> QED BY <1>4, <2>1, <2>2
<1>15. CASE Receive
  <2>1. PICK n : n = [mempool EXCEPT !.subscription.channel = Tail(@)]
    OBVIOUS
  <2>2. mempool.subscription.channel # <<>> /\ mempool' = n
    BY <1>15, <2>1 DEF Receive, Call
  <2>3. n.transactions = mempool.transactions
    BY <1>1, <2>1, <2>2, SubscriptionOK
  <2> QED BY <1>4, <2>2, <2>3
<1> QED BY <1>5, <1>6, <1>7, <1>8, <1>9, <1>10, <1>11, <1>12, <1>13, <1>14, <1>15 DEF Step

(* A transaction leaves the mempool only because it was committed, or with  *)
(* a failed block or an expired transaction it depends on, or in a restart: *)
(* failed batches and batch mates of expired transactions lose nothing, in  *)
(* every interleaving.                                                      *)
THEOREM NothingLostEver == Spec => NothingLost
<1>1. Inv /\ [Next]_vars => [Keeps]_vars
  BY StepKeeps DEF Next, Keeps
<1>2. Spec => [][Keeps]_vars
  BY <1>1, Invariant, PTL DEF Spec
<1> QED BY <1>2, PTL DEF NothingLost, Keeps

-----------------------------------------------------------------------------
(* WHAT A STEP DOES TO THE TRANSACTIONS                                     *)

(* The handlers' reads, refused transactions, the batch jobs' steps and     *)
(* those of the subscriber.                                                 *)
Quiet ==
    /\ Nodes(mempool'.transactions) = Nodes(mempool.transactions)
    /\ mempool'.transactions.parents = mempool.transactions.parents
    /\ mempool'.state = mempool.state
    /\ SameTips(mempool, mempool')
    /\ mempool'.batches.inner.processed \subseteq mempool.batches.inner.processed
    /\ mempool'.block_in_progress = mempool.block_in_progress
    /\ ~mempool'.panicked => ~mempool.panicked
    /\ faults'.lost = faults.lost
    /\ ~overlap_missed' => ~overlap_missed
    /\ UNCHANGED <<builder, store>>
    /\ \/ mempool'.subscription = mempool.subscription /\ UNCHANGED subscriber
       \/ LoadCommitted \/ Subscribe \/ Receive \/ StreamEnds

(* A transaction is accepted.                                               *)
Adding(t) ==
    LET auth == requests[t].auth
    IN  /\ requests[t] # NoRequest
        /\ verify_transaction(mempool.state, t, auth) = "Ok"
        /\ Adds(mempool, mempool', t, insert_transaction_parents(mempool.state, t, auth))
        /\ SameBuilds(mempool, mempool') /\ SameTips(mempool, mempool')
        /\ ~overlap_missed' => /\ ~overlap_missed
                               /\ ~(auth.read_at < oldest_committed_state(mempool.state))
        /\ UNCHANGED <<builder, store, faults, subscriber>>

(* The block builder takes the batches S.                                   *)
Selecting(S) ==
    /\ builder.step = "idle" /\ builder'.step = "selected" /\ builder'.block = TxsOf(S)
    /\ mempool.block_in_progress = {} /\ mempool'.block_in_progress = {S}
    /\ mempool'.batches.inner.processed = mempool.batches.inner.processed \cup S
    /\ SameContents(mempool, mempool') /\ SameTips(mempool, mempool')
    /\ UNCHANGED <<store, faults, overlap_missed, subscriber>>

(* The store applies the block, with or without the builder learning of it. *)
Applying ==
    /\ builder.step = "selected" /\ Valid(builder.block) /\ builder'.block = builder.block
    /\ \/ builder'.step = "applied" /\ faults'.lost = faults.lost
       \/ builder'.step = "failed" /\ faults'.lost # 0
    /\ store'.chain = Append(store.chain, builder.block)
    /\ store'.accounts = [a \in Account |-> StateAfter(builder.block, a)]
    /\ UNCHANGED <<mempool, overlap_missed, subscriber>>

Failing ==
    /\ builder.step = "selected" /\ builder'.step = "failed" /\ builder'.block = builder.block
    /\ faults'.lost = faults.lost
    /\ UNCHANGED <<mempool, store, overlap_missed, subscriber>>

(* The block builder is done with its block.                                *)
Ending ==
    /\ builder.step # "idle" /\ builder'.step = "idle" /\ builder'.block = {}
    /\ UNCHANGED <<store, faults, overlap_missed, subscriber>>

Committing(R) ==
    /\ Ending /\ builder.step = "applied"
    /\ Retires(mempool, mempool', height, builder.block, R)
    /\ mempool'.chain_tip = mempool.chain_tip + 1
    /\ mempool'.subscription.chain_tip = height
    /\ mempool'.block_in_progress = {}
    /\ mempool'.batches.inner.processed
         \subseteq mempool.batches.inner.processed \ UNION mempool.block_in_progress

RollingBack(R) ==
    /\ Ending /\ builder.step = "failed"
    /\ Drops(mempool, mempool', R)
    /\ SameTips(mempool, mempool')
    /\ mempool'.block_in_progress = {}
    /\ mempool'.batches.inner.processed
         \subseteq mempool.batches.inner.processed \ UNION mempool.block_in_progress

Panicking == Ending /\ mempool'.panicked /\ SameContents(mempool, mempool')

Restarting ==
    /\ Fresh' /\ UNCHANGED store
    /\ faults'.lost = faults.lost

LEMMA QuietMempool ==
    ASSUME mempool' = mempool, UNCHANGED <<builder, store>>, faults'.lost = faults.lost,
           ~overlap_missed' => ~overlap_missed,
           UNCHANGED subscriber \/ LoadCommitted \/ Subscribe \/ Receive \/ StreamEnds
    PROVE  Quiet
BY DEF Quiet, SameTips

(* Every step is one of these.                                              *)
Kinds ==
    \/ Quiet
    \/ ~mempool.panicked /\ \/ \E t \in Tx : Adding(t) /\ AddTransaction(t)
                            \/ \E S \in BatchSelections(mempool.batches.inner) : Selecting(S)
                            \/ Applying
                            \/ Failing
                            \/ \E R : Committing(R)
                            \/ \E R : RollingBack(R)
                            \/ Panicking
    \/ Restarting

LEMMA HandlerKinds ==
    ASSUME Inv, ~mempool.panicked, NEW t \in Tx, ReadInputs(t) \/ ReportHeight(t) \/ AddTransaction(t)
    PROVE  Kinds
<1>1. CASE ReadInputs(t) \/ ReportHeight(t)
  <2>1. Quiet
    BY <1>1, QuietMempool DEF ReadInputs, ReportHeight
  <2> QED BY <2>1 DEF Kinds
<1>2. CASE AddTransaction(t)
  <2>1. PICK auth : auth = requests[t].auth
    OBVIOUS
  <2>2. Consistent(mempool) /\ UNCHANGED <<builder, store, faults, subscriber>> /\ requests[t].step = "authenticated"
    BY <1>2 DEF Inv, AddTransaction
  <2>3. CASE add_transaction_result(mempool, t, auth) = "Ok"
    <3>1. PICK n : n = add_transaction(mempool, t, auth)
      OBVIOUS
    <3>2. mempool' = n
      BY <1>2, <2>1, <2>3, <3>1 DEF AddTransaction, Call
    <3>3. SameBuilds(mempool, n) /\ SameTips(mempool, n)
          /\ Adds(mempool, n, t, insert_transaction_parents(mempool.state, t, auth))
      BY <2>2, <2>3, <3>1, AddOK
    <3>4. overlap_missed' = (overlap_missed \/ auth.read_at < oldest_committed_state(mempool.state))
      BY <1>2, <2>1, <2>3 DEF AddTransaction
    <3>5. requests[t] # NoRequest
      BY <2>2 DEF NoRequest
    <3>6. verify_transaction(mempool.state, t, auth) = "Ok"
      BY <2>3 DEF add_transaction_result
    <3>7. Adding(t)
      BY <2>1, <2>2, <3>2, <3>3, <3>4, <3>5, <3>6 DEF Adding
    <3> QED BY <1>2, <3>7 DEF Kinds
  <2>4. CASE add_transaction_result(mempool, t, auth) # "Ok"
    <3>1. mempool' = mempool /\ UNCHANGED overlap_missed
      BY <1>2, <2>1, <2>4 DEF AddTransaction, Call
    <3>2. Quiet
      BY <2>2, <3>1, QuietMempool
    <3> QED BY <3>2 DEF Kinds
  <2> QED BY <2>3, <2>4
<1> QED BY <1>1, <1>2

LEMMA JobKinds ==
    ASSUME Inv, ~mempool.panicked, NEW w \in Worker, SelectBatch(w) \/ CommitBatch(w) \/ RollbackBatch(w)
    PROVE  Kinds
<1>1. Consistent(mempool) /\ UNCHANGED <<builder, store, overlap_missed, subscriber>> /\ faults'.lost = faults.lost
  <2>1. UNCHANGED faults \/ Fault("batch", MaxBatchFailures)
    BY DEF SelectBatch, CommitBatch, RollbackBatch
  <2>2. faults'.lost = faults.lost
    BY <2>1 DEF Inv, ProcessTypes, FaultTypes, Fault
  <2> QED BY <2>2 DEF Inv, SelectBatch, CommitBatch, RollbackBatch
<1>2. PICK n : n = mempool'
  OBVIOUS
<1>3. /\ SameContents(mempool, n) /\ SameTips(mempool, n)
      /\ n.block_in_progress = mempool.block_in_progress
      /\ n.batches.inner.processed \subseteq mempool.batches.inner.processed
  <2>1. CASE SelectBatch(w)
    <3>1. PICK b : b = select_batch_result(mempool)
      OBVIOUS
    <3>2. b # <<>> /\ n = select_batch(mempool)
      BY <1>2, <2>1, <3>1 DEF SelectBatch, Call
    <3>3. /\ SameContents(mempool, n) /\ SameTips(mempool, n)
          /\ n.block_in_progress = mempool.block_in_progress
          /\ n.batches.inner.processed = mempool.batches.inner.processed
      BY <1>1, <3>1, <3>2, SelectBatchOK
    <3> QED BY <3>3
  <2>2. CASE CommitBatch(w)
    <3>1. PICK b : b = jobs[w].batch
      OBVIOUS
    <3>2. n = commit_batch(mempool, b)
      BY <1>2, <2>2, <3>1 DEF CommitBatch, Call
    <3>3. /\ SameContents(mempool, n) /\ SameTips(mempool, n)
          /\ n.block_in_progress = mempool.block_in_progress
          /\ n.batches.inner.processed = mempool.batches.inner.processed
      BY <1>1, <3>2, CommitBatchOK
    <3> QED BY <3>3
  <2>3. CASE RollbackBatch(w)
    <3>1. PICK b : b = jobs[w].batch
      OBVIOUS
    <3>2. n = rollback_batch(mempool, b)
      BY <1>2, <2>3, <3>1 DEF RollbackBatch, Call
    <3> QED BY <1>1, <3>2, RollbackBatchOK
  <2> QED BY <2>1, <2>2, <2>3
<1>4. Quiet
  BY <1>1, <1>2, <1>3 DEF Quiet, SameContents
<1> QED BY <1>4 DEF Kinds

LEMMA ApplyBlockApplies ==
    ASSUME Inv, ApplyBlock
    PROVE  Applying
<1>0. FaultTypes /\ BuilderTypes
  BY DEF Inv, ProcessTypes
<1>1. /\ builder.step = "selected" /\ Valid(builder.block) /\ UNCHANGED <<mempool, overlap_missed, reused, subscriber>>
      /\ store' = [chain |-> Append(store.chain, builder.block),
                   accounts |-> [a \in Account |-> StateAfter(builder.block, a)]]
      /\ \/ builder' = [builder EXCEPT !.step = "applied"] /\ UNCHANGED faults
         \/ builder' = [builder EXCEPT !.step = "failed"] /\ Fault("lost", MaxLostReplies)
  BY DEF ApplyBlock
<1>2. /\ store'.chain = Append(store.chain, builder.block)
      /\ store'.accounts = [a \in Account |-> StateAfter(builder.block, a)]
  BY <1>1
<1>3. Fault("lost", MaxLostReplies) => faults'.lost # 0
  BY <1>0, <1>1, FaultOK DEF FaultTypes
<1>4. /\ builder'.block = builder.block
      /\ \/ builder'.step = "applied" /\ faults'.lost = faults.lost
         \/ builder'.step = "failed" /\ faults'.lost # 0
  BY <1>0, <1>1, <1>3 DEF BuilderTypes
<1> QED BY <1>1, <1>2, <1>4 DEF Applying

LEMMA BlockKinds ==
    ASSUME Inv, ~mempool.panicked,
           SelectBlock \/ ApplyBlock \/ FailBlock \/ CommitBlock \/ RollbackBlock
    PROVE  Kinds
<1>1. Consistent(mempool) /\ BuilderMatches /\ StoreTypes /\ FaultTypes /\ BuilderTypes
  BY DEF Inv, ProcessTypes
<1>2. PICK n : n = mempool'
  OBVIOUS
<1>3. CASE SelectBlock
  <2>1. PICK S \in BatchSelections(mempool.batches.inner) :
          /\ n = select_block(mempool, S)
          /\ builder' = [step |-> "selected", block |-> TxsOf(S)]
    BY <1>2, <1>3 DEF SelectBlock, Call
  <2>2. /\ builder.step = "idle" /\ UNCHANGED <<store, faults, overlap_missed, subscriber>>
        /\ mempool.block_in_progress = {}
    BY <1>1, <1>3 DEF SelectBlock, BuilderMatches
  <2>3. /\ SameContents(mempool, n) /\ SameTips(mempool, n)
        /\ n.batches.inner.processed = mempool.batches.inner.processed \cup S
        /\ n.block_in_progress = {S}
    BY <1>1, <2>1, <2>2, SelectBlockOK
  <2>4. builder'.step = "selected" /\ builder'.block = TxsOf(S)
    BY <2>1
  <2>5. Selecting(S)
    BY <1>2, <2>2, <2>3, <2>4 DEF Selecting
  <2> QED BY <2>5 DEF Kinds
<1>4. CASE ApplyBlock
  BY <1>4, ApplyBlockApplies DEF Kinds
<1>5. CASE FailBlock
  <2>1. /\ builder.step = "selected" /\ UNCHANGED <<mempool, store, overlap_missed, reused, subscriber>>
        /\ UNCHANGED faults \/ Fault("block", MaxBlockFailures)
        /\ builder' = [builder EXCEPT !.step = "failed"]
    BY <1>5 DEF FailBlock
  <2>2. faults'.lost = faults.lost
    BY <1>1, <2>1, FaultOK DEF FaultTypes
  <2>3. builder'.step = "failed" /\ builder'.block = builder.block
    BY <1>1, <2>1 DEF BuilderTypes
  <2>4. Failing
    BY <2>1, <2>2, <2>3 DEF Failing
  <2> QED BY <2>4 DEF Kinds
<1>6. builder.block = TxsOf(UNION mempool.block_in_progress)
  BY <1>1 DEF BuilderMatches
<1>7. ASSUME CommitBlock \/ RollbackBlock PROVE Ending
  <2>1. builder' = IdleBuilder /\ builder.step # "idle" /\ UNCHANGED <<store, faults, overlap_missed, subscriber>>
    BY <1>7 DEF CommitBlock, RollbackBlock
  <2> QED BY <2>1 DEF Ending, IdleBuilder
<1>8. CASE CommitBlock
  <2>1. height \in Nat /\ builder.step = "applied"
    BY <1>1, <1>8, HeightFacts DEF CommitBlock
  <2>2. PICK k : k = height
    OBVIOUS
  <2>3. n = commit_block(mempool, k) /\ k \in Nat
    BY <1>2, <1>8, <2>1, <2>2 DEF CommitBlock, Call
  <2>4. Commits(mempool, n, k)
    BY <1>1, <2>3, CommitBlockOK
  <2>5. CASE n.panicked
    <3>1. SameContents(mempool, n)
      BY <2>4, <2>5 DEF Commits
    <3>2. Panicking
      BY <1>2, <1>7, <1>8, <2>5, <3>1 DEF Panicking
    <3> QED BY <3>2 DEF Kinds
  <2>6. CASE ~n.panicked
    <3>1. /\ n.block_in_progress = {}
          /\ n.chain_tip = mempool.chain_tip + 1 /\ n.subscription.chain_tip = k
          /\ n.batches.inner.processed
               \subseteq mempool.batches.inner.processed \ UNION mempool.block_in_progress
      BY <2>4, <2>6 DEF Commits
    <3>2. PICK R : Retires(mempool, n, k, builder.block, R)
      BY <1>6, <2>4, <2>6 DEF Commits
    <3>3. Committing(R)
      BY <1>2, <1>7, <1>8, <2>1, <2>2, <3>1, <3>2 DEF Committing
    <3> QED BY <3>3 DEF Kinds
  <2> QED BY <2>5, <2>6
<1>9. CASE RollbackBlock
  <2>1. n = rollback_block(mempool) /\ builder.step = "failed"
    BY <1>2, <1>9 DEF RollbackBlock, Call
  <2>2. /\ SameTips(mempool, n) /\ (n.panicked \/ n.block_in_progress = {})
        /\ \/ n.panicked /\ SameContents(mempool, n)
           \/ /\ n.panicked = mempool.panicked
              /\ n.batches.inner.processed
                   \subseteq mempool.batches.inner.processed \ UNION mempool.block_in_progress
              /\ \E R : Drops(mempool, n, R)
    BY <1>1, <2>1, RollbackBlockOK
  <2>3. CASE n.panicked
    <3>1. SameContents(mempool, n)
      BY <2>2, <2>3
    <3>2. Panicking
      BY <1>2, <1>7, <1>9, <2>3, <3>1 DEF Panicking
    <3> QED BY <3>2 DEF Kinds
  <2>4. CASE ~n.panicked
    <3>1. PICK R : Drops(mempool, n, R)
      BY <2>2, <2>4
    <3>2. RollingBack(R)
      BY <1>2, <1>7, <1>9, <2>1, <2>2, <2>4, <3>1 DEF RollingBack
    <3> QED BY <3>2 DEF Kinds
  <2> QED BY <2>3, <2>4
<1> QED BY <1>3, <1>4, <1>5, <1>8, <1>9

LEMMA SubscriberKinds ==
    ASSUME Inv, ~mempool.panicked, LoadCommitted \/ Subscribe \/ Receive \/ StreamEnds
    PROVE  Kinds
<1>1. Consistent(mempool) /\ UNCHANGED <<builder, store, overlap_missed>> /\ faults'.lost = faults.lost
  <2>1. UNCHANGED faults \/ Fault("subscription", MaxSubscriptions)
    BY DEF LoadCommitted, Subscribe, Receive, StreamEnds
  <2>2. faults'.lost = faults.lost
    BY <2>1 DEF Inv, ProcessTypes, FaultTypes, Fault
  <2> QED BY <2>2 DEF Inv, LoadCommitted, Subscribe, Receive, StreamEnds
<1>2. CASE mempool' = mempool
  <2>1. Quiet
    BY <1>1, <1>2, QuietMempool
  <2> QED BY <2>1 DEF Kinds
<1>3. CASE mempool' = subscribe(mempool) \/ Receive
  <2>1. PICK n : n = mempool'
    OBVIOUS
  <2>2. SameBuilds(mempool, n) /\ SameTips(mempool, n) /\ n.transactions = mempool.transactions
        /\ n.state = mempool.state
    <3>1. CASE mempool' = subscribe(mempool)
      BY <1>1, <2>1, <3>1, SubscriptionOK
    <3>2. CASE Receive
      <4>1. /\ mempool.subscription.channel # <<>>
            /\ n = [mempool EXCEPT !.subscription.channel = Tail(@)]
        BY <2>1, <3>2 DEF Receive, Call
      <4> QED BY <1>1, <4>1, SubscriptionOK
    <3> QED BY <1>3, <3>1, <3>2
  <2>3. Quiet
    BY <1>1, <2>1, <2>2 DEF Quiet, SameBuilds
  <2> QED BY <2>3 DEF Kinds
<1> QED BY <1>2, <1>3 DEF LoadCommitted, Subscribe, StreamEnds, Call

LEMMA StepKinds ==
    ASSUME Inv, [Next]_vars
    PROVE  Kinds
<1>1. CASE ~mempool.panicked /\ Step
  BY <1>1, HandlerKinds, JobKinds, BlockKinds, SubscriberKinds DEF Step
<1>2. CASE Restart
  <2>1. height' \in Nat /\ UNCHANGED store
    BY <1>2, HeightFacts DEF Inv, ProcessTypes, Restart, height
  <2>2. Fresh'
    BY <1>2, <2>1 DEF Restart, Fresh, height
  <2>3. faults'.lost = faults.lost
    BY <1>2 DEF Inv, ProcessTypes, FaultTypes, Fault, Restart
  <2>4. Restarting
    BY <2>1, <2>2, <2>3 DEF Restarting
  <2> QED BY <2>4 DEF Kinds
<1>3. CASE UNCHANGED vars
  <2>1. Quiet
    BY <1>3, QuietMempool DEF vars
  <2> QED BY <2>1 DEF Kinds
<1> QED BY <1>1, <1>2, <1>3 DEF Next

-----------------------------------------------------------------------------
(* THE BLOCK IN PROGRESS                                                    *)

(* As long as the mempool has not panicked, even if a batch id was reused:  *)
(* only batches of the block in progress count as selected, and the block's *)
(* transactions are inflight, with all that they depend on.                 *)
SelectedClosed ==
    ~mempool.panicked =>
        /\ mempool.batches.inner.processed \subseteq UNION mempool.block_in_progress
        /\ builder.block \subseteq Nodes(mempool.transactions)
        /\ \A t \in builder.block : mempool.transactions.parents[t] \subseteq builder.block

(* What select_block can take while nothing is selected.                    *)
LEMMA SelectionClosed ==
    ASSUME NEW m, Consistent(m), m.batches.inner.processed = {},
           NEW S \in BatchSelections(m.batches.inner)
    PROVE  /\ TxsOf(S) \subseteq Nodes(m.transactions)
           /\ \A t \in TxsOf(S) : m.transactions.parents[t] \subseteq TxsOf(S)
<1>1. PICK g, bs, in : g = m.transactions /\ bs = m.batches /\ in = bs.inner
  OBVIOUS
<1>2. GraphOK(g) /\ BatchesOK(bs, g)
  BY <1>1 DEF Consistent, Sound
<1>3. g.processed \subseteq Nodes(g) /\ InOrder(g) /\ WellFormed(g, Tx)
  BY <1>2, TrackedAreTxs
<1>4. S \subseteq in.vertices /\ \A b \in S : in.parents[b] \subseteq S
  BY <1>1 DEF BatchSelections, UnselectedParents
<1>5. S \subseteq bs.batches
  BY <1>1, <1>2, <1>4 DEF BatchesOK, Nodes
<1>6. TxsOf(S) \subseteq g.processed
  BY <1>2, <1>5, IndexFacts
<1>7. ASSUME NEW t \in TxsOf(S), NEW p \in g.parents[t] PROVE p \in TxsOf(S)
  <2>1. PICK b \in S : t \in ToSet(b)
    BY <1>7 DEF TxsOf
  <2>2. p \in g.processed
    BY <1>3, <1>6, <1>7 DEF InOrder
  <2>3. PICK c : c = bs.transactions[p]
    OBVIOUS
  <2>4. c \in bs.batches /\ p \in ToSet(c)
    BY <1>2, <2>2, <2>3 DEF BatchesOK
  <2>5. in.parents[b] = {bs.transactions[q] : q \in UNION {g.parents[u] : u \in ToSet(b)}} \ {b}
    BY <1>1, <1>2, <1>5 DEF BatchesOK
  <2>6. p \in UNION {g.parents[u] : u \in ToSet(b)}
    BY <1>7, <2>1
  <2>7. c = b \/ c \in in.parents[b]
    BY <2>3, <2>5, <2>6
  <2>8. c \in S
    BY <1>4, <2>7
  <2> QED BY <2>4, <2>8 DEF TxsOf
<1> QED BY <1>1, <1>3, <1>6, <1>7

LEMMA SelectedClosedStep ==
    ASSUME Inv, Inv', SelectedClosed, Kinds
    PROVE  SelectedClosed'
<1> SUFFICES ASSUME ~mempool'.panicked
             PROVE  /\ mempool'.batches.inner.processed \subseteq UNION mempool'.block_in_progress
                    /\ builder'.block \subseteq Nodes(mempool'.transactions)
                    /\ \A t \in builder'.block : mempool'.transactions.parents[t] \subseteq builder'.block
  BY DEF SelectedClosed
<1>1. UNION {} = {} /\ \A S : UNION {S} = S
  OBVIOUS
<1>2. CASE Quiet
  BY <1>2 DEF Quiet, SelectedClosed
<1>3. ASSUME ~mempool.panicked, NEW t \in Tx, Adding(t)
      PROVE  SelectedClosed'
  BY <1>3 DEF Adding, Adds, SameBuilds, SelectedClosed
<1>4. ASSUME ~mempool.panicked, NEW S \in BatchSelections(mempool.batches.inner), Selecting(S)
      PROVE  SelectedClosed'
  <2>1. mempool.batches.inner.processed = {} /\ mempool'.batches.inner.processed = S
    BY <1>1, <1>4 DEF SelectedClosed, Selecting
  <2>2. /\ TxsOf(S) \subseteq Nodes(mempool.transactions)
        /\ \A t \in TxsOf(S) : mempool.transactions.parents[t] \subseteq TxsOf(S)
    BY <2>1, SelectionClosed DEF Inv
  <2> QED BY <1>1, <1>4, <2>1, <2>2 DEF SelectedClosed, Selecting, SameContents
<1>5. ASSUME ~mempool.panicked, Applying \/ Failing
      PROVE  SelectedClosed'
  BY <1>5 DEF Applying, Failing, SelectedClosed
<1>6. ASSUME ~mempool.panicked, NEW R, Committing(R) \/ RollingBack(R)
      PROVE  SelectedClosed'
  <2>1. mempool.batches.inner.processed \subseteq UNION mempool.block_in_progress
    BY <1>6 DEF SelectedClosed
  <2>2. mempool'.batches.inner.processed = {} /\ builder'.block = {}
    BY <1>6, <2>1 DEF Committing, RollingBack, Ending
  <2> QED BY <2>2 DEF SelectedClosed
<1>7. CASE Restarting
  <2>1. PICK n, k : n = mempool' /\ k = height'
    OBVIOUS
  <2>2. k \in Nat /\ n = Mempool_new(k) /\ builder'.block = {}
    BY <1>7, <2>1 DEF Restarting, Fresh, IdleBuilder
  <2>3. n.batches.inner.processed = {}
    BY <2>2, NewOK
  <2> QED BY <2>1, <2>2, <2>3
<1> QED BY <1>2, <1>3, <1>4, <1>5, <1>6, <1>7 DEF Kinds, Panicking, SelectedClosed

-----------------------------------------------------------------------------
(* THE RETAINED BLOCKS                                                      *)

(* These blocks are the chain's last ones up to this tip.                   *)
LastBlocks(blocks, tip, chain) ==
    /\ Len(blocks) <= tip
    /\ \A i \in 1 .. Len(blocks) : blocks[i] = chain[tip - Len(blocks) + i]

(* The mempool knows of every block that was reported, and has retained the *)
(* last of them.                                                            *)
Reported ==
    ~mempool.panicked /\ faults.lost = 0 =>
        /\ TipsMatch
        /\ LastBlocks(mempool.state.committed_blocks, mempool.chain_tip, store.chain)

LEMMA LastBlocksKept ==
    ASSUME NEW blocks \in Seq(SUBSET Tx), NEW tip \in Nat, NEW chain, LastBlocks(blocks, tip, chain),
           NEW C \in SUBSET Tx, chain[tip + 1] = C
    PROVE  LastBlocks(Kept(Append(blocks, C)), tip + 1, chain)
<1>1. PICK L, q : L = Len(blocks) /\ q = Append(blocks, C)
  OBVIOUS
<1>2. /\ q \in Seq(SUBSET Tx) /\ L \in Nat /\ Len(q) = L + 1
      /\ \A i \in 1 .. L : q[i] = blocks[i]
      /\ q[L + 1] = C
  BY <1>1, AppendProperties, LenProperties
<1>3. L <= tip /\ \A i \in 1 .. L : blocks[i] = chain[tip - L + i]
  BY <1>1 DEF LastBlocks
<1>4. ASSUME NEW i \in 1 .. L + 1 PROVE q[i] = chain[tip - L + i]
  <2>1. CASE i \in 1 .. L
    BY <1>2, <1>3, <2>1
  <2>2. CASE i = L + 1
    <3>1. tip - L + (L + 1) = tip + 1
      BY <1>2
    <3> QED BY <1>2, <2>2, <3>1
  <2> QED BY <1>2, <2>1, <2>2
<1>5. CASE Kept(q) = q
  <2>1. \A i \in 1 .. L + 1 : (tip + 1) - (L + 1) + i = tip - L + i
    BY <1>2
  <2>2. L + 1 <= tip + 1
    BY <1>2, <1>3
  <2> QED BY <1>1, <1>2, <1>4, <1>5, <2>1, <2>2 DEF LastBlocks
<1>6. CASE Kept(q) = Tail(q)
  <2>1. q # <<>>
    BY <1>2
  <2>2. PICK r : r = Tail(q)
    OBVIOUS
  <2>3. Len(r) = L /\ \A i \in 1 .. L : r[i] = q[i + 1]
    <3>1. Len(r) = Len(q) - 1 /\ \A i \in 1 .. Len(r) : r[i] = q[i + 1]
      BY <1>2, <2>1, <2>2, HeadTailProperties
    <3> QED BY <1>2, <3>1
  <2>4. ASSUME NEW i \in 1 .. L PROVE r[i] = chain[(tip + 1) - L + i]
    <3>1. i + 1 \in 1 .. L + 1 /\ tip - L + (i + 1) = (tip + 1) - L + i
      BY <1>2, <2>4
    <3> QED BY <1>4, <2>3, <2>4, <3>1
  <2>5. L <= tip + 1
    BY <1>2, <1>3
  <2> QED BY <1>1, <1>6, <2>2, <2>3, <2>4, <2>5 DEF LastBlocks
<1> QED BY <1>1, <1>5, <1>6 DEF Kept

(* The chain only grows.                                                    *)
LEMMA ChainGrows ==
    ASSUME Inv, Applying
    PROVE  /\ height \in Nat /\ height' = height + 1
           /\ store'.chain[height + 1] = builder.block
           /\ \A i \in 1 .. height : store'.chain[i] = store.chain[i]
<1>1. store.chain \in Seq(SUBSET Tx) /\ builder.block \in SUBSET Tx
  BY DEF Inv, ProcessTypes, StoreTypes, BuilderTypes
<1>2. store'.chain = Append(store.chain, builder.block)
  BY DEF Applying
<1> QED BY <1>1, <1>2, AppendProperties, LenProperties DEF height

LEMMA ReportedStep ==
    ASSUME Inv, Inv', Reported, Kinds
    PROVE  Reported'
<1> SUFFICES ASSUME ~mempool'.panicked, faults'.lost = 0
             PROVE  /\ TipsMatch'
                    /\ LastBlocks(mempool'.state.committed_blocks, mempool'.chain_tip, store'.chain)
  BY DEF Reported
<1>0. PICK B, tip : B = mempool.state.committed_blocks /\ tip = mempool.chain_tip
  OBVIOUS
<1>1. B \in Seq(SUBSET Tx) /\ tip \in Nat
  BY <1>0 DEF Inv, Consistent, Sound, StateOK, InflightStates
<1>2. height \in Nat
  BY HeightFacts DEF Inv, ProcessTypes
<1>3. CASE Quiet
  <2>1. TipsMatch /\ LastBlocks(B, tip, store.chain)
    BY <1>0, <1>3 DEF Quiet, Reported
  <2> QED BY <1>0, <1>3, <2>1 DEF Quiet, SameTips, TipsMatch, height
<1>4. ASSUME ~mempool.panicked, faults.lost = 0
      PROVE  TipsMatch /\ LastBlocks(B, tip, store.chain)
  BY <1>0, <1>4 DEF Reported
<1>5. ASSUME ~mempool.panicked, NEW t \in Tx, Adding(t)
      PROVE  Reported'
  <2>1. TipsMatch /\ LastBlocks(B, tip, store.chain)
    BY <1>4, <1>5 DEF Adding
  <2> QED BY <1>0, <1>5, <2>1 DEF Adding, Adds, SameTips, TipsMatch, height, Reported
<1>6. ASSUME ~mempool.panicked, NEW S, Selecting(S)
      PROVE  Reported'
  <2>1. TipsMatch /\ LastBlocks(B, tip, store.chain)
    BY <1>4, <1>6 DEF Selecting
  <2> QED BY <1>0, <1>6, <2>1 DEF Selecting, SameContents, SameTips, TipsMatch, height, Reported
<1>7. ASSUME ~mempool.panicked, Applying
      PROVE  Reported'
  <2>1. TipsMatch /\ LastBlocks(B, tip, store.chain) /\ builder'.step = "applied" /\ builder.step = "selected"
    BY <1>4, <1>7 DEF Applying
  <2>2. /\ height' = height + 1
        /\ \A i \in 1 .. height : store'.chain[i] = store.chain[i]
    BY <1>7, ChainGrows
  <2>3. tip = height /\ mempool.subscription.chain_tip = height
    BY <1>0, <1>2, <2>1 DEF TipsMatch
  <2>4. LastBlocks(B, tip, store'.chain)
    <3>1. Len(B) \in Nat /\ Len(B) <= tip
      BY <1>1, <2>1, LenProperties DEF LastBlocks
    <3>2. \A i \in 1 .. Len(B) : tip - Len(B) + i \in 1 .. height
      BY <1>1, <2>3, <3>1
    <3> QED BY <2>1, <2>2, <3>1, <3>2 DEF LastBlocks
  <2>5. UNCHANGED mempool
    BY <1>7 DEF Applying
  <2>6. TipsMatch'
    BY <1>0, <1>2, <2>1, <2>2, <2>3, <2>5 DEF TipsMatch
  <2> QED BY <1>0, <2>4, <2>5, <2>6 DEF Reported
<1>8. ASSUME ~mempool.panicked, Failing
      PROVE  Reported'
  <2>1. TipsMatch /\ LastBlocks(B, tip, store.chain)
    BY <1>4, <1>8 DEF Failing
  <2> QED BY <1>0, <1>8, <2>1 DEF Failing, TipsMatch, height, Reported
<1>9. ASSUME ~mempool.panicked, NEW R, Committing(R)
      PROVE  Reported'
  <2>1. TipsMatch /\ LastBlocks(B, tip, store.chain) /\ builder.step = "applied"
    BY <1>4, <1>9 DEF Committing, Ending
  <2>2. tip = height - 1 /\ store.chain[height] = builder.block /\ builder.block \in SUBSET Tx
    BY <1>0, <2>1 DEF TipsMatch, Inv, BuilderMatches, ProcessTypes, BuilderTypes
  <2>3. tip + 1 = height
    BY <1>1, <1>2, <2>2
  <2>4. LastBlocks(Kept(Append(B, builder.block)), tip + 1, store.chain)
    BY <1>1, <2>1, <2>2, <2>3, LastBlocksKept
  <2>5. /\ mempool'.state.committed_blocks = Kept(Append(B, builder.block))
        /\ mempool'.chain_tip = tip + 1 /\ mempool'.subscription.chain_tip = height
        /\ UNCHANGED store /\ height' = height /\ builder'.step = "idle"
    BY <1>0, <1>9 DEF Committing, Retires, Ending, height
  <2>6. TipsMatch'
    BY <1>2, <2>3, <2>5 DEF TipsMatch
  <2> QED BY <2>4, <2>5, <2>6 DEF Reported
<1>10. ASSUME ~mempool.panicked, NEW R, RollingBack(R)
      PROVE  Reported'
  <2>1. TipsMatch /\ LastBlocks(B, tip, store.chain)
    BY <1>4, <1>10 DEF RollingBack, Ending
  <2> QED BY <1>0, <1>10, <2>1 DEF RollingBack, Ending, Drops, SameTips, TipsMatch, height, Reported
<1>11. CASE Restarting
  <2>1. (Fresh => FreshPart)'
    BY Started, PTL
  <2>2. TipsMatch'
    BY <1>11, <2>1 DEF Restarting, FreshPart
  <2>3. PICK n, k : n = mempool' /\ k = height'
    OBVIOUS
  <2>4. k \in Nat /\ n = Mempool_new(k)
    BY <1>11, <2>3 DEF Restarting, Fresh
  <2>5. n.state.committed_blocks = <<>> /\ n.chain_tip = k
    BY <2>4 DEF Mempool_new, InflightState_new
  <2> QED BY <2>2, <2>3, <2>4, <2>5 DEF LastBlocks
<1> QED BY <1>3, <1>5, <1>6, <1>7, <1>8, <1>9, <1>10, <1>11 DEF Kinds, Panicking, Reported
-----------------------------------------------------------------------------
(* THE INPUTS A HANDLER HOLDS                                               *)

(* The inputs of transaction t were read at height read_at: no nullifier of *)
(* t was spent by then, the notes are still there, and the account state is *)
(* current unless a later block has a transaction of the account.           *)
InputsFit(t, auth) ==
    /\ auth.read_at <= height
    /\ \A i \in 1 .. auth.read_at : \A u \in store.chain[i] : nullifiers(t) \cap nullifiers(u) = {}
    /\ auth.notes \subseteq CommittedNotes
    /\ \/ auth.state = store.accounts[account_id(t)]
       \/ \E i \in auth.read_at + 1 .. height :
            \E u \in store.chain[i] : account_id(u) = account_id(t)

RequestsFit == \A t \in Tx : requests[t] # NoRequest => InputsFit(t, requests[t].auth)

(* The committed transactions, block by block.                              *)
LEMMA CommittedByBlock ==
    ASSUME StoreTypes
    PROVE  \A t : t \in CommittedTxs <=> \E i \in 1 .. height : t \in store.chain[i]
<1>1. ToSet(store.chain) = {store.chain[i] : i \in 1 .. height}
  BY LenProperties DEF ToSet, height, StoreTypes
<1> QED BY <1>1 DEF CommittedTxs

LEMMA CommittedGrow ==
    ASSUME Inv, Inv', Applying
    PROVE  /\ CommittedTxs' = CommittedTxs \cup builder.block
           /\ \A n : n \in SpentNullifiers' <=>
                       n \in SpentNullifiers \/ \E t \in builder.block : n \in nullifiers(t)
           /\ \A n : n \in CommittedNotes' <=>
                       n \in CommittedNotes \/ \E t \in builder.block : n \in output_note_ids(t)
<1>1. /\ height \in Nat /\ height' = height + 1
      /\ store'.chain[height + 1] = builder.block
      /\ \A i \in 1 .. height : store'.chain[i] = store.chain[i]
  BY ChainGrows
<1>2. \A t : t \in CommittedTxs <=> \E i \in 1 .. height : t \in store.chain[i]
  BY CommittedByBlock DEF Inv, ProcessTypes
<1>3. \A t : t \in CommittedTxs' <=> \E i \in 1 .. height' : t \in store'.chain[i]
  <2>1. (StoreTypes => \A t : t \in CommittedTxs <=> \E i \in 1 .. height : t \in store.chain[i])'
    BY CommittedByBlock, PTL
  <2> QED BY <2>1 DEF Inv, ProcessTypes
<1>4. 1 .. height' = (1 .. height) \cup {height + 1}
  BY <1>1
<1>5. CommittedTxs' = CommittedTxs \cup builder.block
  BY <1>1, <1>2, <1>3, <1>4
<1> QED BY <1>5 DEF SpentNullifiers, CommittedNotes

(* A block without a transaction of the account leaves its state alone.     *)
LEMMA StateAfterNone ==
    ASSUME StoreTypes, NEW txs, Valid(txs), NEW a \in Account, \A t \in txs : account_id(t) # a
    PROVE  StateAfter(txs, a) = store.accounts[a]
<1>1. PICK order : order = CHOOSE o \in Orders(txs) : TRUE
  OBVIOUS
<1>2. order \in Orders(txs)
  BY <1>1 DEF Valid
<1>3. order \in [1 .. Cardinality(txs) -> txs]
  BY <1>2 DEF Orders
<1>4. {i \in DOMAIN order : account_id(order[i]) = a} = {}
  BY <1>3
<1> QED BY <1>1, <1>4 DEF StateAfter

LEMMA InputsRead ==
    ASSUME Inv, NEW t \in Tx, ~AlreadySpent(t), NEW auth,
           auth.state = store.accounts[account_id(t)], auth.notes \subseteq CommittedNotes,
           auth.read_at = height
    PROVE  InputsFit(t, auth)
<1>1. height \in Nat
  BY HeightFacts DEF Inv, ProcessTypes
<1>2. \A u : u \in CommittedTxs <=> \E i \in 1 .. height : u \in store.chain[i]
  BY CommittedByBlock DEF Inv, ProcessTypes
<1>3. \A u \in CommittedTxs : nullifiers(t) \cap nullifiers(u) = {}
  BY DEF AlreadySpent, SpentNullifiers
<1> QED BY <1>1, <1>2, <1>3 DEF InputsFit

LEMMA InputsStayFit ==
    ASSUME Inv, Inv', Applying, NEW t \in Tx, NEW auth, auth.read_at \in Nat, InputsFit(t, auth)
    PROVE  InputsFit(t, auth)'
<1>1. /\ height \in Nat /\ height' = height + 1
      /\ store'.chain[height + 1] = builder.block
      /\ \A i \in 1 .. height : store'.chain[i] = store.chain[i]
  BY ChainGrows
<1>2. CommittedNotes \subseteq CommittedNotes'
  BY CommittedGrow
<1>3. auth.read_at <= height
  BY DEF InputsFit
<1>4. \A i \in 1 .. auth.read_at : i \in 1 .. height
  BY <1>1, <1>3
<1>5. \A i \in 1 .. auth.read_at : \A u \in store'.chain[i] : nullifiers(t) \cap nullifiers(u) = {}
  BY <1>1, <1>4 DEF InputsFit
<1>6. PICK a : a = account_id(t)
  OBVIOUS
<1>7. a \in Account
  BY <1>6, TxFacts
<1>8. \/ auth.state = store'.accounts[a]
      \/ \E i \in auth.read_at + 1 .. height' : \E u \in store'.chain[i] : account_id(u) = a
  <2>1. CASE auth.state = store.accounts[a]
    <3>1. CASE \A u \in builder.block : account_id(u) # a
      <4>1. StateAfter(builder.block, a) = store.accounts[a]
        BY <1>7, <3>1, StateAfterNone DEF Inv, ProcessTypes, Applying
      <4> QED BY <1>7, <2>1, <4>1 DEF Applying
    <3>2. CASE \E u \in builder.block : account_id(u) = a
      <4>1. height + 1 \in auth.read_at + 1 .. height'
        BY <1>1, <1>3
      <4> QED BY <1>1, <3>2, <4>1
    <3> QED BY <3>1, <3>2
  <2>2. CASE \E i \in auth.read_at + 1 .. height : \E u \in store.chain[i] : account_id(u) = a
    <3>1. PICK i \in auth.read_at + 1 .. height : \E u \in store.chain[i] : account_id(u) = a
      BY <2>2
    <3>2. i \in auth.read_at + 1 .. height' /\ i \in 1 .. height
      BY <1>1, <1>3, <3>1
    <3> QED BY <1>1, <3>1, <3>2
  <2> QED BY <1>6, <2>1, <2>2 DEF InputsFit
<1>9. auth.read_at <= height' /\ auth.notes \subseteq CommittedNotes'
  BY <1>1, <1>2, <1>3 DEF InputsFit
<1> QED BY <1>5, <1>6, <1>8, <1>9 DEF InputsFit

LEMMA RequestsFitStep ==
    ASSUME Inv, Inv', RequestsFit, [Next]_vars
    PROVE  RequestsFit'
<1>0. RequestTypes
  BY DEF Inv, ProcessTypes
<1>1. ASSUME UNCHANGED store, \A t \in Tx : \/ requests'[t] = NoRequest
                                            \/ requests'[t] = requests[t]
                                            \/ InputsFit(t, requests'[t].auth)
      PROVE  RequestsFit'
  BY <1>1 DEF RequestsFit, InputsFit, height, CommittedNotes, CommittedTxs
<1>2. CASE Step
  <2>1. ASSUME NEW t \in Tx, ReadInputs(t) PROVE RequestsFit'
    <3>1. CASE requests' = requests
      BY <1>1, <2>1, <3>1 DEF ReadInputs
    <3>2. CASE requests' # requests
      <4>1. PICK auth : auth = [state   |-> store.accounts[account_id(t)],
                                notes   |-> proven_unauthenticated(t) \cap CommittedNotes,
                                height  |-> 0,
                                read_at |-> height]
        OBVIOUS
      <4>2. ~AlreadySpent(t) /\ requests' = [requests EXCEPT ![t] = [step |-> "read", auth |-> auth]]
        BY <2>1, <3>2, <4>1 DEF ReadInputs
      <4>3. /\ auth.state = store.accounts[account_id(t)] /\ auth.notes \subseteq CommittedNotes
            /\ auth.read_at = height
        BY <4>1
      <4>4. InputsFit(t, auth)
        BY <4>2, <4>3, InputsRead
      <4>5. requests'[t].auth = auth /\ \A u \in Tx \ {t} : requests'[u] = requests[u]
        BY <1>0, <4>2 DEF RequestTypes
      <4> QED BY <1>1, <2>1, <4>4, <4>5 DEF ReadInputs
    <3> QED BY <3>1, <3>2
  <2>2. ASSUME NEW t \in Tx, ReportHeight(t) PROVE RequestsFit'
    <3>1. requests[t] \in Inputs /\ requests[t] # NoRequest
      BY <1>0, <2>2 DEF ReportHeight, RequestTypes, NoRequest
    <3>2. requests' = [requests EXCEPT ![t] = [requests[t] EXCEPT !.step = "authenticated", !.auth.height = height]]
      BY <1>0, <2>2, <3>1 DEF ReportHeight, RequestTypes, Inputs, Authentication
    <3>3. PICK old, new : old = requests[t].auth /\ new = requests'[t].auth
      OBVIOUS
    <3>4. new = [old EXCEPT !.height = height] /\ old \in Authentication
      BY <1>0, <3>1, <3>2, <3>3 DEF RequestTypes, Inputs
    <3>5. new.read_at = old.read_at /\ new.notes = old.notes /\ new.state = old.state
      BY <3>4 DEF Authentication
    <3>6. InputsFit(t, new)
      BY <3>1, <3>3, <3>5 DEF RequestsFit, InputsFit
    <3>7. \A u \in Tx \ {t} : requests'[u] = requests[u]
      BY <1>0, <3>2 DEF RequestTypes
    <3> QED BY <1>1, <2>2, <3>3, <3>6, <3>7 DEF ReportHeight
  <2>3. ASSUME NEW t \in Tx, AddTransaction(t) PROVE RequestsFit'
    <3>1. requests' = [requests EXCEPT ![t] = NoRequest] /\ UNCHANGED store
      BY <2>3 DEF AddTransaction
    <3>2. \A u \in Tx : requests'[u] = NoRequest \/ requests'[u] = requests[u]
      BY <1>0, <3>1 DEF RequestTypes
    <3> QED BY <1>1, <3>1, <3>2
  <2>4. CASE ApplyBlock
    <3>1. UNCHANGED requests
      BY <2>4 DEF ApplyBlock
    <3>2. Applying
      BY <2>4, ApplyBlockApplies
    <3>3. ASSUME NEW t \in Tx, requests[t] # NoRequest PROVE InputsFit(t, requests[t].auth)'
      <4>1. PICK auth : auth = requests[t].auth
        OBVIOUS
      <4>2. auth.read_at \in Nat /\ InputsFit(t, auth)
        BY <1>0, <3>3, <4>1 DEF RequestTypes, Inputs, Authentication, RequestsFit
      <4>3. InputsFit(t, auth)'
        BY <3>2, <4>2, InputsStayFit
      <4> QED BY <3>1, <4>1, <4>3 DEF InputsFit
    <3> QED BY <3>1, <3>3 DEF RequestsFit
  <2>5. ASSUME UNCHANGED <<store, requests>> PROVE RequestsFit'
    BY <1>1, <2>5
  <2> QED BY <1>2, <2>1, <2>2, <2>3, <2>4, <2>5
          DEF Step, SelectBatch, CommitBatch, RollbackBatch, SelectBlock, FailBlock, CommitBlock, RollbackBlock,
              LoadCommitted, Subscribe, Receive, StreamEnds
<1>3. CASE Restart
  <2>1. UNCHANGED store /\ \A t \in Tx : requests'[t] = NoRequest
    BY <1>3 DEF Restart
  <2> QED BY <1>1, <2>1
<1>4. CASE UNCHANGED vars
  BY <1>1, <1>4 DEF vars
<1> QED BY <1>2, <1>3, <1>4 DEF Next

-----------------------------------------------------------------------------
(* THE ORDER OF AN ACCOUNT'S TRANSACTIONS                                   *)

Live(s, g) == Nodes(g) \cup Retained(s)

(* rank numbers the live transactions of every account in the order of      *)
(* their states.                                                            *)
Ranks(rank, s, g) ==
    /\ \A t \in Live(s, g) : rank[t] \in Nat
    /\ \A t, u \in Live(s, g) : account_id(t) = account_id(u) =>
         /\ rank[t] = rank[u] => t = u
         /\ rank[t] < rank[u] =>
              /\ final_state(t) <= initial_state(u)
              /\ t \in Nodes(g) => u \in Nodes(g)
              /\ \A p, q \in DOMAIN s.committed_blocks :
                   t \in s.committed_blocks[p] /\ u \in s.committed_blocks[q] => p <= q
              /\ \E v \in Live(s, g) : account_id(v) = account_id(u) /\ rank[v] + 1 = rank[u]
              /\ \E v \in Live(s, g) : account_id(v) = account_id(t) /\ rank[v] = rank[t] + 1
         /\ rank[t] + 1 = rank[u] =>
              /\ initial_state(u) = final_state(t)
              /\ t \in Nodes(g) => t \in g.parents[u]

LEMMA PositionsRank ==
    ASSUME NEW s, NEW g, StateOK(s, g), NEW t \in Live(s, g)
    PROVE  LET acc == s.accounts[account_id(t)]
           IN  /\ \E i \in 1 .. Len(acc.states) : acc.states[i].tx = t
               /\ Positions(acc, account_id(t), s.committed_blocks, g)
<1>1. PICK a : a = account_id(t)
  OBVIOUS
<1>2. t \in Tx /\ a \in Account
  BY <1>1, StateFacts, TxFacts DEF Live, StateOK, InflightStates
<1>3. PICK acc \in Accounts : acc = s.accounts[a]
  BY <1>2, StateFacts
<1>4. ChainOK(acc, a, s.committed_blocks, g)
  BY <1>2, <1>3, StateFacts
<1>5. Positions(acc, a, s.committed_blocks, g)
  BY <1>4, ChainFacts
<1>6. PICK N, c : N = Len(acc.states) /\ c = acc.committed
  OBVIOUS
<1>7. N \in Nat /\ c \in Nat /\ c <= N
  BY <1>5, <1>6 DEF Positions
<1>8. (\A i \in 1 .. c : i \in 1 .. N) /\ (\A i \in c + 1 .. N : i \in 1 .. N)
  BY <1>7
<1>9. \E i \in 1 .. N : acc.states[i].tx = t
  <2>1. CASE t \in Nodes(g)
    <3>1. \E i \in c + 1 .. N : acc.states[i].tx = t
      BY <1>1, <1>5, <1>6, <2>1 DEF Positions
    <3> QED BY <1>8, <3>1
  <2>2. CASE t \in Retained(s)
    <3>1. \E i \in 1 .. c : acc.states[i].tx = t
      BY <1>1, <1>5, <1>6, <2>2 DEF Positions, Retained
    <3> QED BY <1>8, <3>1
  <2> QED BY <2>1, <2>2 DEF Live
<1> QED BY <1>1, <1>3, <1>5, <1>6, <1>9

LEMMA RanksExist ==
    ASSUME NEW s, NEW g, StateOK(s, g)
    PROVE  \E rank : Ranks(rank, s, g)
<1> DEFINE states(t) == s.accounts[account_id(t)].states
<1> DEFINE rank == [t \in Live(s, g) |-> CHOOSE i \in 1 .. Len(states(t)) : states(t)[i].tx = t]
<1>1. ASSUME NEW t \in Live(s, g)
      PROVE  rank[t] \in 1 .. Len(states(t)) /\ states(t)[rank[t]].tx = t
  BY <1>1, PositionsRank
<1> SUFFICES Ranks(rank, s, g)
  OBVIOUS
<1>2. PICK r : r = rank
  OBVIOUS
<1> HIDE DEF rank
<1>3. \A t \in Live(s, g) : r[t] \in Nat
  <2>1. \A t \in Live(s, g) : Len(states(t)) \in Nat
    BY PositionsRank DEF Positions
  <2> QED BY <1>1, <1>2, <2>1
<1>4. ASSUME NEW t \in Live(s, g), NEW u \in Live(s, g), account_id(t) = account_id(u)
      PROVE  /\ r[t] = r[u] => t = u
             /\ r[t] < r[u] =>
                  /\ final_state(t) <= initial_state(u)
                  /\ t \in Nodes(g) => u \in Nodes(g)
                  /\ \A p, q \in DOMAIN s.committed_blocks :
                       t \in s.committed_blocks[p] /\ u \in s.committed_blocks[q] => p <= q
                  /\ \E v \in Live(s, g) : account_id(v) = account_id(u) /\ r[v] + 1 = r[u]
                  /\ \E v \in Live(s, g) : account_id(v) = account_id(t) /\ r[v] = r[t] + 1
             /\ r[t] + 1 = r[u] =>
                  /\ initial_state(u) = final_state(t)
                  /\ t \in Nodes(g) => t \in g.parents[u]
  <2>1. PICK a : a = account_id(t)
    OBVIOUS
  <2>2. a \in Account
    BY <1>4, <2>1, StateFacts, TxFacts DEF Live, StateOK, InflightStates
  <2>3. PICK acc \in Accounts : acc = s.accounts[a]
    BY <2>2, StateFacts
  <2>4. PICK B : B = s.committed_blocks
    OBVIOUS
  <2>5. ChainOK(acc, a, B, g)
    BY <2>2, <2>3, <2>4, StateFacts
  <2>6. Positions(acc, a, B, g)
    BY <2>5, ChainFacts
  <2>7. PICK N, c, i, j : N = Len(acc.states) /\ c = acc.committed /\ i = r[t] /\ j = r[u]
    OBVIOUS
  <2>8. N \in Nat /\ c \in Nat /\ c <= N /\ i \in 1 .. N /\ j \in 1 .. N
    BY <1>1, <1>2, <1>4, <2>1, <2>3, <2>6, <2>7 DEF Positions
  <2>9. acc.states[i].tx = t /\ acc.states[j].tx = u
    BY <1>1, <1>2, <1>4, <2>1, <2>3, <2>7
  <2>10. /\ \A k \in 1 .. N : account_id(acc.states[k].tx) = a
         /\ \A k \in 1 .. c : acc.states[k].tx \in UNION ToSet(B)
         /\ \A k \in c + 1 .. N : acc.states[k].tx \in Nodes(g)
         /\ \A k, l \in 1 .. N : acc.states[k].tx = acc.states[l].tx => k = l
    BY <2>6, <2>7 DEF Positions
  <2>11. /\ \A k \in 2 .. N : initial_state(acc.states[k].tx) = final_state(acc.states[k - 1].tx)
         /\ \A k, l \in 1 .. N : k < l => final_state(acc.states[k].tx) <= initial_state(acc.states[l].tx)
         /\ \A k \in c + 1 .. N - 1 : acc.states[k].tx \in g.parents[acc.states[k + 1].tx]
         /\ \A k, l \in 1 .. c, p, q \in DOMAIN B :
              k < l /\ acc.states[k].tx \in B[p] /\ acc.states[l].tx \in B[q] => p <= q
    BY <2>5, <2>7, ChainSteps
  <2>12. Nodes(g) \cap Retained(s) = {}
    BY LiveDisjoint
  <2>13. ASSUME NEW k \in 1 .. N
         PROVE  /\ acc.states[k].tx \in Nodes(g) <=> k \in c + 1 .. N
                /\ acc.states[k].tx \in Live(s, g) /\ r[acc.states[k].tx] = k
    <3>1. k \in 1 .. c \/ k \in c + 1 .. N
      BY <2>8, <2>13
    <3>2. PICK v : v = acc.states[k].tx
      OBVIOUS
    <3>3. v \in Live(s, g) /\ (k \in 1 .. c => v \in Retained(s)) /\ (k \in c + 1 .. N => v \in Nodes(g))
      BY <2>4, <2>10, <3>1, <3>2 DEF Live, Retained
    <3>4. account_id(v) = a
      BY <2>10, <2>13, <3>2
    <3>5. r[v] \in 1 .. N /\ acc.states[r[v]].tx = v
      BY <1>1, <1>2, <2>3, <2>7, <3>3, <3>4
    <3>6. r[v] = k
      BY <2>10, <2>13, <3>2, <3>5
    <3>7. v \in Nodes(g) => k \in c + 1 .. N
      BY <2>12, <3>1, <3>3
    <3> QED BY <3>2, <3>3, <3>6, <3>7
  <2>14. i = j => t = u
    BY <2>9
  <2>15. ASSUME i < j
         PROVE  /\ final_state(t) <= initial_state(u)
                /\ t \in Nodes(g) => u \in Nodes(g)
                /\ \A p, q \in DOMAIN B : t \in B[p] /\ u \in B[q] => p <= q
                /\ \E v \in Live(s, g) : account_id(v) = account_id(u) /\ r[v] + 1 = r[u]
                /\ \E v \in Live(s, g) : account_id(v) = account_id(t) /\ r[v] = r[t] + 1
    <3>1. final_state(t) <= initial_state(u)
      BY <2>8, <2>9, <2>11, <2>15
    <3>2. t \in Nodes(g) => u \in Nodes(g)
      <4>1. i \in c + 1 .. N => j \in c + 1 .. N
        BY <2>8, <2>15
      <4> QED BY <2>8, <2>9, <2>13, <4>1
    <3>3. ASSUME NEW p \in DOMAIN B, NEW q \in DOMAIN B, t \in B[p], u \in B[q]
          PROVE  p <= q
      <4>1. t \in Retained(s) /\ u \in Retained(s)
        BY <2>4, <3>3 DEF Retained, ToSet
      <4>2. i \in 1 .. c /\ j \in 1 .. c
        <5>1. i \notin c + 1 .. N /\ j \notin c + 1 .. N
          BY <2>8, <2>9, <2>12, <2>13, <4>1
        <5> QED BY <2>8, <5>1
      <4> QED BY <2>9, <2>11, <2>15, <3>3, <4>2
    <3>4. \E v \in Live(s, g) : account_id(v) = account_id(u) /\ r[v] + 1 = r[u]
      <4>1. j - 1 \in 1 .. N /\ (j - 1) + 1 = j
        BY <2>8, <2>15
      <4> QED BY <1>4, <2>1, <2>7, <2>10, <2>13, <4>1
    <3>5. \E v \in Live(s, g) : account_id(v) = account_id(t) /\ r[v] = r[t] + 1
      <4>1. i + 1 \in 1 .. N
        BY <2>8, <2>15
      <4> QED BY <2>1, <2>7, <2>10, <2>13, <4>1
    <3> QED BY <3>1, <3>2, <3>3, <3>4, <3>5
  <2>16. ASSUME i + 1 = j
         PROVE  initial_state(u) = final_state(t) /\ (t \in Nodes(g) => t \in g.parents[u])
    <3>1. j \in 2 .. N /\ j - 1 = i
      BY <2>8, <2>16
    <3>2. initial_state(u) = final_state(t)
      BY <2>9, <2>11, <3>1
    <3>3. ASSUME t \in Nodes(g) PROVE t \in g.parents[u]
      <4>1. i \in c + 1 .. N
        BY <2>8, <2>9, <2>13, <3>3
      <4>2. i \in c + 1 .. N - 1
        BY <2>8, <2>16, <4>1
      <4> QED BY <2>9, <2>11, <2>16, <4>2
    <3> QED BY <3>2, <3>3
  <2> QED BY <2>4, <2>7, <2>14, <2>15, <2>16
<1> QED BY <1>2, <1>3, <1>4 DEF Ranks

(* A set that holds with a transaction all it depends on holds with it all  *)
(* inflight transactions of the account before it.                          *)
LEMMA RankClosed ==
    ASSUME NEW s, NEW g, NEW rank, Ranks(rank, s, g),
           NEW C, C \subseteq Nodes(g), \A c \in C : g.parents[c] \subseteq C,
           NEW t \in Nodes(g), NEW u \in C, account_id(t) = account_id(u), rank[t] < rank[u]
    PROVE  t \in C
<1> SUFFICES ASSUME t \notin C PROVE FALSE
  OBVIOUS
<1>0. Nodes(g) \subseteq Live(s, g)
  BY DEF Live
<1> DEFINE Later == {v \in C : account_id(v) = account_id(t) /\ rank[t] < rank[v]}
<1> DEFINE K == {rank[v] : v \in Later}
<1>1. K \subseteq Nat /\ K # {}
  BY <1>0 DEF Ranks
<1>2. PICK k \in K : \A l \in K : k <= l
  <2> HIDE DEF K
  <2> QED BY <1>1, LeastNatural
<1>3. PICK v \in Later : rank[v] = k
  BY <1>2
<1>4. /\ t \in Live(s, g) /\ v \in Live(s, g) /\ account_id(v) = account_id(t) /\ rank[t] < rank[v]
      /\ rank[t] \in Nat /\ rank[v] \in Nat /\ v \in C
  BY <1>0, <1>3 DEF Ranks
<1>5. PICK w \in Live(s, g) : account_id(w) = account_id(v) /\ rank[w] + 1 = rank[v]
  BY <1>4 DEF Ranks
<1>6. rank[w] \in Nat
  BY <1>5 DEF Ranks
<1>7. w \in Nodes(g)
  <2>1. CASE rank[w] = rank[t]
    BY <1>4, <1>5, <2>1 DEF Ranks
  <2>2. CASE rank[t] < rank[w]
    BY <1>4, <1>5, <2>2 DEF Ranks
  <2> QED BY <1>4, <1>5, <1>6, <2>1, <2>2
<1>8. w \in g.parents[v]
  BY <1>4, <1>5, <1>7 DEF Ranks
<1>9. w \in C
  BY <1>4, <1>8
<1>10. rank[w] # rank[t]
  BY <1>4, <1>5, <1>9 DEF Ranks
<1>11. rank[t] < rank[w] /\ ~(rank[v] <= rank[w])
  BY <1>4, <1>5, <1>6, <1>10
<1>12. w \in Later
  BY <1>4, <1>5, <1>9, <1>11
<1> QED BY <1>2, <1>3, <1>11, <1>12

-----------------------------------------------------------------------------
(* WHAT IS INFLIGHT, AND THE STORE                                          *)

(* Of account a in state A: the old transactions led to A and the new ones  *)
(* start from it.                                                           *)
AccountFits(A, Old, New, a) ==
    /\ \A t \in Old : account_id(t) = a => final_state(t) <= A
    /\ \A t \in New : account_id(t) = a => A <= initial_state(t)
    /\ \A u \in Old : account_id(u) = a => \E t \in Old : account_id(t) = a /\ final_state(t) = A
    /\ \A u \in New : account_id(u) = a => \E t \in New : account_id(t) = a /\ initial_state(t) = A

LEMMA FitsAdd ==
    ASSUME NEW A \in Nat, NEW Old, NEW New, NEW a, AccountFits(A, Old, New, a), Old \cup New \subseteq Tx,
           NEW t \in Tx, account_id(t) = a,
           \/ initial_state(t) = A
           \/ \E v \in Old \cup New :
                /\ account_id(v) = a /\ initial_state(t) = final_state(v)
                /\ \A w \in Old \cup New : account_id(w) = a => w = v \/ final_state(w) <= initial_state(v)
    PROVE  AccountFits(A, Old, New \cup {t}, a)
<1>0. \A u \in Old \cup New : initial_state(u) \in Nat /\ final_state(u) \in Nat /\ initial_state(u) <= final_state(u)
  BY TxFacts
<1>1. CASE initial_state(t) = A
  BY <1>1 DEF AccountFits
<1>2. ASSUME NEW v \in Old \cup New, account_id(v) = a, initial_state(t) = final_state(v),
             \A w \in Old \cup New : account_id(w) = a => w = v \/ final_state(w) <= initial_state(v)
      PROVE  AccountFits(A, Old, New \cup {t}, a)
  <2>1. CASE v \in New
    <3>1. A <= initial_state(v) /\ \E w \in New : account_id(w) = a /\ initial_state(w) = A
      BY <1>2, <2>1 DEF AccountFits
    <3>2. A <= initial_state(t)
      BY <1>0, <1>2, <3>1
    <3> QED BY <3>1, <3>2 DEF AccountFits
  <2>2. CASE v \in Old /\ v \notin New
    <3>1. PICK o \in Old : account_id(o) = a /\ final_state(o) = A
      BY <1>2, <2>2 DEF AccountFits
    <3>2. final_state(v) <= A
      BY <1>2, <2>2 DEF AccountFits
    <3>3. A <= final_state(v)
      BY <1>0, <1>2, <3>1
    <3>4. initial_state(t) = A
      BY <1>0, <1>2, <3>2, <3>3
    <3> QED BY <3>4 DEF AccountFits
  <2> QED BY <2>1, <2>2
<1> QED BY <1>1, <1>2

LEMMA FitsRetire ==
    ASSUME NEW A \in Nat, NEW Old, NEW New, NEW a, AccountFits(A, Old, New, a), Old \cup New \subseteq Tx,
           NEW O, NEW N, O \subseteq Old, N \subseteq New,
           \A t \in Old \ O, u \in O :
             account_id(t) = a /\ account_id(u) = a => final_state(t) <= initial_state(u),
           \A t \in New \ N, u \in N :
             account_id(t) = a /\ account_id(u) = a => final_state(u) <= initial_state(t)
    PROVE  AccountFits(A, O, N, a)
<1>0. \A u \in Old \cup New : initial_state(u) \in Nat /\ final_state(u) \in Nat /\ initial_state(u) <= final_state(u)
  BY TxFacts
<1>1. ASSUME NEW u \in O, account_id(u) = a
      PROVE  \E t \in O : account_id(t) = a /\ final_state(t) = A
  <2>1. PICK t \in Old : account_id(t) = a /\ final_state(t) = A
    BY <1>1 DEF AccountFits
  <2>2. CASE t \notin O
    <3>1. final_state(t) <= initial_state(u) /\ final_state(u) <= A
      BY <1>1, <2>1, <2>2 DEF AccountFits
    <3>2. final_state(u) = A
      BY <1>0, <2>1, <3>1
    <3> QED BY <1>1, <3>2
  <2> QED BY <2>1, <2>2
<1>2. ASSUME NEW u \in N, account_id(u) = a
      PROVE  \E t \in N : account_id(t) = a /\ initial_state(t) = A
  <2>1. PICK t \in New : account_id(t) = a /\ initial_state(t) = A
    BY <1>2 DEF AccountFits
  <2>2. CASE t \notin N
    <3>1. final_state(u) <= initial_state(t) /\ A <= initial_state(u)
      BY <1>2, <2>1, <2>2 DEF AccountFits
    <3>2. initial_state(u) = A
      BY <1>0, <2>1, <3>1
    <3> QED BY <1>2, <3>2
  <2> QED BY <2>1, <2>2
<1> QED BY <1>1, <1>2 DEF AccountFits

(* The live transactions of an account are older than its inflight ones     *)
(* when they are committed.                                                 *)
LEMMA RankOld ==
    ASSUME NEW s, NEW g, StateOK(s, g), NEW rank, Ranks(rank, s, g),
           NEW t \in Retained(s), NEW u \in Nodes(g), account_id(t) = account_id(u)
    PROVE  rank[t] < rank[u]
<1>1. t \notin Nodes(g)
  BY LiveDisjoint
<1>2. t \in Live(s, g) /\ u \in Live(s, g)
  BY DEF Live
<1>3. rank[t] \in Nat /\ rank[u] \in Nat /\ rank[t] # rank[u] /\ ~(rank[u] < rank[t])
  BY <1>1, <1>2 DEF Ranks
<1> QED BY <1>3

(* The store applies inflight transactions C of account a, z being the one  *)
(* that determines the new state.                                           *)
LEMMA FitsApply ==
    ASSUME NEW s, NEW g, StateOK(s, g), Nodes(g) \subseteq Tx,
           NEW C, C \subseteq Nodes(g), \A c \in C : g.parents[c] \subseteq C,
           NEW A \in Nat, NEW a, AccountFits(A, Retained(s), Nodes(g), a),
           NEW z \in C, account_id(z) = a,
           \A t \in C : account_id(t) = a => final_state(t) <= final_state(z)
    PROVE  AccountFits(final_state(z), Retained(s) \cup C, Nodes(g) \ C, a)
<1>1. PICK rank : Ranks(rank, s, g)
  BY RanksExist
<1>2. PICK I, R : I = Nodes(g) /\ R = Retained(s)
  OBVIOUS
<1>3. I \subseteq Tx /\ R \subseteq Tx /\ z \in I
  BY <1>2, StateFacts
<1>4. \A u \in I \cup R : initial_state(u) \in Nat /\ final_state(u) \in Nat /\ initial_state(u) <= final_state(u)
  BY <1>3, TxFacts
<1>5. ASSUME NEW t \in R, account_id(t) = a PROVE final_state(t) <= final_state(z)
  <2>1. final_state(t) <= A /\ A <= initial_state(z)
    BY <1>2, <1>3, <1>5 DEF AccountFits
  <2> QED BY <1>3, <1>4, <2>1
<1>6. ASSUME NEW t \in I \ C, account_id(t) = a
      PROVE  rank[z] < rank[t] /\ rank[z] \in Nat /\ rank[t] \in Nat /\ final_state(z) <= initial_state(t)
  <2>1. z \in Live(s, g) /\ t \in Live(s, g)
    BY <1>2, <1>3 DEF Live
  <2>2. ~(rank[t] < rank[z])
    BY <1>1, <1>2, <1>6, RankClosed
  <2>3. rank[z] # rank[t] /\ rank[z] \in Nat /\ rank[t] \in Nat
    BY <1>1, <1>6, <2>1 DEF Ranks
  <2>4. rank[z] < rank[t]
    BY <2>2, <2>3
  <2> QED BY <1>1, <1>6, <2>1, <2>3, <2>4 DEF Ranks
<1>7. ASSUME NEW u \in I \ C, account_id(u) = a
      PROVE  \E t \in I \ C : account_id(t) = a /\ initial_state(t) = final_state(z)
  <2> DEFINE K == {rank[t] : t \in {v \in I \ C : account_id(v) = a}}
  <2>1. K \subseteq Nat /\ K # {}
    BY <1>6, <1>7
  <2>2. PICK k \in K : \A l \in K : k <= l
    <3> HIDE DEF K
    <3> QED BY <2>1, LeastNatural
  <2>3. PICK v \in I \ C : account_id(v) = a /\ rank[v] = k
    BY <2>2
  <2>4. rank[z] < rank[v] /\ rank[z] \in Nat /\ rank[v] \in Nat
    BY <1>6, <2>3
  <2>5. z \in Live(s, g) /\ v \in Live(s, g)
    BY <1>2, <1>3 DEF Live
  <2>6. PICK w \in Live(s, g) : account_id(w) = a /\ rank[w] + 1 = rank[v]
    BY <1>1, <2>3, <2>4, <2>5 DEF Ranks
  <2>7. rank[w] \in Nat /\ initial_state(v) = final_state(w)
    BY <1>1, <2>3, <2>5, <2>6 DEF Ranks
  <2>8. rank[w] = rank[z] \/ rank[z] < rank[w]
    BY <2>4, <2>6, <2>7
  <2>9. /\ w \in I
        /\ w = z \/ final_state(z) <= initial_state(w)
    BY <1>1, <1>2, <1>3, <2>5, <2>6, <2>8 DEF Ranks
  <2>10. ~(rank[v] <= rank[w])
    BY <2>4, <2>6, <2>7
  <2>11. w \in C
    BY <2>2, <2>3, <2>6, <2>9, <2>10
  <2>12. final_state(w) <= final_state(z)
    BY <2>6, <2>11
  <2>13. final_state(w) = final_state(z)
    BY <1>3, <1>4, <2>9, <2>12
  <2> QED BY <2>3, <2>7, <2>13
<1>8. ASSUME NEW t \in R \cup C, account_id(t) = a PROVE final_state(t) <= final_state(z)
  BY <1>5, <1>8
<1>9. AccountFits(final_state(z), R \cup C, I \ C, a)
  BY <1>6, <1>7, <1>8 DEF AccountFits
<1> QED BY <1>2, <1>9

(* Along an applicable order the states of an account do not decrease, so   *)
(* that the state after a block is the last and the greatest one.           *)
LEMMA StateAfterLast ==
    ASSUME StoreTypes, NEW txs, txs \subseteq Tx, IsFiniteSet(txs), Valid(txs), NEW a \in Account,
           NEW u \in txs, account_id(u) = a
    PROVE  \E z \in txs : /\ account_id(z) = a /\ StateAfter(txs, a) = final_state(z)
                         /\ \A t \in txs : account_id(t) = a => final_state(t) <= final_state(z)
<1>1. PICK o : o = CHOOSE p \in Orders(txs) : TRUE
  OBVIOUS
<1>2. PICK N : N = Cardinality(txs)
  OBVIOUS
<1>3. o \in [1 .. N -> txs] /\ N \in Nat /\ Applicable(o) /\ ToSet(o) = txs
  <2>1. o \in Orders(txs)
    BY <1>1 DEF Valid
  <2>2. N \in Nat
    BY <1>2, FS_CardinalityType
  <2> QED BY <1>2, <2>1, <2>2 DEF Orders
<1>4. PICK mine : mine = {i \in DOMAIN o : account_id(o[i]) = a}
  OBVIOUS
<1>5. mine \subseteq 1 .. N /\ \A i \in 1 .. N : i \in mine <=> account_id(o[i]) = a
  BY <1>3, <1>4
<1>6. \A t \in txs : \E i \in 1 .. N : o[i] = t
  BY <1>3 DEF ToSet
<1>7. mine # {}
  BY <1>5, <1>6
<1>8. PICK k : k = CHOOSE i \in mine : \A j \in mine : j <= i
  OBVIOUS
<1>9. k \in mine /\ \A j \in mine : j <= k
  BY <1>3, <1>5, <1>7, <1>8, LastPosition
<1>10. StateAfter(txs, a) = final_state(o[k])
  BY <1>1, <1>4, <1>7, <1>8 DEF StateAfter
<1>11. \A i \in 1 .. N : o[i] \in Tx /\ initial_state(o[i]) \in Nat /\ final_state(o[i]) \in Nat
                         /\ initial_state(o[i]) <= final_state(o[i])
  BY <1>3, TxFacts
<1>12. ASSUME NEW j \in mine, NEW i \in mine, i < j
       PROVE  \E p \in mine : i <= p /\ p < j /\ final_state(o[p]) <= final_state(o[j])
  <2>1. PICK E : E = {q \in 1 .. j - 1 : account_id(o[q]) = account_id(o[j])}
    OBVIOUS
  <2>2. account_id(o[j]) = a /\ j \in 1 .. N /\ i \in 1 .. N
    BY <1>5
  <2>3. E \subseteq 1 .. N /\ (\A q \in E : q \in mine /\ q < j) /\ i \in E
    <3>1. \A q \in 1 .. j - 1 : q \in 1 .. N /\ q < j
      BY <1>3, <2>2
    <3>2. i \in 1 .. j - 1
      BY <1>3, <1>12, <2>2
    <3>3. account_id(o[i]) = a
      BY <1>5
    <3> QED BY <1>5, <2>1, <2>2, <3>1, <3>2, <3>3
  <2>4. PICK p : p = CHOOSE q \in E : \A l \in E : l <= q
    OBVIOUS
  <2>5. p \in E /\ i <= p
    BY <1>3, <2>3, <2>4, LastPosition
  <2>6. initial_state(o[j]) = final_state(o[p])
    <3>1. initial_state(o[j]) = IF E = {} THEN store.accounts[account_id(o[j])]
                                ELSE final_state(o[CHOOSE q \in E : \A l \in E : l <= q])
      BY <1>3, <2>1, <2>2 DEF Applicable
    <3> QED BY <2>3, <2>4, <3>1
  <2>7. p \in mine /\ p < j
    BY <2>3, <2>5
  <2> QED BY <1>11, <2>2, <2>5, <2>6, <2>7
<1>13. ASSUME NEW j \in mine, NEW i \in mine, i <= j
       PROVE  final_state(o[i]) <= final_state(o[j])
  <2> SUFFICES ASSUME ~(final_state(o[i]) <= final_state(o[j])) PROVE FALSE
    OBVIOUS
  <2> DEFINE Bad == {q \in mine : i <= q /\ ~(final_state(o[i]) <= final_state(o[q]))}
  <2>1. Bad \subseteq Nat /\ Bad # {}
    <3>1. Bad \subseteq mine /\ 1 .. N \subseteq Nat
      BY <1>3
    <3>2. j \in Bad
      BY <1>13
    <3> QED BY <1>5, <3>1, <3>2
  <2>2. PICK q \in Bad : \A r \in Bad : q <= r
    <3> HIDE DEF Bad
    <3> QED BY <2>1, LeastNatural
  <2>3. q \in 1 .. N /\ i \in 1 .. N /\ i # q
    BY <1>5, <1>11, <2>2
  <2>4. i < q
    BY <2>2, <2>3
  <2>5. PICK p \in mine : i <= p /\ p < q /\ final_state(o[p]) <= final_state(o[q])
    BY <1>12, <2>2, <2>4
  <2>6. p \in 1 .. N /\ p \notin Bad
    BY <1>5, <2>2, <2>3, <2>5
  <2>7. final_state(o[i]) <= final_state(o[p])
    BY <2>5, <2>6
  <2> QED BY <1>11, <2>2, <2>3, <2>5, <2>6, <2>7
<1>14. ASSUME NEW t \in txs, account_id(t) = a PROVE final_state(t) <= final_state(o[k])
  <2>1. PICK i \in 1 .. N : o[i] = t
    BY <1>6
  <2>2. i \in mine /\ i <= k
    BY <1>5, <1>9, <1>14, <2>1
  <2> QED BY <1>9, <1>13, <2>1, <2>2
<1>15. o[k] \in txs /\ account_id(o[k]) = a
  BY <1>3, <1>5, <1>9
<1> QED BY <1>10, <1>14, <1>15

(* The transactions of the block that was applied and not yet reported.     *)
Ahead == IF builder.step = "applied" THEN builder.block ELSE {}

(* The nullifiers of an inflight transaction are unspent, its notes exist   *)
(* or a transaction it depends on creates them, and the inflight            *)
(* transactions of an account continue from the state the store has.        *)
Unspent ==
    \A t \in Nodes(mempool.transactions) \ Ahead : nullifiers(t) \cap SpentNullifiers = {}

NotesFound ==
    \A t \in Nodes(mempool.transactions) : \A n \in proven_unauthenticated(t) :
        \/ n \in CommittedNotes
        \/ \E u \in mempool.transactions.parents[t] : n \in output_note_ids(u)

StatesFit ==
    \A a \in Account :
        AccountFits(store.accounts[a], Retained(mempool.state) \cup Ahead,
                    Nodes(mempool.transactions) \ Ahead, a)

Settled ==
    ~mempool.panicked /\ faults.lost = 0 /\ ~overlap_missed => Unspent /\ NotesFound /\ StatesFit

(* What the mempool has retained was committed, and the blocks after the    *)
(* oldest state it knows are retained or in progress.                       *)
LEMMA Overlap ==
    ASSUME Inv, SelectedClosed, Reported, ~mempool.panicked, faults.lost = 0
    PROVE  LET old == oldest_committed_state(mempool.state)
           IN  /\ old \in Nat /\ old <= height
               /\ \A i \in old + 1 .. height :
                    store.chain[i] \subseteq Live(mempool.state, mempool.transactions)
               /\ Retained(mempool.state) \subseteq CommittedTxs
               /\ Ahead \subseteq CommittedTxs \cap Nodes(mempool.transactions)
<1>1. PICK B, tip, L : B = mempool.state.committed_blocks /\ tip = mempool.chain_tip /\ L = Len(B)
  OBVIOUS
<1>2. B \in Seq(SUBSET Tx) /\ tip \in Nat /\ L \in Nat /\ tip = mempool.state.chain_tip
  BY <1>1, LenProperties DEF Inv, Consistent, Sound, StateOK, InflightStates
<1>3. height \in Nat
  BY HeightFacts DEF Inv, ProcessTypes
<1>4. L <= tip /\ \A i \in 1 .. L : B[i] = store.chain[tip - L + i]
  BY <1>1 DEF Reported, LastBlocks
<1>5. /\ builder.step # "applied" => tip = height
      /\ builder.step = "applied" => tip = height - 1
  BY <1>1, <1>3 DEF Reported, TipsMatch
<1>6. tip <= height
  BY <1>3, <1>5
<1>7. oldest_committed_state(mempool.state) = tip - L /\ tip - L \in Nat /\ tip - L <= height
  BY <1>1, <1>2, <1>3, <1>4, <1>6 DEF oldest_committed_state
<1>8. ToSet(B) = {B[i] : i \in 1 .. L}
  BY <1>1, <1>2, LenProperties DEF ToSet
<1>9. \A t : t \in Retained(mempool.state) <=> \E i \in 1 .. L : t \in B[i]
  BY <1>1, <1>8 DEF Retained
<1>10. \A t : t \in CommittedTxs <=> \E i \in 1 .. height : t \in store.chain[i]
  BY CommittedByBlock DEF Inv, ProcessTypes
<1>11. Retained(mempool.state) \subseteq CommittedTxs
  <2>1. \A i \in 1 .. L : tip - L + i \in 1 .. height
    BY <1>2, <1>3, <1>4, <1>6
  <2> QED BY <1>4, <1>9, <1>10, <2>1
<1>12. builder.block \subseteq Nodes(mempool.transactions)
  BY DEF SelectedClosed
<1>13. builder.step = "applied" => height \in 1 .. height /\ store.chain[height] = builder.block
  BY <1>3 DEF Inv, BuilderMatches
<1>14. Ahead \subseteq CommittedTxs \cap Nodes(mempool.transactions)
  BY <1>10, <1>12, <1>13 DEF Ahead
<1>15. ASSUME NEW i \in tip - L + 1 .. height
       PROVE  store.chain[i] \subseteq Live(mempool.state, mempool.transactions)
  <2>1. CASE i <= tip
    <3>1. i - (tip - L) \in 1 .. L /\ tip - L + (i - (tip - L)) = i
      BY <1>2, <1>3, <1>4, <1>15, <2>1
    <3>2. B[i - (tip - L)] = store.chain[i]
      BY <1>4, <3>1
    <3> QED BY <1>9, <3>1, <3>2 DEF Live
  <2>2. CASE ~(i <= tip)
    <3>1. builder.step = "applied" /\ i = height
      BY <1>2, <1>3, <1>4, <1>5, <1>15, <2>2
    <3> QED BY <1>12, <1>13, <3>1 DEF Live
  <2> QED BY <2>1, <2>2
<1> QED BY <1>7, <1>11, <1>14, <1>15

(* The same transactions and the same store.                                *)
LEMMA SettledFrame ==
    ASSUME Unspent, NotesFound, StatesFit,
           Nodes(mempool'.transactions) = Nodes(mempool.transactions),
           mempool'.transactions.parents = mempool.transactions.parents,
           mempool'.state = mempool.state, UNCHANGED store, Ahead' = Ahead
    PROVE  (Unspent /\ NotesFound /\ StatesFit)'
<1>1. UNCHANGED <<SpentNullifiers, CommittedNotes>>
  BY DEF SpentNullifiers, CommittedNotes, CommittedTxs
<1> QED BY <1>1 DEF Unspent, NotesFound, StatesFit

(* verify_transaction has found the initial state to be that of the last    *)
(* live transaction of the account, or what the store said.                 *)
LEMMA InitialState ==
    ASSUME NEW s, NEW g, StateOK(s, g), Nodes(g) \subseteq Tx, NEW t \in Tx, NEW auth,
           verify_transaction(s, t, auth) = "Ok"
    PROVE  \/ /\ initial_state(t) = auth.state
              /\ \A w \in Live(s, g) : account_id(w) # account_id(t)
           \/ \E v \in Live(s, g) :
                /\ account_id(v) = account_id(t) /\ initial_state(t) = final_state(v)
                /\ \A w \in Live(s, g) : account_id(w) = account_id(t) =>
                      w = v \/ final_state(w) <= initial_state(v)
<1>1. PICK a : a = account_id(t)
  OBVIOUS
<1>2. a \in Account
  BY <1>1, TxFacts
<1>3. PICK acc \in Accounts : acc = s.accounts[a]
  BY <1>2, StateFacts
<1>4. PICK B : B = s.committed_blocks
  OBVIOUS
<1>5. ChainOK(acc, a, B, g)
  BY <1>2, <1>3, <1>4, StateFacts
<1>6. Positions(acc, a, B, g)
  BY <1>5, ChainFacts
<1>7. PICK N, c : N = Len(acc.states) /\ c = acc.committed
  OBVIOUS
<1>8. N \in Nat /\ c \in Nat /\ c <= N /\ acc.states \in Seq([state : Nat, tx : Tx])
  BY <1>6, <1>7 DEF Positions
<1>9. /\ \A i \in 1 .. N : acc.states[i].state = final_state(acc.states[i].tx) /\ account_id(acc.states[i].tx) = a
      /\ \A i \in 1 .. c : acc.states[i].tx \in UNION ToSet(B)
      /\ \A i \in c + 1 .. N : acc.states[i].tx \in Nodes(g)
  BY <1>6, <1>7 DEF Positions
<1>10. \A k, l \in 1 .. N : k < l => final_state(acc.states[k].tx) <= initial_state(acc.states[l].tx)
  BY <1>5, <1>7, ChainSteps
<1>11. ASSUME NEW w \in Live(s, g), account_id(w) = a
       PROVE  \E i \in 1 .. N : acc.states[i].tx = w
  BY <1>3, <1>7, <1>11, PositionsRank
<1>12. initial_state(t) \in (IF current_state(acc) = {} THEN {auth.state} ELSE current_state(acc))
  BY <1>1, <1>3 DEF verify_transaction
<1>13. CASE acc.states = <<>>
  <2>1. N = 0 /\ current_state(acc) = {}
    BY <1>7, <1>13 DEF current_state
  <2>2. initial_state(t) = auth.state
    BY <1>12, <2>1
  <2>3. \A w \in Live(s, g) : account_id(w) # a
    BY <1>11, <2>1
  <2> QED BY <1>1, <2>2, <2>3
<1>14. CASE acc.states # <<>>
  <2>1. N \in 1 .. N
    BY <1>7, <1>8, <1>14
  <2>2. initial_state(t) = acc.states[N].state
    BY <1>7, <1>12, <1>14 DEF current_state
  <2>3. PICK v : v = acc.states[N].tx
    OBVIOUS
  <2>4. account_id(v) = a /\ initial_state(t) = final_state(v)
    BY <1>9, <2>1, <2>2, <2>3
  <2>5. v \in Live(s, g)
    <3>1. N \in 1 .. c \/ N \in c + 1 .. N
      BY <1>8, <2>1
    <3> QED BY <1>4, <1>9, <2>3, <3>1 DEF Live, Retained
  <2>6. ASSUME NEW w \in Live(s, g), account_id(w) = a PROVE w = v \/ final_state(w) <= initial_state(v)
    <3>1. PICK i \in 1 .. N : acc.states[i].tx = w
      BY <1>11, <2>6
    <3>2. i = N \/ i < N
      BY <1>8, <3>1
    <3> QED BY <1>10, <2>1, <2>3, <3>1, <3>2
  <2> QED BY <1>1, <2>4, <2>5, <2>6
<1> QED BY <1>13, <1>14

LEMMA SettledAdd ==
    ASSUME Inv, SelectedClosed, Reported, RequestsFit, Settled, ~mempool.panicked,
           faults.lost = 0, ~overlap_missed', NEW t \in Tx, Adding(t)
    PROVE  (Unspent /\ NotesFound /\ StatesFit)'
<1>1. PICK s, g, auth : s = mempool.state /\ g = mempool.transactions /\ auth = requests[t].auth
  OBVIOUS
<1>2. StateOK(s, g) /\ GraphOK(g)
  BY <1>1 DEF Inv, Consistent, Sound
<1>3. Nodes(g) \subseteq Tx /\ Retained(s) \subseteq Tx
  BY <1>2, TrackedAreTxs, StateFacts
<1>4. /\ verify_transaction(s, t, auth) = "Ok" /\ InputsFit(t, auth) /\ ~overlap_missed
      /\ ~(auth.read_at < oldest_committed_state(s))
      /\ UNCHANGED <<builder, store>>
  BY <1>1 DEF Adding, RequestsFit
<1>5. /\ t \notin Nodes(g) /\ Nodes(mempool'.transactions) = Nodes(g) \cup {t}
      /\ mempool'.transactions.parents[t] = insert_transaction_parents(s, t, auth)
      /\ \A k \in Nodes(g) : mempool'.transactions.parents[k] = g.parents[k]
      /\ mempool'.state.committed_blocks = s.committed_blocks
  BY <1>1 DEF Adding, Adds
<1>6. Unspent /\ NotesFound /\ StatesFit
  BY <1>4 DEF Settled
<1>7. UNCHANGED <<SpentNullifiers, CommittedNotes, CommittedTxs>> /\ Ahead' = Ahead
  BY <1>4 DEF SpentNullifiers, CommittedNotes, CommittedTxs, Ahead
<1>8. PICK old : old = oldest_committed_state(s)
  OBVIOUS
<1>9. /\ old \in Nat /\ old <= height
      /\ \A i \in old + 1 .. height : store.chain[i] \subseteq Live(s, g)
      /\ Retained(s) \subseteq CommittedTxs
      /\ Ahead \subseteq CommittedTxs \cap Nodes(g)
  BY <1>1, <1>8, Overlap
<1>10. height \in Nat /\ auth.read_at \in Nat /\ old <= auth.read_at /\ auth.read_at <= height
  <2>1. height \in Nat
    BY HeightFacts DEF Inv, ProcessTypes
  <2>2. auth.read_at \in Nat
    BY <1>1 DEF Inv, ProcessTypes, RequestTypes, Adding, Inputs, Authentication
  <2> QED BY <1>4, <1>8, <1>9, <2>1, <2>2 DEF InputsFit
<1>11. \A i \in auth.read_at + 1 .. height : i \in old + 1 .. height
  BY <1>9, <1>10
<1>12. NotesAre(s.nullifiers, s.output_notes, Nodes(g), Retained(s))
  BY <1>2, StateFacts
<1>13. \A u \in Live(s, g) : nullifiers(u) \subseteq s.nullifiers
  BY <1>12 DEF NotesAre, Live
<1>14. /\ nullifiers(t) \cap s.nullifiers = {}
       /\ unauthenticated_notes(t, auth) \subseteq DOMAIN s.output_notes
  BY <1>4, Verified
<1>15. nullifiers(t) \cap SpentNullifiers = {}
  <2>1. \A u : u \in CommittedTxs <=> \E i \in 1 .. height : u \in store.chain[i]
    BY CommittedByBlock DEF Inv, ProcessTypes
  <2>2. ASSUME NEW u \in CommittedTxs PROVE nullifiers(t) \cap nullifiers(u) = {}
    <3>1. PICK i \in 1 .. height : u \in store.chain[i]
      BY <2>1
    <3>2. i \in 1 .. auth.read_at \/ i \in auth.read_at + 1 .. height
      BY <1>10, <3>1
    <3>3. CASE i \in 1 .. auth.read_at
      BY <1>4, <3>1, <3>3 DEF InputsFit
    <3>4. CASE i \in auth.read_at + 1 .. height
      <4>1. u \in Live(s, g)
        BY <1>9, <1>11, <3>1, <3>4
      <4> QED BY <1>13, <1>14, <4>1
    <3> QED BY <3>2, <3>3, <3>4
  <2> QED BY <2>2 DEF SpentNullifiers
<1>16. Unspent'
  BY <1>1, <1>5, <1>6, <1>7, <1>15 DEF Unspent
<1>17. ASSUME NEW n \in proven_unauthenticated(t)
       PROVE  n \in CommittedNotes \/ \E u \in insert_transaction_parents(s, t, auth) : n \in output_note_ids(u)
  <2>1. CASE n \in auth.notes
    BY <1>4, <2>1 DEF InputsFit
  <2>2. CASE n \notin auth.notes
    <3>1. n \in unauthenticated_notes(t, auth) /\ n \in DOMAIN s.output_notes
      BY <1>14, <1>17, <2>2 DEF unauthenticated_notes
    <3>2. PICK u \in Nodes(g) \cup Retained(s) : n \in output_note_ids(u)
      BY <1>12, <3>1 DEF NotesAre
    <3>3. CASE u \in Nodes(g)
      <4>1. s.output_notes[n] = u /\ u # Committed
        BY <1>3, <1>12, <3>2, <3>3, TxFacts DEF NotesAre
      <4>2. u \in insert_transaction_parents(s, t, auth)
        BY <3>1, <4>1 DEF insert_transaction_parents
      <4> QED BY <3>2, <4>2
    <3>4. CASE u \in Retained(s)
      BY <1>9, <3>2, <3>4 DEF CommittedNotes
    <3> QED BY <3>3, <3>4
  <2> QED BY <2>1, <2>2
<1>18. NotesFound'
  BY <1>1, <1>5, <1>6, <1>7, <1>17 DEF NotesFound
<1>19. ASSUME NEW a \in Account
       PROVE  AccountFits(store.accounts[a], Retained(s) \cup Ahead, (Nodes(g) \cup {t}) \ Ahead, a)
  <2>1. PICK A, Old, New : A = store.accounts[a] /\ Old = Retained(s) \cup Ahead /\ New = Nodes(g) \ Ahead
    OBVIOUS
  <2>2. A \in Nat /\ AccountFits(A, Old, New, a)
    BY <1>1, <1>6, <2>1 DEF StatesFit, Inv, ProcessTypes, StoreTypes
  <2>3. Old \cup New = Live(s, g) /\ Old \cup New \subseteq Tx /\ (Nodes(g) \cup {t}) \ Ahead = New \cup {t}
    BY <1>3, <1>5, <1>9, <2>1 DEF Live
  <2>4. CASE account_id(t) # a
    BY <2>1, <2>2, <2>3, <2>4 DEF AccountFits
  <2>5. CASE account_id(t) = a
    <3>1. CASE /\ initial_state(t) = auth.state
               /\ \A w \in Live(s, g) : account_id(w) # a
      <4>1. ~ \E i \in auth.read_at + 1 .. height : \E u \in store.chain[i] : account_id(u) = a
        BY <1>9, <1>11, <3>1
      <4>2. initial_state(t) = A
        BY <1>4, <2>1, <2>5, <3>1, <4>1 DEF InputsFit
      <4>3. AccountFits(A, Old, New \cup {t}, a)
        BY <2>2, <2>3, <2>5, <4>2, FitsAdd
      <4> QED BY <2>1, <2>3, <4>3
    <3>2. CASE \E v \in Live(s, g) :
                 /\ account_id(v) = a /\ initial_state(t) = final_state(v)
                 /\ \A w \in Live(s, g) : account_id(w) = a => w = v \/ final_state(w) <= initial_state(v)
      <4>1. \E v \in Old \cup New :
                 /\ account_id(v) = a /\ initial_state(t) = final_state(v)
                 /\ \A w \in Old \cup New : account_id(w) = a => w = v \/ final_state(w) <= initial_state(v)
        BY <2>3, <3>2
      <4>2. AccountFits(A, Old, New \cup {t}, a)
        BY <2>2, <2>3, <2>5, <4>1, FitsAdd
      <4> QED BY <2>1, <2>3, <4>2
    <3> QED BY <1>2, <1>3, <1>4, <2>5, <3>1, <3>2, InitialState
  <2> QED BY <2>4, <2>5
<1>20. StatesFit'
  BY <1>1, <1>4, <1>5, <1>7, <1>19 DEF StatesFit, Retained
<1> QED BY <1>16, <1>18, <1>20

LEMMA SettledApply ==
    ASSUME Inv, Inv', SelectedClosed, Settled, ~mempool.panicked,
           faults'.lost = 0, ~overlap_missed', Applying
    PROVE  (Unspent /\ NotesFound /\ StatesFit)'
<1>1. PICK s, g, C : s = mempool.state /\ g = mempool.transactions /\ C = builder.block
  OBVIOUS
<1>2. StateOK(s, g) /\ GraphOK(g)
  BY <1>1 DEF Inv, Consistent, Sound
<1>3. Nodes(g) \subseteq Tx
  BY <1>2, TrackedAreTxs
<1>4. C \subseteq Nodes(g) /\ \A c \in C : g.parents[c] \subseteq C
  BY <1>1 DEF SelectedClosed
<1>5. Valid(C) /\ UNCHANGED mempool /\ Ahead = {} /\ Ahead' = C /\ faults.lost = 0 /\ ~overlap_missed
  BY <1>1 DEF Applying, Ahead
<1>6. Unspent /\ NotesFound /\ StatesFit
  BY <1>5 DEF Settled
<1>7. /\ \A n : n \in SpentNullifiers' <=> n \in SpentNullifiers \/ \E t \in C : n \in nullifiers(t)
      /\ \A n : n \in CommittedNotes' <=> n \in CommittedNotes \/ \E t \in C : n \in output_note_ids(t)
  BY <1>1, CommittedGrow
<1>8. NotesAre(s.nullifiers, s.output_notes, Nodes(g), Retained(s))
  BY <1>2, StateFacts
<1>9. \A t \in Nodes(g) \ C, u \in C : nullifiers(t) \cap nullifiers(u) = {}
  BY <1>4, <1>8 DEF NotesAre
<1>10. Unspent'
  BY <1>1, <1>5, <1>6, <1>7, <1>9 DEF Unspent
<1>11. NotesFound'
  BY <1>5, <1>6, <1>7 DEF NotesFound
<1>12. ASSUME NEW a \in Account
       PROVE  AccountFits(store'.accounts[a], Retained(s) \cup C, Nodes(g) \ C, a)
  <2>1. PICK A : A = store.accounts[a]
    OBVIOUS
  <2>2. A \in Nat /\ AccountFits(A, Retained(s), Nodes(g), a)
    BY <1>1, <1>5, <1>6, <2>1 DEF StatesFit, Inv, ProcessTypes, StoreTypes
  <2>3. store'.accounts[a] = StateAfter(C, a)
    BY <1>1 DEF Applying
  <2>4. StoreTypes /\ C \subseteq Tx /\ IsFiniteSet(C)
    BY <1>1 DEF Inv, ProcessTypes, BuilderTypes
  <2>5. CASE \A t \in C : account_id(t) # a
    <3>1. StateAfter(C, a) = A
      BY <1>5, <2>1, <2>4, <2>5, StateAfterNone
    <3> QED BY <1>4, <2>2, <2>3, <2>5, <3>1 DEF AccountFits
  <2>6. CASE \E t \in C : account_id(t) = a
    <3>1. PICK z \in C : /\ account_id(z) = a /\ StateAfter(C, a) = final_state(z)
                         /\ \A t \in C : account_id(t) = a => final_state(t) <= final_state(z)
      BY <1>5, <2>4, <2>6, StateAfterLast
    <3>2. AccountFits(final_state(z), Retained(s) \cup C, Nodes(g) \ C, a)
      BY <1>2, <1>3, <1>4, <2>2, <3>1, FitsApply
    <3> QED BY <2>3, <3>1, <3>2
  <2> QED BY <2>5, <2>6
<1>13. StatesFit'
  BY <1>1, <1>5, <1>12 DEF StatesFit
<1> QED BY <1>10, <1>11, <1>13

(* What is dropped from the inflight transactions comes after what stays.   *)
LEMMA DroppedLast ==
    ASSUME NEW s, NEW g, StateOK(s, g), NEW R,
           \A c \in Nodes(g) : g.parents[c] \cap R # {} => c \in R,
           \A c \in Nodes(g) : g.parents[c] \subseteq Nodes(g),
           NEW t \in Nodes(g), t \in R, NEW u \in Nodes(g), u \notin R, account_id(t) = account_id(u)
    PROVE  final_state(u) <= initial_state(t)
<1>1. PICK rank : Ranks(rank, s, g)
  BY RanksExist
<1>2. PICK D : D = Nodes(g) \ R
  OBVIOUS
<1>3. D \subseteq Nodes(g) /\ u \in D /\ t \notin D /\ \A c \in D : g.parents[c] \subseteq D
  BY <1>2
<1>4. ~(rank[t] < rank[u])
  BY <1>1, <1>3, RankClosed
<1>5. t \in Live(s, g) /\ u \in Live(s, g) /\ t # u
  BY DEF Live
<1>6. rank[t] \in Nat /\ rank[u] \in Nat /\ rank[t] # rank[u]
  BY <1>1, <1>5 DEF Ranks
<1>7. rank[u] < rank[t]
  BY <1>4, <1>6
<1> QED BY <1>1, <1>5, <1>7 DEF Ranks

(* A block that is no longer retained comes before those that are.          *)
LEMMA PrunedFirst ==
    ASSUME NEW s, NEW g, StateOK(s, g), NEW C \in SUBSET Tx, C \subseteq Nodes(g),
           NEW n, n.committed_blocks = Kept(Append(s.committed_blocks, C)), NEW K, K = Retained(n)
    PROVE  /\ K \subseteq Retained(s) \cup C
           /\ \A t \in (Retained(s) \cup C) \ K, u \in K :
                account_id(t) = account_id(u) => final_state(t) <= initial_state(u)
<1>1. PICK B, L, q : B = s.committed_blocks /\ L = Len(B) /\ q = Append(B, C)
  OBVIOUS
<1>0. K = UNION ToSet(Kept(q))
  BY <1>1 DEF Retained
<1>2. B \in Seq(SUBSET Tx) /\ BlocksOK(B)
  BY <1>1, StateFacts
<1>3. /\ q \in Seq(SUBSET Tx) /\ L \in Nat /\ Len(q) = L + 1 /\ DOMAIN B = 1 .. L
      /\ \A i \in 1 .. L : q[i] = B[i]
      /\ q[L + 1] = C
  BY <1>1, <1>2, AppendProperties, LenProperties
<1>4. ToSet(B) = {B[i] : i \in 1 .. L} /\ ToSet(q) = {q[i] : i \in 1 .. L + 1}
  BY <1>1, <1>2, <1>3, LenProperties DEF ToSet
<1>5. \A t : t \in Retained(s) <=> \E i \in 1 .. L : t \in B[i]
  BY <1>1, <1>4 DEF Retained
<1>6. \A t : t \in Retained(s) \cup C <=> \E i \in 1 .. L + 1 : t \in q[i]
  <2>1. \A i \in 1 .. L + 1 : i \in 1 .. L \/ i = L + 1
    BY <1>3
  <2>2. L + 1 \in 1 .. L + 1 /\ \A i \in 1 .. L : i \in 1 .. L + 1
    BY <1>3
  <2> QED BY <1>3, <1>5, <2>1, <2>2
<1>7. CASE Kept(q) = q
  <2>1. K = UNION {q[i] : i \in 1 .. L + 1}
    BY <1>0, <1>4, <1>7
  <2> QED BY <1>6, <2>1
<1>8. CASE Kept(q) = Tail(q)
  <2>1. PICK r : r = Tail(q)
    OBVIOUS
  <2>2. q # <<>>
    BY <1>3
  <2>3. r \in Seq(SUBSET Tx) /\ Len(r) = L /\ \A i \in 1 .. L : r[i] = q[i + 1]
    <3>1. r \in Seq(SUBSET Tx) /\ Len(r) = Len(q) - 1 /\ \A i \in 1 .. Len(r) : r[i] = q[i + 1]
      BY <1>3, <2>1, <2>2, HeadTailProperties
    <3> QED BY <1>3, <3>1
  <2>4. ToSet(r) = {r[i] : i \in 1 .. L}
    BY <2>3, LenProperties DEF ToSet
  <2>5. \A t : t \in K <=> \E i \in 1 .. L : t \in q[i + 1]
    <3>1. K = UNION {r[i] : i \in 1 .. L}
      BY <1>0, <1>8, <2>1, <2>4
    <3>2. \A t : t \in K <=> \E i \in 1 .. L : t \in r[i]
      BY <3>1
    <3> QED BY <2>3, <3>2
  <2>6. \A t : t \in K <=> \E j \in 2 .. L + 1 : t \in q[j]
    <3>1. \A i \in 1 .. L : i + 1 \in 2 .. L + 1
      BY <1>3
    <3>2. \A j \in 2 .. L + 1 : j - 1 \in 1 .. L /\ (j - 1) + 1 = j
      BY <1>3
    <3> QED BY <2>5, <3>1, <3>2
  <2>7. K \subseteq Retained(s) \cup C
    <3>1. \A j \in 2 .. L + 1 : j \in 1 .. L + 1
      BY <1>3
    <3> QED BY <1>6, <2>6, <3>1
  <2>8. ASSUME NEW t \in (Retained(s) \cup C) \ K, NEW u \in K, account_id(t) = account_id(u)
        PROVE  final_state(t) <= initial_state(u)
    <3>1. PICK j \in 2 .. L + 1 : u \in q[j]
      BY <2>6
    <3>2. t \in q[1]
      <4>1. PICK i \in 1 .. L + 1 : t \in q[i]
        BY <1>6
      <4>2. i = 1 \/ i \in 2 .. L + 1
        BY <1>3, <4>1
      <4> QED BY <2>6, <4>1, <4>2
    <3>3. 1 \in 1 .. L /\ (j \in 1 .. L \/ j = L + 1) /\ ~(j <= 1)
      BY <1>3, <3>1
    <3>4. t \in B[1] /\ t \in Retained(s)
      BY <1>3, <1>5, <3>2, <3>3
    <3>5. PICK rank : Ranks(rank, s, g)
      BY RanksExist
    <3>6. rank[t] < rank[u] /\ t \in Live(s, g) /\ u \in Live(s, g)
      <4>1. CASE j = L + 1
        <5>1. u \in Nodes(g)
          BY <1>3, <3>1, <4>1
        <5>2. rank[t] < rank[u]
          BY <2>8, <3>4, <3>5, <5>1, RankOld
        <5> QED BY <3>4, <5>1, <5>2 DEF Live
      <4>2. CASE j \in 1 .. L
        <5>1. u \in B[j] /\ u \in Retained(s)
          BY <1>3, <1>5, <3>1, <4>2
        <5>2. t # u
          <6>1. 1 # j /\ 1 \in DOMAIN B /\ j \in DOMAIN B
            BY <1>3, <3>3, <4>2
          <6>2. B[1] \cap B[j] = {}
            BY <1>2, <6>1 DEF BlocksOK
          <6> QED BY <3>4, <5>1, <6>2
        <5>3. t \in Live(s, g) /\ u \in Live(s, g)
          BY <3>4, <5>1 DEF Live
        <5>4. rank[t] \in Nat /\ rank[u] \in Nat /\ rank[t] # rank[u]
          BY <2>8, <3>5, <5>2, <5>3 DEF Ranks
        <5>5. ~(rank[u] < rank[t])
          <6>1. rank[u] < rank[t] => j <= 1
            BY <1>1, <1>3, <2>8, <3>3, <3>4, <3>5, <4>2, <5>1, <5>3 DEF Ranks
          <6> QED BY <3>3, <6>1
        <5> QED BY <5>3, <5>4, <5>5
      <4> QED BY <3>3, <4>1, <4>2
    <3> QED BY <2>8, <3>5, <3>6 DEF Ranks
  <2> QED BY <2>7, <2>8
<1> QED BY <1>1, <1>7, <1>8 DEF Kept

LEMMA SettledCommit ==
    ASSUME Inv, SelectedClosed, Reported, Settled, ~mempool.panicked,
           faults'.lost = 0, ~overlap_missed', NEW R, Committing(R)
    PROVE  (Unspent /\ NotesFound /\ StatesFit)'
<1>1. PICK s, g, C, K : s = mempool.state /\ g = mempool.transactions /\ C = builder.block
                        /\ K = Retained(mempool'.state)
  OBVIOUS
<1>2. StateOK(s, g) /\ GraphOK(g) /\ C \in SUBSET Tx
  BY <1>1 DEF Inv, Consistent, Sound, ProcessTypes, BuilderTypes
<1>3. Nodes(g) \subseteq Tx /\ Retained(s) \subseteq Tx
  BY <1>2, TrackedAreTxs, StateFacts
<1>4. UNCHANGED store /\ faults.lost = 0 /\ ~overlap_missed /\ Ahead = C /\ Ahead' = {}
  BY <1>1 DEF Committing, Ending, Ahead
<1>5. Unspent /\ NotesFound /\ StatesFit
  BY <1>4 DEF Settled
<1>6. UNCHANGED <<SpentNullifiers, CommittedNotes, CommittedTxs>>
  BY <1>4 DEF SpentNullifiers, CommittedNotes, CommittedTxs
<1>7. /\ C \subseteq Nodes(g) /\ \A c \in C : g.parents[c] \subseteq C
      /\ R \subseteq Nodes(g) \ C
      /\ \A c \in Nodes(g) \ C : g.parents[c] \cap R # {} => c \in R
      /\ Nodes(mempool'.transactions) = Nodes(g) \ (C \cup R)
      /\ \A c \in Nodes(mempool'.transactions) : mempool'.transactions.parents[c] = g.parents[c] \ C
      /\ Retained(mempool'.state) = K
  BY <1>1 DEF Committing, Retires, Retained
<1>8. C \subseteq CommittedTxs
  BY <1>4, Overlap
<1>9. \A n : (\E u \in C : n \in output_note_ids(u)) => n \in CommittedNotes
  BY <1>8 DEF CommittedNotes
<1>10. Unspent'
  BY <1>1, <1>4, <1>5, <1>6, <1>7 DEF Unspent
<1>11. NotesFound'
  <2>1. ASSUME NEW t \in Nodes(g) \ (C \cup R), NEW n \in proven_unauthenticated(t)
        PROVE  n \in CommittedNotes \/ \E u \in g.parents[t] \ C : n \in output_note_ids(u)
    BY <1>1, <1>5, <1>9, <2>1 DEF NotesFound
  <2> QED BY <1>6, <1>7, <2>1 DEF NotesFound
<1>12. ASSUME NEW a \in Account
       PROVE  AccountFits(store.accounts[a], K, Nodes(g) \ (C \cup R), a)
  <2>1. PICK A, Old, New, N : /\ A = store.accounts[a] /\ Old = Retained(s) \cup C /\ New = Nodes(g) \ C
                              /\ N = Nodes(g) \ (C \cup R)
    OBVIOUS
  <2>2. A \in Nat /\ AccountFits(A, Old, New, a) /\ Old \cup New \subseteq Tx /\ N \subseteq New
    BY <1>1, <1>2, <1>3, <1>4, <1>5, <2>1 DEF StatesFit, Inv, ProcessTypes, StoreTypes
  <2>3. /\ K \subseteq Old
        /\ \A t \in Old \ K, u \in K : account_id(t) = account_id(u) => final_state(t) <= initial_state(u)
    <3>1. /\ K \subseteq Retained(s) \cup C
          /\ \A t \in (Retained(s) \cup C) \ K, u \in K :
               account_id(t) = account_id(u) => final_state(t) <= initial_state(u)
      <4>1. PICK n : n = mempool'.state
        OBVIOUS
      <4>2. n.committed_blocks = Kept(Append(s.committed_blocks, C)) /\ K = Retained(n)
        BY <1>1, <4>1 DEF Committing, Retires
      <4> QED BY <1>2, <1>7, <4>2, PrunedFirst
    <3> QED BY <2>1, <3>1
  <2>4. ASSUME NEW t \in New \ N, NEW u \in N, account_id(t) = account_id(u)
        PROVE  final_state(u) <= initial_state(t)
    <3>1. t \in Nodes(g) /\ t \in R /\ u \in Nodes(g) /\ u \notin R
      BY <2>1
    <3>2. \A c \in Nodes(g) : g.parents[c] \cap R # {} => c \in R
      BY <1>7
    <3>3. \A c \in Nodes(g) : g.parents[c] \subseteq Nodes(g)
      BY <1>2 DEF GraphOK, WellFormed, GraphType, InOrder
    <3> QED BY <1>2, <2>4, <3>1, <3>2, <3>3, DroppedLast
  <2>5. AccountFits(A, K, N, a)
    BY <2>2, <2>3, <2>4, FitsRetire
  <2> QED BY <2>1, <2>5
<1>13. StatesFit'
  <2>1. K \cup {} = K /\ (Nodes(g) \ (C \cup R)) \ {} = Nodes(g) \ (C \cup R)
    OBVIOUS
  <2>2. ASSUME NEW a \in Account
        PROVE  AccountFits(store'.accounts[a], Retained(mempool'.state) \cup Ahead',
                           Nodes(mempool'.transactions) \ Ahead', a)
    <3>1. AccountFits(store.accounts[a], K, Nodes(g) \ (C \cup R), a)
      BY <1>12
    <3> QED BY <1>4, <1>7, <2>1, <3>1
  <2> QED BY <2>2 DEF StatesFit
<1> QED BY <1>10, <1>11, <1>13

LEMMA SettledRollback ==
    ASSUME Inv, Settled, ~mempool.panicked,
           faults'.lost = 0, ~overlap_missed', NEW R, RollingBack(R)
    PROVE  (Unspent /\ NotesFound /\ StatesFit)'
<1>1. PICK s, g : s = mempool.state /\ g = mempool.transactions
  OBVIOUS
<1>2. StateOK(s, g) /\ GraphOK(g)
  BY <1>1 DEF Inv, Consistent, Sound
<1>3. Nodes(g) \subseteq Tx /\ Retained(s) \subseteq Tx
  BY <1>2, TrackedAreTxs, StateFacts
<1>4. UNCHANGED store /\ faults.lost = 0 /\ ~overlap_missed /\ Ahead = {} /\ Ahead' = {}
  BY DEF RollingBack, Ending, Ahead
<1>5. Unspent /\ NotesFound /\ StatesFit
  BY <1>4 DEF Settled
<1>6. UNCHANGED <<SpentNullifiers, CommittedNotes, CommittedTxs>>
  BY <1>4 DEF SpentNullifiers, CommittedNotes, CommittedTxs
<1>7. /\ \A c \in Nodes(g) : g.parents[c] \cap R # {} => c \in R
      /\ Nodes(mempool'.transactions) = Nodes(g) \ R
      /\ \A c \in Nodes(mempool'.transactions) : mempool'.transactions.parents[c] = g.parents[c]
      /\ Retained(mempool'.state) = Retained(s)
  BY <1>1 DEF RollingBack, Drops, Retained
<1>8. Unspent'
  BY <1>1, <1>4, <1>5, <1>6, <1>7 DEF Unspent
<1>9. NotesFound'
  BY <1>1, <1>5, <1>6, <1>7 DEF NotesFound
<1>10. ASSUME NEW a \in Account
       PROVE  AccountFits(store.accounts[a], Retained(s), Nodes(g) \ R, a)
  <2>1. PICK A, Old, New, N : A = store.accounts[a] /\ Old = Retained(s) /\ New = Nodes(g) /\ N = Nodes(g) \ R
    OBVIOUS
  <2>2. A \in Nat /\ AccountFits(A, Old, New, a) /\ Old \cup New \subseteq Tx /\ N \subseteq New
    <3>1. Retained(s) \cup {} = Retained(s) /\ Nodes(g) \ {} = Nodes(g)
      OBVIOUS
    <3> QED BY <1>1, <1>3, <1>4, <1>5, <2>1, <3>1 DEF StatesFit, Inv, ProcessTypes, StoreTypes
  <2>3. ASSUME NEW t \in New \ N, NEW u \in N, account_id(t) = account_id(u)
        PROVE  final_state(u) <= initial_state(t)
    <3>1. t \in Nodes(g) /\ t \in R /\ u \in Nodes(g) /\ u \notin R
      BY <2>1
    <3>2. \A c \in Nodes(g) : g.parents[c] \subseteq Nodes(g)
      BY <1>2 DEF GraphOK, WellFormed, GraphType, InOrder
    <3> QED BY <1>2, <1>7, <2>3, <3>1, <3>2, DroppedLast
  <2>4. AccountFits(A, Old, N, a)
    BY <2>2, <2>3, FitsRetire
  <2> QED BY <2>1, <2>4
<1>11. StatesFit'
  <2>1. Retained(s) \cup {} = Retained(s) /\ (Nodes(g) \ R) \ {} = Nodes(g) \ R
    OBVIOUS
  <2> QED BY <1>4, <1>7, <1>10, <2>1 DEF StatesFit
<1> QED BY <1>8, <1>9, <1>11

(* A fresh mempool knows of no transaction.                                 *)
LEMMA SettledFresh ==
    ASSUME Fresh
    PROVE  Unspent /\ NotesFound /\ StatesFit
<1>1. PICK m, k : m = mempool /\ k = height
  OBVIOUS
<1>2. k \in Nat /\ m = Mempool_new(k) /\ Ahead = {}
  BY <1>1 DEF Fresh, Ahead, IdleBuilder
<1>3. Nodes(m.transactions) = {}
  BY <1>2, NewOK
<1>4. Retained(m.state) = {}
  <2>1. m.state.committed_blocks = <<>>
    BY <1>2 DEF Mempool_new, InflightState_new
  <2> QED BY <2>1 DEF Retained, ToSet
<1> QED BY <1>1, <1>2, <1>3, <1>4 DEF Unspent, NotesFound, StatesFit, AccountFits

LEMMA SettledStep ==
    ASSUME Inv, Inv', SelectedClosed, Reported, RequestsFit, Settled, Kinds
    PROVE  Settled'
<1> SUFFICES ASSUME ~mempool'.panicked, faults'.lost = 0, ~overlap_missed'
             PROVE  (Unspent /\ NotesFound /\ StatesFit)'
  BY DEF Settled
<1>1. CASE Quiet
  <2>1. Unspent /\ NotesFound /\ StatesFit /\ Ahead' = Ahead
    BY <1>1 DEF Quiet, Settled, Ahead
  <2> QED BY <1>1, <2>1, SettledFrame DEF Quiet
<1>2. ASSUME ~mempool.panicked, NEW t \in Tx, Adding(t)
      PROVE  (Unspent /\ NotesFound /\ StatesFit)'
  <2>1. faults.lost = 0
    BY <1>2 DEF Adding
  <2> QED BY <1>2, <2>1, SettledAdd
<1>3. ASSUME ~mempool.panicked, NEW S, Selecting(S)
      PROVE  (Unspent /\ NotesFound /\ StatesFit)'
  <2>1. Unspent /\ NotesFound /\ StatesFit /\ Ahead' = Ahead
    BY <1>3 DEF Selecting, Settled, Ahead
  <2> QED BY <1>3, <2>1, SettledFrame DEF Selecting, SameContents
<1>4. ASSUME ~mempool.panicked, Applying
      PROVE  (Unspent /\ NotesFound /\ StatesFit)'
  BY <1>4, SettledApply
<1>5. ASSUME ~mempool.panicked, Failing
      PROVE  (Unspent /\ NotesFound /\ StatesFit)'
  <2>1. Unspent /\ NotesFound /\ StatesFit /\ Ahead' = Ahead
    BY <1>5 DEF Failing, Settled, Ahead
  <2> QED BY <1>5, <2>1, SettledFrame DEF Failing
<1>6. ASSUME ~mempool.panicked, NEW R, Committing(R) \/ RollingBack(R)
      PROVE  (Unspent /\ NotesFound /\ StatesFit)'
  BY <1>6, SettledCommit, SettledRollback
<1>7. CASE Restarting
  <2>1. (Fresh => Unspent /\ NotesFound /\ StatesFit)'
    BY SettledFresh, PTL
  <2> QED BY <1>7, <2>1 DEF Restarting
<1> QED BY <1>1, <1>2, <1>3, <1>4, <1>5, <1>6, <1>7 DEF Kinds, Panicking

-----------------------------------------------------------------------------
(* THE SELECTED BLOCK IS VALID                                              *)

(* The state the store has when the order is about to apply position i.     *)
LEMMA OrderApplies ==
    ASSUME NEW o, NEW N \in Nat, DOMAIN o = 1 .. N,
           \A i \in 1 .. N :
              \/ /\ \A j \in 1 .. i - 1 : account_id(o[j]) # account_id(o[i])
                 /\ initial_state(o[i]) = store.accounts[account_id(o[i])]
              \/ \E p \in 1 .. i - 1 :
                   /\ account_id(o[p]) = account_id(o[i])
                   /\ \A j \in 1 .. i - 1 : account_id(o[j]) = account_id(o[i]) => j <= p
                   /\ initial_state(o[i]) = final_state(o[p])
    PROVE  Applicable(o)
<1> SUFFICES ASSUME NEW i \in 1 .. N
             PROVE  LET E == {j \in 1 .. i - 1 : account_id(o[j]) = account_id(o[i])}
                    IN  initial_state(o[i]) =
                          IF E = {} THEN store.accounts[account_id(o[i])]
                          ELSE final_state(o[CHOOSE j \in E : \A k \in E : k <= j])
  BY DEF Applicable
<1>1. PICK E : E = {j \in 1 .. i - 1 : account_id(o[j]) = account_id(o[i])}
  OBVIOUS
<1>2. CASE /\ \A j \in 1 .. i - 1 : account_id(o[j]) # account_id(o[i])
           /\ initial_state(o[i]) = store.accounts[account_id(o[i])]
  <2>1. E = {}
    BY <1>1, <1>2
  <2> QED BY <1>1, <1>2, <2>1
<1>3. CASE \E p \in 1 .. i - 1 :
             /\ account_id(o[p]) = account_id(o[i])
             /\ \A j \in 1 .. i - 1 : account_id(o[j]) = account_id(o[i]) => j <= p
             /\ initial_state(o[i]) = final_state(o[p])
  <2>1. PICK p \in 1 .. i - 1 :
             /\ account_id(o[p]) = account_id(o[i])
             /\ \A j \in 1 .. i - 1 : account_id(o[j]) = account_id(o[i]) => j <= p
             /\ initial_state(o[i]) = final_state(o[p])
    BY <1>3
  <2>2. p \in E /\ \A k \in E : k <= p
    BY <1>1, <2>1
  <2>3. E \subseteq 1 .. N
    BY <1>1
  <2>4. PICK q : q = CHOOSE j \in E : \A k \in E : k <= j
    OBVIOUS
  <2>5. q \in E /\ p <= q
    BY <2>2, <2>3, <2>4, LastPosition
  <2>6. q <= p
    BY <2>2, <2>5
  <2>7. q = p
    BY <2>1, <2>3, <2>5, <2>6
  <2>8. E # {}
    BY <2>2
  <2> QED BY <1>1, <2>1, <2>4, <2>7, <2>8
<1> QED BY <1>2, <1>3

(* Inflight transactions that are closed under dependencies can be applied  *)
(* in the order of their ranks.                                             *)
LEMMA OrdersExist ==
    ASSUME NEW s, NEW g, StateOK(s, g), Nodes(g) \subseteq Tx,
           \A a \in Account : store.accounts[a] \in Nat /\ AccountFits(store.accounts[a], Retained(s), Nodes(g), a),
           NEW C, IsFiniteSet(C), C \subseteq Nodes(g), \A c \in C : g.parents[c] \subseteq C
    PROVE  Orders(C) # {}
<1>1. PICK rank : Ranks(rank, s, g)
  BY RanksExist
<1>2. PICK N : N = Cardinality(C)
  OBVIOUS
<1>3. \A c \in C : c \in Live(s, g) /\ rank[c] \in Nat
  BY <1>1 DEF Ranks, Live
<1>4. N \in Nat
  BY <1>2, FS_CardinalityType
<1>5. PICK o : Sorts(o, C, rank, N)
  BY <1>2, <1>3, Sorting DEF Sortable
<1>6. /\ o \in [1 .. N -> C] /\ ToSet(o) = C
      /\ \A i, j \in 1 .. N : i < j => o[i] # o[j] /\ rank[o[i]] <= rank[o[j]]
  BY <1>5 DEF Sorts
<1>7. \A c \in C : \E i \in 1 .. N : o[i] = c
  BY <1>6 DEF ToSet
<1>8. \A u \in Nodes(g) : /\ account_id(u) \in Account
                          /\ initial_state(u) \in Nat /\ final_state(u) \in Nat /\ initial_state(u) <= final_state(u)
  BY TxFacts
<1>9. ASSUME NEW i \in 1 .. N, NEW w \in Nodes(g), account_id(w) = account_id(o[i]), rank[w] < rank[o[i]]
      PROVE  \E j \in 1 .. i - 1 : o[j] = w
  <2>1. o[i] \in C
    BY <1>6
  <2>2. w \in C
    BY <1>1, <1>9, <2>1, RankClosed
  <2>3. PICK j \in 1 .. N : o[j] = w
    BY <1>7, <2>2
  <2>4. rank[w] \in Nat /\ rank[o[i]] \in Nat
    BY <1>3, <2>1, <2>2
  <2>5. ~(i < j) /\ j # i
    <3>1. i < j => rank[o[i]] <= rank[w]
      BY <1>6, <2>3
    <3> QED BY <1>9, <2>3, <2>4, <3>1
  <2>6. j \in 1 .. i - 1
    BY <1>4, <2>3, <2>5
  <2> QED BY <2>3, <2>6
<1>10. ASSUME NEW i \in 1 .. N, \A j \in 1 .. i - 1 : account_id(o[j]) # account_id(o[i])
       PROVE  initial_state(o[i]) = store.accounts[account_id(o[i])]
  <2>1. PICK u, a, A : u = o[i] /\ a = account_id(u) /\ A = store.accounts[a]
    OBVIOUS
  <2>2. u \in C /\ u \in Nodes(g) /\ a \in Account /\ A \in Nat
    BY <1>6, <1>8, <2>1
  <2>3. AccountFits(A, Retained(s), Nodes(g), a)
    BY <2>1, <2>2
  <2>4. A <= initial_state(u) /\ \E w \in Nodes(g) : account_id(w) = a /\ initial_state(w) = A
    BY <2>1, <2>2, <2>3 DEF AccountFits
  <2>5. PICK w \in Nodes(g) : account_id(w) = a /\ initial_state(w) = A
    BY <2>4
  <2>6. ~(rank[w] < rank[u])
    BY <1>9, <1>10, <2>1, <2>5
  <2>7. w \in Live(s, g) /\ u \in Live(s, g)
    BY <2>2 DEF Live
  <2>8. rank[w] \in Nat /\ rank[u] \in Nat
    BY <1>1, <2>7 DEF Ranks
  <2>9. CASE rank[w] = rank[u]
    <3>1. w = u
      BY <1>1, <2>1, <2>5, <2>7, <2>9 DEF Ranks
    <3> QED BY <2>1, <2>5, <3>1
  <2>10. CASE rank[u] < rank[w]
    <3>1. final_state(u) <= initial_state(w)
      BY <1>1, <2>1, <2>5, <2>7, <2>10 DEF Ranks
    <3>2. initial_state(u) = A
      BY <1>8, <2>2, <2>4, <2>5, <3>1
    <3> QED BY <2>1, <3>2
  <2> QED BY <2>6, <2>8, <2>9, <2>10
<1>11. ASSUME NEW i \in 1 .. N, NEW q \in 1 .. i - 1, account_id(o[q]) = account_id(o[i])
       PROVE  \E p \in 1 .. i - 1 :
                /\ account_id(o[p]) = account_id(o[i])
                /\ \A j \in 1 .. i - 1 : account_id(o[j]) = account_id(o[i]) => j <= p
                /\ initial_state(o[i]) = final_state(o[p])
  <2>1. PICK u, a : u = o[i] /\ a = account_id(u)
    OBVIOUS
  <2>2. \A j \in 1 .. i - 1 : j \in 1 .. N /\ j < i
    BY <1>4, <1>11
  <2>3. u \in C /\ o[q] \in C /\ o[q] # u /\ rank[o[q]] <= rank[u]
    BY <1>6, <1>11, <2>1, <2>2
  <2>4. u \in Live(s, g) /\ o[q] \in Live(s, g) /\ rank[u] \in Nat /\ rank[o[q]] \in Nat
    BY <1>3, <2>3
  <2>5. rank[o[q]] # rank[u]
    BY <1>1, <1>11, <2>1, <2>3, <2>4 DEF Ranks
  <2>6. rank[o[q]] < rank[u]
    BY <2>3, <2>4, <2>5
  <2>7. PICK w \in Live(s, g) : account_id(w) = a /\ rank[w] + 1 = rank[u]
    BY <1>1, <1>11, <2>1, <2>4, <2>6 DEF Ranks
  <2>8. rank[w] \in Nat /\ initial_state(u) = final_state(w)
    BY <1>1, <2>1, <2>4, <2>7 DEF Ranks
  <2>9. rank[o[q]] = rank[w] \/ rank[o[q]] < rank[w]
    BY <2>4, <2>6, <2>7, <2>8
  <2>10. o[q] \in Nodes(g)
    BY <2>3
  <2>11. w \in Nodes(g)
    BY <1>1, <1>11, <2>1, <2>4, <2>7, <2>9, <2>10 DEF Ranks
  <2>12. rank[w] < rank[u]
    BY <2>4, <2>7, <2>8
  <2>13. PICK p \in 1 .. i - 1 : o[p] = w
    BY <1>9, <2>1, <2>7, <2>11, <2>12
  <2>14. ASSUME NEW j \in 1 .. i - 1, account_id(o[j]) = a PROVE j <= p
    <3> SUFFICES ASSUME p < j PROVE FALSE
      BY <1>4, <2>13, <2>14
    <3>1. j \in 1 .. N /\ p \in 1 .. N /\ j < i
      BY <2>2, <2>13, <2>14
    <3>2. /\ rank[w] <= rank[o[j]] /\ w # o[j]
          /\ rank[o[j]] <= rank[u] /\ o[j] # u
      BY <1>6, <2>1, <2>13, <3>1
    <3>3. o[j] \in Live(s, g) /\ rank[o[j]] \in Nat
      BY <1>3, <1>6, <3>1
    <3>4. rank[w] # rank[o[j]] /\ rank[o[j]] # rank[u]
      BY <1>1, <2>1, <2>4, <2>7, <2>14, <3>2, <3>3 DEF Ranks
    <3> QED BY <2>4, <2>7, <2>8, <3>2, <3>3, <3>4
  <2> QED BY <2>1, <2>7, <2>8, <2>13, <2>14
<1>12. Applicable(o)
  <2>1. ASSUME NEW i \in 1 .. N
        PROVE  \/ /\ \A j \in 1 .. i - 1 : account_id(o[j]) # account_id(o[i])
                  /\ initial_state(o[i]) = store.accounts[account_id(o[i])]
               \/ \E p \in 1 .. i - 1 :
                    /\ account_id(o[p]) = account_id(o[i])
                    /\ \A j \in 1 .. i - 1 : account_id(o[j]) = account_id(o[i]) => j <= p
                    /\ initial_state(o[i]) = final_state(o[p])
    BY <1>10, <1>11
  <2>2. DOMAIN o = 1 .. N
    BY <1>6
  <2> QED BY <1>4, <2>1, <2>2, OrderApplies
<1>13. o \in Orders(C)
  BY <1>2, <1>6, <1>12 DEF Orders
<1> QED BY <1>13

LEMMA SelectionValid ==
    ASSUME Inv, SelectedClosed, Reported, Settled, ~mempool.panicked,
           faults.lost = 0, ~overlap_missed, builder.step = "idle",
           mempool.block_in_progress = {}, NEW S \in BatchSelections(mempool.batches.inner)
    PROVE  Valid(TxsOf(S))
<1>1. PICK s, g, C : s = mempool.state /\ g = mempool.transactions /\ C = TxsOf(S)
  OBVIOUS
<1>2. StateOK(s, g) /\ GraphOK(g)
  BY <1>1 DEF Inv, Consistent, Sound
<1>3. Nodes(g) \subseteq Tx /\ IsFiniteSet(Nodes(g))
  BY <1>2, TrackedAreTxs DEF GraphOK
<1>4. C \subseteq Nodes(g) /\ \A t \in C : g.parents[t] \subseteq C
  <2>1. mempool.batches.inner.processed = {}
    BY DEF SelectedClosed
  <2> QED BY <1>1, <2>1, SelectionClosed DEF Inv
<1>5. IsFiniteSet(C)
  BY <1>3, <1>4, FS_Subset
<1>6. Unspent /\ NotesFound /\ StatesFit /\ Ahead = {}
  BY DEF Settled, Ahead
<1>7. \A t \in C : expires_at(t) > height
  <2>1. height \in Nat
    BY HeightFacts DEF Inv, ProcessTypes
  <2>2. mempool.chain_tip = height
    BY <2>1 DEF Reported, TipsMatch
  <2> QED BY <1>1, <1>4, <2>2 DEF Inv, Consistent
<1>8. \A t, u \in C : t # u => /\ nullifiers(t) \cap nullifiers(u) = {}
                              /\ output_note_ids(t) \cap output_note_ids(u) = {}
  <2>1. NotesAre(s.nullifiers, s.output_notes, Nodes(g), Retained(s))
    BY <1>2, StateFacts
  <2> QED BY <1>4, <2>1 DEF NotesAre
<1>9. \A t \in C : nullifiers(t) \cap SpentNullifiers = {}
  BY <1>1, <1>4, <1>6 DEF Unspent
<1>10. \A t \in C : proven_unauthenticated(t) \subseteq CommittedNotes \cup UNION {output_note_ids(u) : u \in C}
  <2>1. ASSUME NEW t \in C, NEW n \in proven_unauthenticated(t)
        PROVE  n \in CommittedNotes \/ \E u \in C : n \in output_note_ids(u)
    BY <1>1, <1>4, <1>6, <2>1 DEF NotesFound
  <2> QED BY <2>1
<1>11. Orders(C) # {}
  <2>1. Retained(s) \cup {} = Retained(s) /\ Nodes(g) \ {} = Nodes(g)
    OBVIOUS
  <2>2. \A a \in Account : store.accounts[a] \in Nat /\ AccountFits(store.accounts[a], Retained(s), Nodes(g), a)
    BY <1>1, <1>6, <2>1 DEF StatesFit, Inv, ProcessTypes, StoreTypes
  <2> QED BY <1>2, <1>3, <1>4, <1>5, <2>2, OrdersExist
<1>12. Valid(C)
  BY <1>7, <1>8, <1>9, <1>10, <1>11 DEF Valid
<1> QED BY <1>1, <1>12

LEMMA AcceptedStep ==
    ASSUME Inv, Inv', SelectedClosed, Reported, Settled, BlockAcceptedIfOverlapping, Kinds
    PROVE  BlockAcceptedIfOverlapping'
<1> SUFFICES ASSUME faults'.lost = 0, ~overlap_missed', builder'.step = "selected"
             PROVE  Valid(builder.block)'
  BY DEF BlockAcceptedIfOverlapping, BlockAccepted
<1>1. ASSUME NEW C, UNCHANGED store, Valid(C)
      PROVE  Valid(C)'
  <2>1. UNCHANGED <<height, SpentNullifiers, CommittedNotes>>
    BY <1>1 DEF height, SpentNullifiers, CommittedNotes, CommittedTxs
  <2>2. Orders(C)' = Orders(C)
    BY <1>1 DEF Orders, Applicable
  <2> QED BY <1>1, <2>1, <2>2 DEF Valid
<1>2. ASSUME UNCHANGED <<builder, store>>, faults'.lost = faults.lost, ~overlap_missed
      PROVE  Valid(builder.block)'
  <2>1. PICK C : C = builder.block
    OBVIOUS
  <2>2. Valid(C) /\ builder'.block = C
    BY <1>2, <2>1 DEF BlockAcceptedIfOverlapping, BlockAccepted
  <2>3. Valid(C)'
    BY <1>1, <1>2, <2>2
  <2> QED BY <2>2, <2>3
<1>3. CASE Quiet
  BY <1>2, <1>3 DEF Quiet
<1>4. ASSUME NEW t \in Tx, Adding(t)
      PROVE  Valid(builder.block)'
  BY <1>2, <1>4 DEF Adding
<1>5. ASSUME ~mempool.panicked, NEW S \in BatchSelections(mempool.batches.inner), Selecting(S)
      PROVE  Valid(builder.block)'
  <2>1. PICK C : C = TxsOf(S)
    OBVIOUS
  <2>2. /\ builder.step = "idle" /\ builder'.block = C /\ mempool.block_in_progress = {}
        /\ UNCHANGED store /\ faults.lost = 0 /\ ~overlap_missed
    BY <1>5, <2>1 DEF Selecting
  <2>3. Valid(C)
    BY <1>5, <2>1, <2>2, SelectionValid
  <2>4. Valid(C)'
    BY <1>1, <2>2, <2>3
  <2> QED BY <2>2, <2>4
<1>6. CASE Restarting
  BY <1>6 DEF Restarting, Fresh, IdleBuilder
<1> QED BY <1>3, <1>4, <1>5, <1>6 DEF Kinds, Applying, Failing, Committing, RollingBack, Panicking, Ending

-----------------------------------------------------------------------------
(* THE SUBSCRIBER                                                           *)

Views == [step : {"none", "loaded", "attached"}, tip : Nat, committed : SUBSET Tx, inflight : SUBSET Tx]

(* w is the view v after the event e.                                       *)
Sees(v, e, w) ==
    /\ w \in Views
    /\ e.type = "committed" => w.tip = e.block /\ w.committed = v.committed \cup e.txs
    /\ e.type # "committed" => w.tip = v.tip /\ w.committed = v.committed
    /\ e.type = "added" => w.inflight = v.inflight \cup e.txs
    /\ e.type # "added" => w.inflight = v.inflight \ e.txs

LEMMA SeenOK ==
    ASSUME NEW v \in Views, NEW e \in Event
    PROVE  Sees(v, e, Seen(v, e))
BY DEF Sees, Seen, Views, Event

(* k[i] is the view after i events.                                         *)
Follow(k, v, ch) ==
    /\ k[0] = v
    /\ \A i \in 1 .. Len(ch) : k[i] = Seen(k[i - 1], ch[i])

LEMMA SeenRuns ==
    ASSUME NEW v, NEW ch \in Seq(Event)
    PROVE  \E k : Follow(k, v, ch) /\ SeenAll(v, ch) = k[Len(ch)]
<1> DEFINE N == Len(ch)
<1> DEFINE Runs(k, M) == k = [n \in 0 .. M |-> IF n = 0 THEN v ELSE Seen(k[n - 1], ch[n])]
<1> DEFINE Defined(M) == \E k : Runs(k, M)
<1> DEFINE Bad == {M \in 0 .. N : ~Defined(M)}
<1>0. N \in Nat
  BY LenProperties
<1>1. Defined(N)
  <2> SUFFICES ASSUME ~Defined(N)
               PROVE  FALSE
    OBVIOUS
  <2> HIDE DEF Defined
  <2>0. N \in Bad /\ Bad \subseteq Nat
    BY <1>0
  <2>1. PICK M \in Bad : \A y \in Bad : M <= y
    BY <2>0, LeastNatural
  <2>2. M # 0
    <3>1. Runs([n \in 0 .. 0 |-> v], 0)
      OBVIOUS
    <3> HIDE DEF Runs
    <3> QED BY <2>1, <3>1 DEF Defined
  <2>3. Defined(M - 1)
    <3>1. M - 1 \in 0 .. N /\ ~(M <= M - 1)
      BY <1>0, <2>1, <2>2
    <3> QED BY <2>1, <3>1
  <2>4. PICK k : Runs(k, M - 1)
    BY <2>3 DEF Defined
  <2> DEFINE g == [n \in 0 .. M |-> IF n = M THEN Seen(k[M - 1], ch[M]) ELSE k[n]]
  <2>5. M \in Nat /\ M - 1 \in 0 .. M - 1 /\ \A n \in 0 .. M : n # M => n \in 0 .. M - 1
    BY <1>0, <2>1, <2>2
  <2>6. Runs(g, M)
    <3> SUFFICES ASSUME NEW n \in 0 .. M
                 PROVE  g[n] = IF n = 0 THEN v ELSE Seen(g[n - 1], ch[n])
      OBVIOUS
    <3>1. CASE n = M
      <4>1. g[M - 1] = k[M - 1] /\ g[M] = Seen(k[M - 1], ch[M])
        BY <2>5
      <4> HIDE DEF g
      <4> QED BY <2>2, <2>5, <3>1, <4>1
    <3>2. CASE n # M
      <4>1. n \in 0 .. M - 1 /\ g[n] = k[n]
        BY <2>5, <3>2
      <4>2. k[n] = IF n = 0 THEN v ELSE Seen(k[n - 1], ch[n])
        BY <2>4, <4>1
      <4>3. n # 0 => g[n - 1] = k[n - 1]
        BY <2>5, <3>2
      <4> HIDE DEF g
      <4> QED BY <4>1, <4>2, <4>3
    <3> QED BY <3>1, <3>2
  <2> HIDE DEF g
  <2>7. Defined(M)
    <3> HIDE DEF Runs
    <3> QED BY <2>6 DEF Defined
  <2> QED BY <2>1, <2>7
<1>2. SeenAll(v, ch) = (CHOOSE k : Runs(k, N))[N]
  BY Zenon DEF SeenAll
<1>3. PICK k : k = CHOOSE l : Runs(l, N)
  OBVIOUS
<1>4. Runs(k, N)
  <2> HIDE DEF Runs
  <2> QED BY <1>1, <1>3
<1>5. k[0] = v /\ \A i \in 1 .. N : k[i] = Seen(k[i - 1], ch[i])
  <2>1. 0 \in 0 .. N /\ \A i \in 1 .. N : i \in 0 .. N /\ i # 0
    BY <1>0
  <2> QED BY <1>4, <2>1
<1> QED BY <1>2, <1>3, <1>5 DEF Follow

(* There is one such sequence of views.                                     *)
LEMMA SeenUnique ==
    ASSUME NEW v, NEW ch \in Seq(Event), NEW k, Follow(k, v, ch)
    PROVE  SeenAll(v, ch) = k[Len(ch)]
<1>1. PICK l : Follow(l, v, ch) /\ SeenAll(v, ch) = l[Len(ch)]
  BY SeenRuns
<1>2. PICK N : N = Len(ch) /\ N \in Nat
  BY LenProperties
<1> SUFFICES ASSUME l[N] # k[N] PROVE FALSE
  BY <1>1, <1>2
<1>3. PICK Bad : Bad = {i \in 0 .. N : l[i] # k[i]}
  OBVIOUS
<1>4. Bad \subseteq Nat /\ Bad # {}
  BY <1>2, <1>3
<1>5. PICK i \in Bad : \A j \in Bad : i <= j
  BY <1>4, LeastNatural
<1>6. i \in 0 .. N /\ l[i] # k[i]
  BY <1>3, <1>5
<1>7. i # 0
  BY <1>1, <1>6 DEF Follow
<1>8. i \in 1 .. N /\ i - 1 \in 0 .. N /\ ~(i <= i - 1)
  BY <1>2, <1>6, <1>7
<1>9. l[i - 1] = k[i - 1]
  BY <1>3, <1>5, <1>8
<1> QED BY <1>1, <1>2, <1>6, <1>8, <1>9 DEF Follow

LEMMA SeenNone == ASSUME NEW v PROVE SeenAll(v, <<>>) = v
<1>1. <<>> \in Seq(Event) /\ Len(<<>>) = 0
  BY EmptySeq
<1>2. Follow([i \in 0 .. 0 |-> v], v, <<>>)
  BY <1>1 DEF Follow
<1>3. SeenAll(v, <<>>) = [i \in 0 .. 0 |-> v][0]
  BY <1>1, <1>2, SeenUnique
<1> QED BY <1>3

(* Sending one more event, and receiving the first.                         *)
LEMMA SeenAppend ==
    ASSUME NEW v, NEW ch \in Seq(Event), NEW e \in Event
    PROVE  SeenAll(v, Append(ch, e)) = Seen(SeenAll(v, ch), e)
<1>1. PICK q, N : q = Append(ch, e) /\ N = Len(ch)
  OBVIOUS
<1>2. /\ q \in Seq(Event) /\ N \in Nat /\ Len(q) = N + 1
      /\ \A i \in 1 .. N : q[i] = ch[i]
      /\ q[N + 1] = e
  BY <1>1, AppendProperties, LenProperties
<1>3. PICK k : Follow(k, v, q) /\ SeenAll(v, q) = k[Len(q)]
  BY <1>2, SeenRuns
<1>4. (\A i \in 1 .. N : i \in 1 .. Len(q)) /\ N + 1 \in 1 .. Len(q) /\ (N + 1) - 1 = N
  BY <1>2
<1>5. Follow(k, v, ch)
  BY <1>1, <1>2, <1>3, <1>4 DEF Follow
<1>6. SeenAll(v, ch) = k[N]
  BY <1>1, <1>5, SeenUnique
<1>7. k[N + 1] = Seen(k[N], e)
  BY <1>2, <1>3, <1>4 DEF Follow
<1> QED BY <1>1, <1>2, <1>3, <1>6, <1>7

LEMMA SeenTail ==
    ASSUME NEW v, NEW ch \in Seq(Event), ch # <<>>
    PROVE  SeenAll(Seen(v, Head(ch)), Tail(ch)) = SeenAll(v, ch)
<1>1. PICK q, N : q = Tail(ch) /\ N = Len(ch)
  OBVIOUS
<1>2. /\ q \in Seq(Event) /\ Len(q) = N - 1
      /\ \A i \in 1 .. Len(q) : q[i] = ch[i + 1]
      /\ Head(ch) = ch[1] /\ N \in Nat /\ N # 0
  BY <1>1, HeadTailProperties, LenProperties, EmptySeq
<1>3. PICK k : Follow(k, v, ch) /\ SeenAll(v, ch) = k[N]
  BY <1>1, SeenRuns
<1>4. PICK M : M = N - 1 /\ M \in Nat /\ M + 1 = N
  BY <1>2
<1>5. PICK l : l = [i \in 0 .. M |-> k[i + 1]]
  OBVIOUS
<1>6. l[0] = Seen(v, Head(ch))
  <2>1. 1 \in 1 .. Len(ch) /\ 0 \in 0 .. M /\ 1 - 1 = 0 /\ 0 + 1 = 1
    BY <1>1, <1>2, <1>4
  <2>2. k[1] = Seen(k[1 - 1], ch[1]) /\ k[0] = v
    BY <1>3, <2>1 DEF Follow
  <2> QED BY <1>2, <1>5, <2>1, <2>2
<1>7. ASSUME NEW i \in 1 .. M PROVE l[i] = Seen(l[i - 1], q[i])
  <2>1. i \in 0 .. M /\ i - 1 \in 0 .. M /\ (i - 1) + 1 = i /\ i + 1 \in 1 .. Len(ch) /\ (i + 1) - 1 = i
    BY <1>1, <1>4
  <2>2. k[i + 1] = Seen(k[(i + 1) - 1], ch[i + 1])
    BY <1>3, <2>1 DEF Follow
  <2>3. l[i] = k[i + 1] /\ l[i - 1] = k[(i - 1) + 1]
    BY <1>5, <2>1
  <2>4. q[i] = ch[i + 1]
    BY <1>2, <1>4
  <2> QED BY <2>1, <2>2, <2>3, <2>4
<1>8. Follow(l, Seen(v, Head(ch)), q)
  BY <1>2, <1>4, <1>6, <1>7 DEF Follow
<1>9. SeenAll(Seen(v, Head(ch)), q) = l[M]
  BY <1>2, <1>4, <1>8, SeenUnique
<1>10. l[M] = k[N]
  BY <1>4, <1>5
<1> QED BY <1>1, <1>3, <1>9, <1>10

LEMMA SeenAllOK ==
    ASSUME NEW v \in Views, NEW ch \in Seq(Event)
    PROVE  SeenAll(v, ch) \in Views
<1>1. PICK k : Follow(k, v, ch) /\ SeenAll(v, ch) = k[Len(ch)]
  BY SeenRuns
<1>2. PICK N : N = Len(ch) /\ N \in Nat
  BY LenProperties
<1>3. \A i \in 1 .. N : ch[i] \in Event
  BY <1>2, ElementOfSeq
<1> SUFFICES ASSUME k[N] \notin Views PROVE FALSE
  BY <1>1, <1>2
<1>4. PICK Bad : Bad = {i \in 0 .. N : k[i] \notin Views}
  OBVIOUS
<1>5. Bad \subseteq Nat /\ Bad # {}
  BY <1>2, <1>4
<1>6. PICK i \in Bad : \A j \in Bad : i <= j
  BY <1>5, LeastNatural
<1>7. i \in 0 .. N /\ k[i] \notin Views /\ i # 0
  BY <1>1, <1>4, <1>6 DEF Follow
<1>8. i \in 1 .. N /\ i - 1 \in 0 .. N /\ ~(i <= i - 1)
  BY <1>2, <1>7
<1>9. k[i - 1] \in Views
  BY <1>4, <1>6, <1>8
<1>10. k[i] = Seen(k[i - 1], ch[i]) /\ ch[i] \in Event
  BY <1>1, <1>2, <1>3, <1>8 DEF Follow
<1> QED BY <1>7, <1>9, <1>10, SeenOK DEF Sees

(* A new subscriber is sent the inflight transactions.                      *)
LEMMA SeenReplay ==
    ASSUME NEW v \in Views, v.inflight = {}, NEW q \in Seq(Tx),
           NEW ch, ch = [i \in 1 .. Len(q) |-> TransactionAdded(q[i])]
    PROVE  LET w == SeenAll(v, ch)
           IN  w.inflight = ToSet(q) /\ w.tip = v.tip /\ w.committed = v.committed
<1>1. PICK N : N = Len(q) /\ N \in Nat
  BY LenProperties
<1>2. DOMAIN q = 1 .. N /\ \A i \in 1 .. N : q[i] \in Tx
  BY <1>1, ElementOfSeq, LenProperties
<1>3. \A t \in Tx : /\ TransactionAdded(t) \in Event
                    /\ TransactionAdded(t).type = "added" /\ TransactionAdded(t).txs = {t}
  BY DEF Event, TransactionAdded
<1>4. ch \in Seq(Event) /\ Len(ch) = N /\ \A i \in 1 .. N : ch[i] = TransactionAdded(q[i])
  <2>1. ch \in Seq(Event)
    BY <1>1, <1>2, <1>3, IsASeq
  <2>2. DOMAIN ch = 1 .. N /\ \A i \in 1 .. N : ch[i] = TransactionAdded(q[i])
    BY <1>1
  <2>3. Len(ch) = N
    BY <1>1, <2>1, <2>2, LenProperties
  <2> QED BY <2>1, <2>2, <2>3
<1>5. PICK k : Follow(k, v, ch) /\ SeenAll(v, ch) = k[N]
  BY <1>4, SeenRuns
<1> DEFINE Good(i) == /\ k[i] \in Views /\ k[i].tip = v.tip /\ k[i].committed = v.committed
                     /\ \A t : t \in k[i].inflight <=> \E j \in 1 .. i : t = q[j]
<1>6. Good(N)
  <2> SUFFICES ASSUME ~Good(N) PROVE FALSE
    OBVIOUS
  <2> DEFINE Bad == {i \in 0 .. N : ~Good(i)}
  <2>1. Bad \subseteq Nat /\ Bad # {}
    BY <1>1
  <2>2. Good(0)
    <3>1. k[0] = v /\ 1 .. 0 = {}
      BY <1>5 DEF Follow
    <3> QED BY <3>1
  <2> HIDE DEF Good
  <2>3. PICK i \in Bad : \A j \in Bad : i <= j
    <3> HIDE DEF Bad
    <3> QED BY <2>1, LeastNatural
  <2>4. i \in 1 .. N /\ i - 1 \in 0 .. N /\ ~(i <= i - 1)
    <3>1. i \in 0 .. N /\ i # 0
      BY <2>2, <2>3
    <3> QED BY <1>1, <3>1
  <2>5. Good(i - 1)
    BY <2>3, <2>4
  <2>6. PICK u, w, e : u = k[i - 1] /\ w = k[i] /\ e = ch[i]
    OBVIOUS
  <2>7. w = Seen(u, e) /\ e \in Event /\ e.type = "added" /\ e.txs = {q[i]} /\ u \in Views
    <3>1. w = Seen(u, e)
      BY <1>4, <1>5, <2>4, <2>6 DEF Follow
    <3>2. e = TransactionAdded(q[i]) /\ q[i] \in Tx
      BY <1>2, <1>4, <2>4, <2>6
    <3>3. u \in Views
      BY <2>5, <2>6 DEF Good
    <3> QED BY <1>3, <3>1, <3>2, <3>3
  <2>8. w \in Views /\ w.tip = u.tip /\ w.committed = u.committed /\ w.inflight = u.inflight \cup {q[i]}
    <3>1. e.type # "committed"
      BY <2>7
    <3>2. Sees(u, e, w)
      BY <2>7, SeenOK
    <3> QED BY <2>7, <3>1, <3>2 DEF Sees
  <2>9. 1 .. i = (1 .. i - 1) \cup {i}
    BY <2>4
  <2>10. \A t : t \in w.inflight <=> \E j \in 1 .. i : t = q[j]
    BY <2>5, <2>6, <2>8, <2>9 DEF Good
  <2>11. Good(i)
    BY <2>5, <2>6, <2>8, <2>10 DEF Good
  <2> QED BY <2>3, <2>11
<1>7. \A t : t \in ToSet(q) <=> \E j \in 1 .. N : t = q[j]
  BY <1>2 DEF ToSet
<1> QED BY <1>5, <1>6, <1>7

(* The event e was sent, unless q's subscription has ended.                 *)
Sent(p, q, e) ==
    /\ p.channel \in Seq(Event) /\ e \in Event
    /\ q.connected => p.connected /\ q.channel = Append(p.channel, e)

LEMMA SentSeen ==
    ASSUME NEW v \in Views, NEW p, NEW q, NEW e, Sent(p, q, e), q.connected
    PROVE  p.connected /\ Sees(SeenAll(v, p.channel), e, SeenAll(v, q.channel))
<1>1. p.channel \in Seq(Event) /\ e \in Event /\ p.connected /\ q.channel = Append(p.channel, e)
  BY DEF Sent
<1>2. PICK w : w = SeenAll(v, p.channel)
  OBVIOUS
<1>3. w \in Views
  BY <1>1, <1>2, SeenAllOK
<1>4. SeenAll(v, q.channel) = Seen(w, e)
  BY <1>1, <1>2, SeenAppend
<1> QED BY <1>1, <1>2, <1>3, <1>4, SeenOK

LEMMA EventSent ==
    ASSUME NEW p \in Providers, NEW e \in Event
    PROVE  Sent(p, send_event(p, e), e)
<1>1. p.channel \in Seq(Event) /\ p.connected \in BOOLEAN
  BY DEF Providers
<1>2. CASE ~p.connected
  BY <1>1, <1>2 DEF send_event, Sent
<1>3. CASE p.connected /\ Len(p.channel) < p.capacity
  <2>1. send_event(p, e) = [p EXCEPT !.channel = Append(p.channel, e)]
    BY <1>3 DEF send_event
  <2>2. send_event(p, e).channel = Append(p.channel, e)
    BY <2>1 DEF Providers
  <2> QED BY <1>1, <1>3, <2>2 DEF Sent
<1>4. CASE p.connected /\ ~(Len(p.channel) < p.capacity)
  <2>1. send_event(p, e) = [p EXCEPT !.connected = FALSE]
    BY <1>4 DEF send_event
  <2>2. send_event(p, e).connected = FALSE
    BY <2>1 DEF Providers
  <2> QED BY <1>1, <2>2 DEF Sent
<1> QED BY <1>2, <1>3, <1>4

LEMMA AddedSent ==
    ASSUME NEW p \in Providers, NEW t \in Tx
    PROVE  Sent(p, transaction_added(p, t), TransactionAdded(t))
<1>1. PICK r : r = [p EXCEPT !.inflight_txs = Append(p.inflight_txs, t)]
  OBVIOUS
<1>2. p.inflight_txs \in Seq(Tx)
  BY DEF Providers
<1>3. Append(p.inflight_txs, t) \in Seq(Tx)
  BY <1>2, AppendProperties
<1>4. r \in Providers /\ r.channel = p.channel /\ r.connected = p.connected
  BY <1>1, <1>3 DEF Providers
<1>5. TransactionAdded(t) \in Event
  BY DEF Event, TransactionAdded
<1>6. transaction_added(p, t) = send_event(r, TransactionAdded(t))
  BY <1>1 DEF transaction_added
<1>7. Sent(r, send_event(r, TransactionAdded(t)), TransactionAdded(t))
  BY <1>4, <1>5, EventSent
<1> QED BY <1>4, <1>6, <1>7 DEF Sent

LEMMA RevertedSent ==
    ASSUME NEW p \in Providers, IsInjective(p.inflight_txs), NEW txs, txs \subseteq Tx
    PROVE  Sent(p, txs_reverted(p, txs), TransactionsReverted(txs))
<1>1. PICK s \in Seq(Tx) : inflight_txs_without(p, txs) = [p EXCEPT !.inflight_txs = s]
  BY Without
<1>2. PICK r : r = [p EXCEPT !.inflight_txs = s]
  OBVIOUS
<1>3. r \in Providers /\ r.channel = p.channel /\ r.connected = p.connected
  BY <1>2 DEF Providers
<1>4. TransactionsReverted(txs) \in Event
  BY DEF Event, TransactionsReverted
<1>5. txs_reverted(p, txs) = send_event(r, TransactionsReverted(txs))
  BY <1>1, <1>2 DEF txs_reverted
<1>6. Sent(r, send_event(r, TransactionsReverted(txs)), TransactionsReverted(txs))
  BY <1>3, <1>4, EventSent
<1> QED BY <1>3, <1>5, <1>6 DEF Sent

LEMMA CommittedSent ==
    ASSUME NEW p \in Providers, IsInjective(p.inflight_txs), NEW txs, txs \subseteq Tx, NEW n \in Nat
    PROVE  Sent(p, block_committed(p, n, txs), BlockCommitted(n, txs))
<1>1. PICK s \in Seq(Tx) : inflight_txs_without(p, txs) = [p EXCEPT !.inflight_txs = s]
  BY Without
<1>2. PICK d : d = [p EXCEPT !.inflight_txs = s]
  OBVIOUS
<1>3. d \in Providers /\ d.channel = p.channel /\ d.connected = p.connected
  BY <1>2 DEF Providers
<1>4. PICK r : r = [d EXCEPT !.chain_tip = n]
  OBVIOUS
<1>5. r \in Providers /\ r.channel = p.channel /\ r.connected = p.connected
  BY <1>3, <1>4 DEF Providers
<1>6. BlockCommitted(n, txs) \in Event
  BY DEF Event, BlockCommitted
<1>7. block_committed(p, n, txs) = send_event(r, BlockCommitted(n, txs))
  BY <1>1, <1>2, <1>4 DEF block_committed
<1>8. Sent(r, send_event(r, BlockCommitted(n, txs)), BlockCommitted(n, txs))
  BY <1>5, <1>6, EventSent
<1> QED BY <1>5, <1>7, <1>8 DEF Sent

(* The view v has the inflight transactions txs, the tip, and what the      *)
(* chain committed up to that tip.                                          *)
Follows(v, txs, tip, chain) ==
    /\ v \in Views /\ v.inflight = txs /\ v.tip = tip
    /\ tip <= Len(chain)
    /\ \A t : t \in v.committed <=> \E i \in 1 .. tip : t \in chain[i]

LEMMA FollowAdded ==
    ASSUME NEW p \in Providers, NEW t \in Tx, NEW q, q = transaction_added(p, t), q.connected,
           NEW v \in Views, NEW T, NEW tip, NEW chain,
           p.connected => Follows(SeenAll(v, p.channel), T, tip, chain)
    PROVE  Follows(SeenAll(v, q.channel), T \cup {t}, tip, chain)
<1>1. PICK e : e = TransactionAdded(t)
  OBVIOUS
<1>2. e.type = "added" /\ e.txs = {t}
  BY <1>1 DEF TransactionAdded
<1>3. Sent(p, q, e)
  BY <1>1, AddedSent
<1>4. PICK u, w : u = SeenAll(v, p.channel) /\ w = SeenAll(v, q.channel)
  OBVIOUS
<1>5. p.connected /\ Sees(u, e, w)
  BY <1>3, <1>4, SentSeen
<1>6. Follows(u, T, tip, chain)
  BY <1>4, <1>5
<1>7. w \in Views /\ w.inflight = u.inflight \cup {t} /\ w.tip = u.tip /\ w.committed = u.committed
  <2>1. e.type # "committed"
    BY <1>2
  <2> QED BY <1>2, <1>5, <2>1 DEF Sees
<1>8. Follows(w, T \cup {t}, tip, chain)
  BY <1>6, <1>7 DEF Follows
<1> QED BY <1>4, <1>8

LEMMA FollowReverted ==
    ASSUME NEW p \in Providers, IsInjective(p.inflight_txs), NEW R, R \subseteq Tx,
           NEW q, q = txs_reverted(p, R), q.connected,
           NEW v \in Views, NEW T, NEW tip, NEW chain,
           p.connected => Follows(SeenAll(v, p.channel), T, tip, chain)
    PROVE  Follows(SeenAll(v, q.channel), T \ R, tip, chain)
<1>1. PICK e : e = TransactionsReverted(R)
  OBVIOUS
<1>2. e.type = "reverted" /\ e.txs = R
  BY <1>1 DEF TransactionsReverted
<1>3. Sent(p, q, e)
  BY <1>1, RevertedSent
<1>4. PICK u, w : u = SeenAll(v, p.channel) /\ w = SeenAll(v, q.channel)
  OBVIOUS
<1>5. p.connected /\ Sees(u, e, w)
  BY <1>3, <1>4, SentSeen
<1>6. Follows(u, T, tip, chain)
  BY <1>4, <1>5
<1>7. w \in Views /\ w.inflight = u.inflight \ R /\ w.tip = u.tip /\ w.committed = u.committed
  <2>1. e.type # "committed" /\ e.type # "added"
    BY <1>2
  <2> QED BY <1>2, <1>5, <2>1 DEF Sees
<1>8. Follows(w, T \ R, tip, chain)
  BY <1>6, <1>7 DEF Follows
<1> QED BY <1>4, <1>8

LEMMA FollowCommitted ==
    ASSUME NEW p \in Providers, IsInjective(p.inflight_txs), NEW C, C \subseteq Tx, NEW n \in Nat,
           NEW q, q = block_committed(p, n, C), q.connected,
           NEW v \in Views, NEW T, NEW chain, n > 0, n = Len(chain), chain[n] = C,
           p.connected => Follows(SeenAll(v, p.channel), T, n - 1, chain)
    PROVE  Follows(SeenAll(v, q.channel), T \ C, n, chain)
<1>1. PICK e : e = BlockCommitted(n, C)
  OBVIOUS
<1>2. e.type = "committed" /\ e.txs = C /\ e.block = n
  BY <1>1 DEF BlockCommitted
<1>3. Sent(p, q, e)
  BY <1>1, CommittedSent
<1>4. PICK u, w : u = SeenAll(v, p.channel) /\ w = SeenAll(v, q.channel)
  OBVIOUS
<1>5. p.connected /\ Sees(u, e, w)
  BY <1>3, <1>4, SentSeen
<1>6. Follows(u, T, n - 1, chain)
  BY <1>4, <1>5
<1>7. w \in Views /\ w.inflight = u.inflight \ C /\ w.tip = n /\ w.committed = u.committed \cup C
  <2>1. e.type # "added"
    BY <1>2
  <2> QED BY <1>2, <1>5, <2>1 DEF Sees
<1>8. 1 .. n = (1 .. n - 1) \cup {n}
  OBVIOUS
<1>9. \A t : t \in u.committed <=> \E i \in 1 .. n - 1 : t \in chain[i]
  BY <1>6 DEF Follows
<1>10. \A t : t \in w.committed <=> \E i \in 1 .. n : t \in chain[i]
  BY <1>7, <1>8, <1>9
<1>11. w.inflight = T \ C /\ n <= Len(chain)
  BY <1>6, <1>7 DEF Follows
<1>12. Follows(w, T \ C, n, chain)
  BY <1>7, <1>10, <1>11 DEF Follows
<1> QED BY <1>4, <1>12

LEMMA FollowGrown ==
    ASSUME NEW v, NEW T, NEW tip \in Nat, NEW c, NEW d, Len(c) \in Nat, Len(d) = Len(c) + 1,
           \A i \in 1 .. Len(c) : d[i] = c[i], Follows(v, T, tip, c)
    PROVE  Follows(v, T, tip, d)
<1>1. PICK L : L = Len(c)
  OBVIOUS
<1>2. tip <= L /\ tip <= L + 1 /\ \A i \in 1 .. tip : i \in 1 .. L
  BY <1>1 DEF Follows
<1>3. \A i \in 1 .. tip : d[i] = c[i]
  BY <1>1, <1>2
<1> QED BY <1>1, <1>2, <1>3 DEF Follows

(* What a subscriber arrives at when it has worked off its channel, and     *)
(* what it has loaded from the store before it subscribes.                  *)
CaughtUp ==
    subscriber.step = "attached" /\ mempool.subscription.connected /\ faults.lost = 0 =>
        Follows(SeenAll(subscriber, mempool.subscription.channel), Nodes(mempool.transactions),
                mempool.subscription.chain_tip, store.chain)

Loaded == subscriber.step = "loaded" => Follows(subscriber, {}, subscriber.tip, store.chain)

Listening == CaughtUp /\ Loaded

LEMMA SubscriberFacts ==
    ASSUME Inv
    PROVE  /\ subscriber \in Views /\ mempool.subscription \in Providers
           /\ ToSet(mempool.subscription.inflight_txs) = Nodes(mempool.transactions)
           /\ IsInjective(mempool.subscription.inflight_txs)
           /\ Nodes(mempool.transactions) \subseteq Tx
           /\ mempool.subscription.channel \in Seq(Event) /\ mempool.subscription.chain_tip \in Nat
<1>1. ProviderOK(mempool.subscription, mempool.transactions) /\ GraphOK(mempool.transactions)
  BY DEF Inv, Consistent, Sound
<1>2. subscriber \in Views
  BY DEF Inv, ProcessTypes, SubscriberTypes, Views
<1>3. /\ mempool.subscription \in Providers
      /\ ToSet(mempool.subscription.inflight_txs) = Nodes(mempool.transactions)
      /\ IsInjective(mempool.subscription.inflight_txs)
  BY <1>1 DEF ProviderOK
<1>4. mempool.subscription.channel \in Seq(Event) /\ mempool.subscription.chain_tip \in Nat
  BY <1>3 DEF Providers
<1> QED BY <1>1, <1>2, <1>3, <1>4, TrackedAreTxs

(* The subscriber's own steps.                                              *)
LEMMA ListeningSubscriber ==
    ASSUME Inv, Listening, Quiet, LoadCommitted \/ Subscribe \/ Receive \/ StreamEnds
    PROVE  Listening'
<1>0. /\ store' = store /\ Nodes(mempool'.transactions) = Nodes(mempool.transactions)
      /\ faults'.lost = faults.lost
      /\ mempool'.subscription.chain_tip = mempool.subscription.chain_tip
  BY DEF Quiet, SameTips
<1>1. PICK p : p = mempool.subscription
  OBVIOUS
<1>2. /\ subscriber \in Views /\ p \in Providers /\ IsMempool(mempool)
      /\ p.channel \in Seq(Event) /\ p.chain_tip \in Nat
      /\ ToSet(p.inflight_txs) = Nodes(mempool.transactions)
  BY <1>1, SubscriberFacts DEF Inv, Consistent, Sound
<1>3. CASE subscriber' = NoSubscriber
  <2>1. subscriber'.step = "none"
    BY <1>3 DEF NoSubscriber
  <2> QED BY <2>1 DEF Listening, CaughtUp, Loaded
<1>4. CASE LoadCommitted
  <2>1. PICK w : w = subscriber'
    OBVIOUS
  <2>2. w.step = "loaded" /\ w.tip = height /\ w.committed = CommittedTxs /\ w.inflight = {}
        /\ w = [step |-> "loaded", tip |-> height, committed |-> CommittedTxs, inflight |-> {}]
    BY <1>4, <2>1 DEF LoadCommitted
  <2>3. StoreTypes
    BY DEF Inv, ProcessTypes
  <2>4. height \in Nat /\ \A i \in 1 .. height : store.chain[i] \subseteq Tx
    BY <2>3, HeightFacts
  <2>5. \A t : t \in w.committed <=> \E i \in 1 .. height : t \in store.chain[i]
    BY <2>2, <2>3, CommittedByBlock
  <2>6. w.committed \subseteq Tx
    BY <2>4, <2>5
  <2>7. w \in Views
    BY <2>2, <2>4, <2>6 DEF Views
  <2>8. Follows(w, {}, w.tip, store.chain)
    BY <2>2, <2>4, <2>5, <2>7 DEF Follows, height
  <2> QED BY <1>0, <2>1, <2>2, <2>8 DEF Listening, CaughtUp, Loaded
<1>5. CASE Subscribe /\ subscriber' # NoSubscriber
  <2>1. /\ subscriber.step = "loaded" /\ subscribe_result(mempool, subscriber.tip) = "Ok"
        /\ mempool' = subscribe(mempool) /\ subscriber' = [subscriber EXCEPT !.step = "attached"]
    BY <1>5 DEF Subscribe, Call
  <2>2. p.chain_tip = subscriber.tip
    BY <1>1, <2>1 DEF subscribe_result
  <2>3. mempool'.subscription = provider_subscribe(p)
    BY <1>1, <1>2, <2>1 DEF subscribe, IsMempool, MempoolFields
  <2>4. PICK w, ch : w = subscriber' /\ ch = mempool'.subscription.channel
    OBVIOUS
  <2>5. ch = [i \in 1 .. Len(p.inflight_txs) |-> TransactionAdded(p.inflight_txs[i])]
    BY <1>2, <2>3, <2>4 DEF provider_subscribe, Providers
  <2>6. Follows(subscriber, {}, subscriber.tip, store.chain)
    BY <2>1 DEF Listening, Loaded
  <2>7. /\ w \in Views /\ w.step = "attached" /\ w.inflight = subscriber.inflight
        /\ w.tip = subscriber.tip /\ w.committed = subscriber.committed
    BY <1>2, <2>1, <2>4 DEF Views
  <2>8. w.inflight = {} /\ p.inflight_txs \in Seq(Tx)
    BY <1>2, <2>6, <2>7 DEF Follows, Providers
  <2>9. PICK v : v = SeenAll(w, ch)
    OBVIOUS
  <2>10. v.inflight = ToSet(p.inflight_txs) /\ v.tip = w.tip /\ v.committed = w.committed
    BY <2>5, <2>7, <2>8, <2>9, SeenReplay
  <2>11. ch \in Seq(Event)
    <3>1. provider_subscribe(p) \in Providers
      BY <1>2, SubscribeOK
    <3> QED BY <2>3, <2>4, <3>1 DEF Providers
  <2>12. v \in Views
    BY <2>7, <2>9, <2>11, SeenAllOK
  <2>13. Follows(v, Nodes(mempool.transactions), p.chain_tip, store.chain)
    BY <1>2, <2>2, <2>6, <2>7, <2>10, <2>12 DEF Follows
  <2> QED BY <1>0, <1>1, <2>4, <2>7, <2>9, <2>13 DEF Listening, CaughtUp, Loaded
<1>6. CASE Receive
  <2>1. /\ subscriber.step = "attached" /\ p.channel # <<>>
        /\ mempool' = [mempool EXCEPT !.subscription.channel = Tail(@)]
        /\ subscriber' = Seen(subscriber, Head(p.channel))
    BY <1>1, <1>6 DEF Receive, Call
  <2>2. mempool'.subscription = [p EXCEPT !.channel = Tail(p.channel)]
    BY <1>1, <1>2, <2>1 DEF IsMempool, MempoolFields
  <2>3. mempool'.subscription.channel = Tail(p.channel) /\ mempool'.subscription.connected = p.connected
    BY <1>2, <2>2 DEF Providers
  <2>4. SeenAll(subscriber', mempool'.subscription.channel) = SeenAll(subscriber, p.channel)
    BY <1>2, <2>1, <2>3, SeenTail
  <2>5. subscriber'.step = "attached"
    BY <1>2, <2>1 DEF Seen, Views
  <2> QED BY <1>0, <1>1, <2>1, <2>3, <2>4, <2>5 DEF Listening, CaughtUp, Loaded
<1> QED BY <1>3, <1>4, <1>5, <1>6 DEF StreamEnds

(* A subscriber that waits to subscribe is not disturbed by the others.     *)
LEMMA LoadedKept ==
    ASSUME Inv, Loaded, UNCHANGED subscriber, UNCHANGED store \/ Applying
    PROVE  Loaded'
<1>1. CASE UNCHANGED store
  BY <1>1 DEF Loaded
<1>2. CASE Applying
  <2> SUFFICES ASSUME subscriber.step = "loaded"
               PROVE  Follows(subscriber, {}, subscriber.tip, store'.chain)
    BY DEF Loaded
  <2>1. Len(store.chain) \in Nat /\ Len(store'.chain) = Len(store.chain) + 1
        /\ \A i \in 1 .. Len(store.chain) : store'.chain[i] = store.chain[i]
    BY <1>2, ChainGrows DEF height
  <2>2. Follows(subscriber, {}, subscriber.tip, store.chain)
    BY DEF Loaded
  <2>3. subscriber.tip \in Nat
    BY SubscriberFacts DEF Views
  <2> QED BY <2>1, <2>2, <2>3, FollowGrown
<1> QED BY <1>1, <1>2

LEMMA ListeningAdd ==
    ASSUME Inv, Listening, NEW t \in Tx, Adding(t)
    PROVE  Listening'
<1>1. PICK p, q, T, v : /\ p = mempool.subscription /\ q = mempool'.subscription
                        /\ T = Nodes(mempool.transactions) /\ v = subscriber
  OBVIOUS
<1>2. /\ store' = store /\ faults' = faults /\ subscriber' = v
      /\ Nodes(mempool'.transactions) = T \cup {t}
      /\ q = transaction_added(p, t) /\ q.chain_tip = p.chain_tip
  BY <1>1 DEF Adding, Adds, SameTips
<1>3. v \in Views /\ p \in Providers
  BY <1>1, SubscriberFacts
<1>4. Loaded'
  BY <1>1, <1>2, LoadedKept DEF Listening
<1>5. CaughtUp'
  <2> SUFFICES ASSUME v.step = "attached", q.connected, faults.lost = 0
               PROVE  Follows(SeenAll(v, q.channel), T \cup {t}, p.chain_tip, store.chain)
    BY <1>1, <1>2 DEF CaughtUp
  <2>1. p.connected => Follows(SeenAll(v, p.channel), T, p.chain_tip, store.chain)
    BY <1>1 DEF Listening, CaughtUp
  <2> QED BY <1>2, <1>3, <2>1, FollowAdded
<1> QED BY <1>4, <1>5 DEF Listening

LEMMA ListeningRollback ==
    ASSUME Inv, Listening, NEW R, RollingBack(R)
    PROVE  Listening'
<1>1. PICK p, q, T, v : /\ p = mempool.subscription /\ q = mempool'.subscription
                        /\ T = Nodes(mempool.transactions) /\ v = subscriber
  OBVIOUS
<1>2. /\ store' = store /\ faults' = faults /\ subscriber' = v
      /\ Nodes(mempool'.transactions) = T \ R /\ R \subseteq T
      /\ q = txs_reverted(p, R) /\ q.chain_tip = p.chain_tip
  BY <1>1 DEF RollingBack, Ending, Drops, SameTips
<1>3. v \in Views /\ p \in Providers /\ IsInjective(p.inflight_txs) /\ T \subseteq Tx
  BY <1>1, SubscriberFacts
<1>4. Loaded'
  BY <1>1, <1>2, LoadedKept DEF Listening
<1>5. CaughtUp'
  <2> SUFFICES ASSUME v.step = "attached", q.connected, faults.lost = 0
               PROVE  Follows(SeenAll(v, q.channel), T \ R, p.chain_tip, store.chain)
    BY <1>1, <1>2 DEF CaughtUp
  <2>1. p.connected => Follows(SeenAll(v, p.channel), T, p.chain_tip, store.chain)
    BY <1>1 DEF Listening, CaughtUp
  <2>2. R \subseteq Tx
    BY <1>2, <1>3
  <2> QED BY <1>2, <1>3, <2>1, <2>2, FollowReverted
<1> QED BY <1>4, <1>5 DEF Listening

LEMMA ListeningCommit ==
    ASSUME Inv, ~mempool.panicked, Reported, Listening, NEW R, Committing(R)
    PROVE  Listening'
<1>1. PICK p, q, T, v, C, k, chain :
         /\ p = mempool.subscription /\ q = mempool'.subscription
         /\ T = Nodes(mempool.transactions) /\ v = subscriber
         /\ C = builder.block /\ k = height /\ chain = store.chain
  OBVIOUS
<1>2. /\ store' = store /\ faults' = faults /\ subscriber' = v /\ builder.step = "applied"
      /\ Nodes(mempool'.transactions) = T \ (C \cup R) /\ C \subseteq T /\ R \subseteq T
      /\ q = txs_reverted(block_committed(p, k, C), R) /\ q.chain_tip = k
  BY <1>1 DEF Committing, Ending, Retires
<1>3. v \in Views /\ p \in Providers /\ IsInjective(p.inflight_txs) /\ T \subseteq Tx
  BY <1>1, SubscriberFacts
<1>4. k \in Nat /\ k = Len(chain) /\ k > 0 /\ chain[k] = C
  <2>1. height \in Nat
    BY HeightFacts DEF Inv, ProcessTypes
  <2>2. height > 0 /\ store.chain[height] = builder.block
    BY <1>2 DEF Inv, BuilderMatches
  <2> QED BY <1>1, <2>1, <2>2 DEF height
<1>5. Loaded'
  BY <1>1, <1>2, LoadedKept DEF Listening
<1>6. CaughtUp'
  <2> SUFFICES ASSUME v.step = "attached", q.connected, faults.lost = 0
               PROVE  Follows(SeenAll(v, q.channel), T \ (C \cup R), k, chain)
    BY <1>1, <1>2 DEF CaughtUp
  <2>1. p.chain_tip = k - 1
    BY <1>1, <1>2 DEF Reported, TipsMatch
  <2>2. p.connected => Follows(SeenAll(v, p.channel), T, k - 1, chain)
    BY <1>1, <2>1 DEF Listening, CaughtUp
  <2>3. C \subseteq Tx /\ R \subseteq Tx
    BY <1>2, <1>3
  <2>4. PICK r : r = block_committed(p, k, C)
    OBVIOUS
  <2>5. r \in Providers /\ IsInjective(r.inflight_txs)
    BY <1>3, <1>4, <2>3, <2>4, BlockCommittedOK
  <2>6. r.connected => Follows(SeenAll(v, r.channel), T \ C, k, chain)
    BY <1>3, <1>4, <2>2, <2>3, <2>4, FollowCommitted
  <2>7. q = txs_reverted(r, R)
    BY <1>2, <2>4
  <2>8. Follows(SeenAll(v, q.channel), (T \ C) \ R, k, chain)
    BY <1>3, <2>3, <2>5, <2>6, <2>7, FollowReverted
  <2>9. (T \ C) \ R = T \ (C \cup R)
    OBVIOUS
  <2> QED BY <2>8, <2>9
<1> QED BY <1>5, <1>6 DEF Listening

LEMMA ListeningApply ==
    ASSUME Inv, Listening, Applying
    PROVE  Listening'
<1>1. Loaded'
  BY LoadedKept DEF Listening, Applying
<1>2. mempool' = mempool /\ subscriber' = subscriber /\ (faults'.lost = 0 => faults.lost = 0)
  BY DEF Applying
<1>3. PICK p, w : p = mempool.subscription /\ w = SeenAll(subscriber, mempool.subscription.channel)
  OBVIOUS
<1>4. Len(store.chain) \in Nat /\ Len(store'.chain) = Len(store.chain) + 1
      /\ \A i \in 1 .. Len(store.chain) : store'.chain[i] = store.chain[i]
  BY ChainGrows DEF height
<1>5. p.chain_tip \in Nat
  BY <1>3, SubscriberFacts
<1>6. Follows(w, Nodes(mempool.transactions), p.chain_tip, store.chain)
        => Follows(w, Nodes(mempool.transactions), p.chain_tip, store'.chain)
  BY <1>4, <1>5, FollowGrown
<1>7. CaughtUp'
  BY <1>2, <1>3, <1>6 DEF Listening, CaughtUp
<1> QED BY <1>1, <1>7 DEF Listening

LEMMA ListeningStep ==
    ASSUME Inv, Reported, Listening, Kinds
    PROVE  Listening'
<1> DEFINE Same == /\ mempool'.subscription = mempool.subscription
                   /\ Nodes(mempool'.transactions) = Nodes(mempool.transactions)
                   /\ UNCHANGED <<subscriber, store>> /\ faults'.lost = faults.lost
<1>1. ASSUME Same PROVE Listening'
  BY <1>1 DEF Listening, CaughtUp, Loaded
<1>2. CASE Quiet
  <2>1. CASE mempool'.subscription = mempool.subscription /\ UNCHANGED subscriber
    <3>1. Same
      BY <1>2, <2>1 DEF Quiet
    <3> QED BY <1>1, <3>1
  <2>2. CASE LoadCommitted \/ Subscribe \/ Receive \/ StreamEnds
    BY <1>2, <2>2, ListeningSubscriber
  <2> QED BY <1>2, <2>1, <2>2 DEF Quiet
<1>3. ASSUME NEW t \in Tx, Adding(t) PROVE Listening'
  BY <1>3, ListeningAdd
<1>4. ASSUME NEW S, Selecting(S) PROVE Listening'
  <2>1. Same
    BY <1>4 DEF Selecting, SameContents
  <2> QED BY <1>1, <2>1
<1>5. CASE Applying
  BY <1>5, ListeningApply
<1>6. CASE Failing
  <2>1. Same
    BY <1>6 DEF Failing
  <2> QED BY <1>1, <2>1
<1>7. ASSUME NEW R, Committing(R), ~mempool.panicked PROVE Listening'
  BY <1>7, ListeningCommit
<1>8. ASSUME NEW R, RollingBack(R) PROVE Listening'
  BY <1>8, ListeningRollback
<1>9. CASE Panicking
  <2>1. Same
    BY <1>9 DEF Panicking, Ending, SameContents
  <2> QED BY <1>1, <2>1
<1>10. CASE Restarting
  <2>1. subscriber'.step = "none"
    BY <1>10 DEF Restarting, Fresh, NoSubscriber
  <2> QED BY <2>1 DEF Listening, CaughtUp, Loaded
<1> HIDE DEF Same
<1> QED BY <1>2, <1>3, <1>4, <1>5, <1>6, <1>7, <1>8, <1>9, <1>10 DEF Kinds

-----------------------------------------------------------------------------
(* THE SECOND INVARIANT                                                     *)

(* What the tracked transactions, the block in progress, the open requests  *)
(* and the subscriber have to do with the store's chain.                    *)
ChainInv ==
    /\ SelectedClosed
    /\ Reported
    /\ RequestsFit
    /\ Settled
    /\ BlockAcceptedIfOverlapping
    /\ Listening

LEMMA InitChainInv == Init => ChainInv
<1> SUFFICES ASSUME Init PROVE ChainInv
  OBVIOUS
<1>1. store.chain = <<>> /\ height = 0
  BY EmptySeq DEF Init, height
<1>2. Fresh
  BY <1>1 DEF Init, Fresh
<1>3. TipsMatch
  BY <1>2, Started DEF FreshPart
<1>4. PICK m : m = mempool
  OBVIOUS
<1>5. m.batches.inner.processed = {} /\ m.chain_tip = 0 /\ m.state.committed_blocks = <<>>
  <2>1. m = Mempool_new(0)
    BY <1>4 DEF Init
  <2>2. m.batches.inner.processed = {} /\ m.chain_tip = 0
    BY <2>1, NewOK
  <2>3. m.state.committed_blocks = <<>>
    BY <2>1 DEF Mempool_new, InflightState_new
  <2> QED BY <2>2, <2>3
<1>6. builder.step = "idle" /\ builder.block = {}
  BY DEF Init, IdleBuilder
<1>7. SelectedClosed
  BY <1>4, <1>5, <1>6 DEF SelectedClosed
<1>8. LastBlocks(m.state.committed_blocks, m.chain_tip, store.chain)
  BY <1>5, EmptySeq DEF LastBlocks
<1>9. Reported
  BY <1>3, <1>4, <1>8 DEF Reported
<1>10. RequestsFit
  BY DEF Init, RequestsFit
<1>11. Settled
  BY <1>2, SettledFresh DEF Settled
<1>12. BlockAcceptedIfOverlapping
  BY <1>6 DEF BlockAcceptedIfOverlapping, BlockAccepted
<1>13. subscriber.step = "none"
  BY DEF Init, NoSubscriber
<1>14. Listening
  BY <1>13 DEF Listening, CaughtUp, Loaded
<1> QED BY <1>7, <1>9, <1>10, <1>11, <1>12, <1>14 DEF ChainInv

LEMMA NextChainInv ==
    ASSUME Inv, Inv', ChainInv, [Next]_vars
    PROVE  ChainInv'
<1>1. Kinds
  BY StepKinds
<1>2. /\ SelectedClosed /\ Reported /\ RequestsFit /\ Settled
      /\ BlockAcceptedIfOverlapping /\ Listening
  BY DEF ChainInv
<1>3. SelectedClosed'
  BY <1>1, <1>2, SelectedClosedStep
<1>4. Reported'
  BY <1>1, <1>2, ReportedStep
<1>5. RequestsFit'
  BY <1>2, RequestsFitStep
<1>6. Settled'
  BY <1>1, <1>2, SettledStep
<1>7. BlockAcceptedIfOverlapping'
  BY <1>1, <1>2, AcceptedStep
<1>8. Listening'
  BY <1>1, <1>2, ListeningStep
<1> QED BY <1>3, <1>4, <1>5, <1>6, <1>7, <1>8 DEF ChainInv

(* ChainInv is an invariant: together with Inv it holds initially and every *)
(* step of the handlers, the builders, the store, the subscriber and a      *)
(* restart preserves it, a mempool that has panicked or missed a block      *)
(* included.                                                                *)
THEOREM ChainInvariant == Spec => []ChainInv
<1>1. Inv /\ Inv' /\ ChainInv /\ [Next]_vars => ChainInv'
  BY NextChainInv
<1> QED BY <1>1, InitChainInv, Invariant, PTL DEF Spec

(* The block that Mempool::select_block hands to the block builder is one   *)
(* that the store's apply_block accepts, whatever batches were rolled back, *)
(* blocks failed and transactions expired before, as long as the store's    *)
(* replies arrived and the inputs of every accepted transaction were read   *)
(* no earlier than the oldest state that the mempool still retained.        *)
THEOREM BlockAcceptedIfOverlappingAlways == Spec => []BlockAcceptedIfOverlapping
<1>1. ChainInv => BlockAcceptedIfOverlapping
  BY DEF ChainInv
<1> QED BY <1>1, ChainInvariant, PTL

(* A subscriber that is still connected arrives, once it has received what  *)
(* the channel holds, at the mempool's tip and inflight transactions and at *)
(* what the chain committed up to that tip: the replay by subscribe and the *)
(* events that send_event queued miss and repeat nothing, although a full   *)
(* channel ends the subscription in the middle of a commit.                 *)
THEOREM SubscriberInSyncAlways == Spec => []SubscriberInSync
<1>1. ASSUME ChainInv PROVE SubscriberInSync
  <2>1. PICK v, tip : /\ v = SeenAll(subscriber, mempool.subscription.channel)
                      /\ tip = mempool.subscription.chain_tip
    OBVIOUS
  <2> SUFFICES ASSUME subscriber.step = "attached", mempool.subscription.connected, faults.lost = 0
               PROVE  /\ v.inflight = Tracked /\ v.tip = tip
                      /\ v.committed = UNION {store.chain[i] : i \in 1 .. v.tip}
    BY <2>1 DEF SubscriberInSync
  <2>2. Follows(v, Nodes(mempool.transactions), tip, store.chain)
    BY <1>1, <2>1 DEF ChainInv, Listening, CaughtUp
  <2>3. v.inflight = Tracked /\ v.tip = tip
    BY <2>2 DEF Follows, Tracked
  <2>4. \A t : t \in v.committed <=> \E i \in 1 .. tip : t \in store.chain[i]
    BY <2>2 DEF Follows
  <2>5. v.committed = UNION {store.chain[i] : i \in 1 .. tip}
    BY <2>4
  <2> QED BY <2>3, <2>5
<1>2. ChainInv => SubscriberInSync
  BY <1>1
<1> QED BY <1>2, ChainInvariant, PTL

(* The inflight state is what the tracked and the retained transactions     *)
(* make of it, whatever happened; and it is at the store's tip unless a     *)
(* reply of the store was lost or the mempool has panicked.                 *)
THEOREM InflightExactAlways ==
    Spec => [](/\ AccountChains /\ NotesExact
               /\ faults.lost = 0 /\ ~mempool.panicked => InflightExact)
<1>1. ASSUME Inv, ChainInv, faults.lost = 0, ~mempool.panicked PROVE ChainTipInSync
  <2>1. TipsMatch /\ mempool.chain_tip = mempool.state.chain_tip
    BY <1>1 DEF Inv, Consistent, Sound, ChainInv, Reported
  <2> QED BY <2>1 DEF TipsMatch, ChainTipInSync
<1>2. Inv /\ ChainInv => /\ AccountChains /\ NotesExact
                         /\ faults.lost = 0 /\ ~mempool.panicked => InflightExact
  BY <1>1, ChainsFollow, NotesFollow DEF InflightExact
<1> QED BY <1>2, Invariant, ChainInvariant, PTL
=============================================================================

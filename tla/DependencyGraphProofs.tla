----------------------- MODULE DependencyGraphProofs -----------------------
(***************************************************************************)
(* Proofs about the dependency graph, for every set of keys.  Each method  *)
(* keeps a graph WellFormed (BasicLemmas), which is the                    *)
(* inductive invariant of the state machine.  Each method call is then     *)
(* shown to be a step of TaskOrder, and that no such step closes a cycle   *)
(* gives NeverStuck.                                                       *)
(***************************************************************************)
EXTENDS DependencyGraphMachine, BasicLemmas

-----------------------------------------------------------------------------
IInv == WellFormed(graph, Key) /\ result \in Results \ {"Panic"}

(***************************************************************************)
(* The empty graph of DependencyGraph::default() satisfies the invariant.  *)
(***************************************************************************)
LEMMA InitInv == Init => IInv
<1> SUFFICES WellFormed(EmptyGraph, Key)
  BY DEF Init, IInv, Results
<1> QED BY DEF EmptyGraph, WellFormed, GraphType, Mirrored, InOrder, RootsOf, Nodes

(***************************************************************************)
(* Every method call, whatever its arguments and whatever it returns,      *)
(* preserves the invariant.                                                *)
(***************************************************************************)
LEMMA NextInv == IInv /\ [Next]_vars => IInv'
<1> SUFFICES ASSUME IInv, [Next]_vars
             PROVE  IInv'
  OBVIOUS
<1> USE DEF IInv, Call
<1>1. ASSUME NEW key \in Key, NEW parents \in SUBSET Key, InsertPending(key, parents)
      PROVE  IInv'
  <2>1. insert_pending_result(graph, key, parents) \in Results \ {"Panic"}
    BY DEF insert_pending_result, Results
  <2> QED BY <1>1, <2>1, InsertPendingOK DEF InsertPending
<1>2. ASSUME NEW key \in Key, PromotePending(key)
      PROVE  IInv'
  <2>1. CASE key \in graph.pending
    <3>1. promote_pending_result(graph, key) = "Ok"
      BY <2>1, PromotePendingOK DEF promote_pending_result
    <3> QED BY <1>2, <2>1, <3>1, PromotePendingOK DEF PromotePending, Results
  <2>2. CASE key \notin graph.pending
    <3>1. promote_pending_result(graph, key) = "InvalidPendingNode"
      BY <2>2 DEF promote_pending_result
    <3> QED BY <1>2, <3>1 DEF PromotePending, Results
  <2> QED BY <2>1, <2>2
<1>3. ASSUME NEW keys \in SUBSET Key, RevertSubgraphs(keys)
      PROVE  IInv'
  <2>1. CASE keys \subseteq graph.vertices /\ keys \subseteq graph.processed
    <3>1. revert_subgraphs_result(graph, keys) = "Ok"
      BY <2>1, RevertSubgraphsOK DEF revert_subgraphs_result
    <3> QED BY <1>3, <2>1, <3>1, RevertSubgraphsOK DEF RevertSubgraphs, Results
  <2>2. CASE ~(keys \subseteq graph.vertices /\ keys \subseteq graph.processed)
    <3>1. revert_subgraphs_result(graph, keys) \in {"UnknownNodes", "UnprocessedNodes"}
      BY <2>2 DEF revert_subgraphs_result
    <3> QED BY <1>3, <3>1 DEF RevertSubgraphs, Results
  <2> QED BY <2>1, <2>2
<1>4. ASSUME NEW keys \in SUBSET Key, PruneProcessed(keys)
      PROVE  IInv'
  <2>1. prune_processed_result(graph, keys) \in Results \ {"Panic"}
    BY DEF prune_processed_result, Results
  <2> QED BY <1>4, <2>1, PruneProcessedOK DEF PruneProcessed
<1>5. ASSUME NEW keys \in SUBSET Key, PurgeSubgraphs(keys)
      PROVE  IInv'
  <2>1. purge_subgraphs_result(graph, keys) \in Results \ {"Panic"}
    BY DEF purge_subgraphs_result, Results
  <2>2. purge_subgraphs_result(graph, keys) = "Ok" => keys \subseteq Nodes(graph)
    BY DEF purge_subgraphs_result, contains, Nodes
  <2> QED BY <1>5, <2>1, <2>2, PurgeSubgraphsOK DEF PurgeSubgraphs
<1>6. ASSUME NEW key \in Key, ProcessRoot(key)
      PROVE  IInv'
  <2>1. CASE key \in graph.roots
    <3>1. process_root_result(graph, key) = "Ok"
      BY <2>1, ProcessRootOK DEF process_root_result
    <3> QED BY <1>6, <2>1, <3>1, ProcessRootOK DEF ProcessRoot, Results
  <2>2. CASE key \notin graph.roots
    <3>1. process_root_result(graph, key) = "InvalidRootNode"
      BY <2>2 DEF process_root_result
    <3> QED BY <1>6, <3>1 DEF ProcessRoot, Results
  <2> QED BY <2>1, <2>2
<1>7. CASE UNCHANGED vars
  BY <1>7 DEF vars
<1> QED BY <1>1, <1>2, <1>3, <1>4, <1>5, <1>6, <1>7 DEF Next

(***************************************************************************)
(* For every set of keys, every sequence of method calls keeps the graph   *)
(* well-formed.                                                            *)
(***************************************************************************)
THEOREM Invariance == Spec => []IInv
BY InitInv, NextInv, PTL DEF Spec

(***************************************************************************)
(* Type correctness of the dependency graph.                               *)
(***************************************************************************)
THEOREM TypeCorrect == Spec => []TypeOK
<1>1. IInv => TypeOK
  BY DEF IInv, TypeOK, WellFormed
<1> QED BY <1>1, Invariance, PTL

(***************************************************************************)
(* The roots offered to select_batch and select_block are exactly the      *)
(* unprocessed nodes with only processed parents, and no debug_assert of   *)
(* try_make_root fires.                                                    *)
(***************************************************************************)
THEOREM RootsAlwaysExact == Spec => []RootsExact
<1>1. IInv => RootsExact
  BY DEF IInv, RootsExact, NoDebugAssert, WellFormed
<1> QED BY <1>1, Invariance, PTL

(***************************************************************************)
(* Processed nodes are closed under parents and the two edge maps mirror   *)
(* each other.                                                             *)
(***************************************************************************)
THEOREM ProcessedAlwaysInOrder == Spec => [](ProcessedInOrder /\ EdgesMirrored)
<1>1. IInv => ProcessedInOrder /\ EdgesMirrored
  BY DEF IInv, ProcessedInOrder, EdgesMirrored, WellFormed
<1> QED BY <1>1, Invariance, PTL

-----------------------------------------------------------------------------
(* Refinement.  Following `children' downwards or `parents' upwards finds   *)
(* the same nodes.                                                          *)
LEMMA ReachedIsDependents ==
    ASSUME WellFormed(graph, Key), NEW keys, NEW through \in SUBSET Nodes(graph)
    PROVE  Reached(graph, keys, through) = Order!Dependents(keys, through)
<1>1. Order!Task = Nodes(graph)
  BY DEF Order!Task, Nodes
<1>2. ASSUME NEW T \in SUBSET Nodes(graph)
      PROVE  (\A p \in T : (ChildrenOf(graph, p) \cap through) \subseteq T)
             <=> (\A c \in through : graph.parents[c] \cap T # {} => c \in T)
  <2>1. \A p \in T : ChildrenOf(graph, p) = graph.children[p]
    BY EdgeLookups DEF WellFormed
  <2>2. \A p \in T, c \in through : c \in graph.children[p] <=> p \in graph.parents[c]
    BY DEF WellFormed, Mirrored
  <2> QED BY <2>1, <2>2
<1> QED BY <1>1, <1>2 DEF Reached, Order!Dependents

(***************************************************************************)
(* The initial graph and every method call map to TaskOrder's initial      *)
(* state and to a step or a stutter of TaskOrder; a rejected call is a     *)
(* stutter.                                                                *)
(***************************************************************************)
LEMMA InitRefines == Init => Order!Init
BY DEF Init, Order!Init, EmptyGraph

(* A method call is a step or a stutter of TaskOrder, rejected or not.      *)
LEMMA NextRefines == IInv /\ [Next]_vars => [Order!Next]_(Order!vars)
<1> SUFFICES ASSUME IInv, [Next]_vars
             PROVE  [Order!Next]_(Order!vars)
  OBVIOUS
<1> USE DEF Order!vars
<1>0. /\ WellFormed(graph, Key)
      /\ IsRecord(graph)
      /\ DOMAIN graph.parents = Nodes(graph)
      /\ Order!Task = Nodes(graph)
      /\ graph.processed \subseteq graph.vertices
      /\ Nodes(graph) = graph.pending \cup graph.vertices
      /\ graph.vertices \subseteq Nodes(graph)
  BY TypedIsRecord DEF IInv, Order!Task, Nodes, WellFormed, GraphType
<1>1. ASSUME NEW key \in Key, NEW parents \in SUBSET Key, InsertPending(key, parents)
      PROVE  Order!Next \/ graph' = graph
  <2>1. CASE insert_pending_result(graph, key, parents) = "Ok"
    <3>1. graph' = insert_pending(graph, key, parents)
      BY <1>1, <2>1 DEF InsertPending, Call
    <3>2. Order!Submit(key, parents)
      BY <1>0, <2>1, <3>1, InsertPendingOK DEF Order!Submit
    <3> QED BY <3>2 DEF Order!Next
  <2> QED BY <1>1, <2>1 DEF InsertPending, Call
<1>2. ASSUME NEW key \in Key, PromotePending(key)
      PROVE  Order!Next \/ graph' = graph
  <2>1. CASE promote_pending_result(graph, key) = "Ok"
    <3>1. graph' = promote_pending(graph, key) /\ key \in graph.pending
      BY <1>2, <2>1 DEF PromotePending, Call, promote_pending_result
    <3>2. /\ promote_pending(graph, key).pending = graph.pending \ {key}
          /\ promote_pending(graph, key).vertices = graph.vertices \cup {key}
          /\ promote_pending(graph, key).parents = graph.parents
          /\ promote_pending(graph, key).processed = graph.processed
      BY <1>0 DEF promote_pending, try_make_root, Promoted, IsRecord, Fields
    <3>3. Order!Resolve(key)
      BY <3>1, <3>2 DEF Order!Resolve
    <3> QED BY <3>3 DEF Order!Next
  <2> QED BY <1>2, <2>1 DEF PromotePending, Call
<1>3. ASSUME NEW keys \in SUBSET Key, RevertSubgraphs(keys)
      PROVE  Order!Next \/ graph' = graph
  <2>1. CASE revert_subgraphs_result(graph, keys) = "Ok"
    <3>1. graph' = revert_subgraphs(graph, keys) /\ keys \subseteq graph.processed
      BY <1>3, <2>1 DEF RevertSubgraphs, Call, revert_subgraphs_result
    <3>2. Reached(graph, keys, graph.vertices) = Order!Dependents(keys, graph.vertices)
      BY <1>0, ReachedIsDependents
    <3>3. Order!Requeue(keys)
      BY <1>0, <3>1, <3>2, RevertSubgraphsOK DEF Order!Requeue
    <3> QED BY <3>3 DEF Order!Next
  <2> QED BY <1>3, <2>1 DEF RevertSubgraphs, Call
<1>4. ASSUME NEW keys \in SUBSET Key, PruneProcessed(keys)
      PROVE  Order!Next \/ graph' = graph
  <2>1. CASE prune_processed_result(graph, keys) = "Ok"
    <3>1. graph' = prune_processed(graph, keys)
      BY <1>4, <2>1 DEF PruneProcessed, Call
    <3>2. Order!Forget(keys)
      BY <1>0, <2>1, <3>1, PruneProcessedOK DEF Order!Forget
    <3> QED BY <3>2 DEF Order!Next
  <2> QED BY <1>4, <2>1 DEF PruneProcessed, Call
<1>5. ASSUME NEW keys \in SUBSET Key, PurgeSubgraphs(keys)
      PROVE  Order!Next \/ graph' = graph
  <2>1. CASE purge_subgraphs_result(graph, keys) = "Ok"
    <3>1. graph' = purge_subgraphs(graph, keys) /\ keys \subseteq Nodes(graph)
      BY <1>5, <2>1 DEF PurgeSubgraphs, Call, purge_subgraphs_result, contains, Nodes
    <3>2. Reached(graph, keys, Nodes(graph)) = Order!Dependents(keys, Nodes(graph))
      BY <1>0, ReachedIsDependents
    <3>3. LET R == Reached(graph, keys, Nodes(graph)) IN
          /\ purge_subgraphs(graph, keys).pending = graph.pending \ R
          /\ purge_subgraphs(graph, keys).vertices = graph.vertices \ R
          /\ purge_subgraphs(graph, keys).processed = graph.processed \ R
          /\ purge_subgraphs(graph, keys).parents =
                [k \in Nodes(graph) \ R |-> graph.parents[k]]
      BY <1>0 DEF purge_subgraphs, purge_subgraphs_removed, IsRecord, Fields
    <3>4. Order!Drop(keys)
      BY <1>0, <3>1, <3>2, <3>3 DEF Order!Drop
    <3> QED BY <3>4 DEF Order!Next
  <2> QED BY <1>5, <2>1 DEF PurgeSubgraphs, Call
<1>6. ASSUME NEW key \in Key, ProcessRoot(key)
      PROVE  Order!Next \/ graph' = graph
  <2>1. CASE process_root_result(graph, key) = "Ok"
    <3>1. graph' = process_root(graph, key) /\ key \in graph.roots
      BY <1>6, <2>1 DEF ProcessRoot, Call, process_root_result
    <3>2. key \in graph.vertices \ graph.processed /\ graph.parents[key] \subseteq graph.processed
      BY <1>0, <3>1 DEF WellFormed, RootsOf
    <3>3. Order!Process(key)
      BY <1>0, <3>1, <3>2, ProcessRootOK DEF Order!Process
    <3> QED BY <3>3 DEF Order!Next
  <2> QED BY <1>6, <2>1 DEF ProcessRoot, Call
<1>7. CASE UNCHANGED vars
  BY <1>7 DEF vars
<1> QED BY <1>1, <1>2, <1>3, <1>4, <1>5, <1>6, <1>7 DEF Next

(***************************************************************************)
(* The graph with its `children' and `roots' indexes implements TaskOrder, *)
(* the ordering promise stated without them.                               *)
(***************************************************************************)
THEOREM Refinement == Spec => ImplementsTaskOrder
BY InitRefines, NextRefines, Invariance, PTL DEF Spec, ImplementsTaskOrder, Order!Spec

-----------------------------------------------------------------------------
(***************************************************************************)
(* No method closes a cycle: a node enters with parents that are in the    *)
(* graph and without children.  The argument needs only what TaskOrder     *)
(* says of a step.                                                         *)
(***************************************************************************)
LEMMA AcyclicStep ==
    ASSUME WellFormed(graph, Key), Acyclic(graph), [Order!Next]_(Order!vars)
    PROVE  Acyclic(graph')
<1>0. /\ Order!Task = Nodes(graph)
      /\ Nodes(graph') = graph'.pending \cup graph'.vertices
      /\ \A k \in Nodes(graph) : graph.parents[k] \subseteq Nodes(graph)
  BY EdgeLookups DEF Order!Task, Nodes, WellFormed
<1>1. ASSUME NEW key \in Key, NEW ps \in SUBSET Key, Order!Submit(key, ps)
      PROVE  Acyclic(graph')
  <2>1. /\ key \notin Nodes(graph) /\ ps \subseteq Nodes(graph)
        /\ Nodes(graph') = Nodes(graph) \cup {key}
        /\ graph'.parents = [c \in Nodes(graph) \cup {key} |->
                               IF c = key THEN ps ELSE graph.parents[c]]
    BY <1>0, <1>1 DEF Order!Submit, Nodes
  <2> QED BY <1>0, <2>1, NewNode
<1>2. ASSUME NEW key \in Key, Order!Resolve(key) \/ Order!Process(key)
      PROVE  Acyclic(graph')
  <2>1. Nodes(graph') = Nodes(graph) /\ graph'.parents = graph.parents
    BY <1>0, <1>2 DEF Order!Resolve, Order!Process, Nodes
  <2> QED BY <2>1, FewerEdges
<1>3. ASSUME NEW keys \in SUBSET Key, Order!Requeue(keys)
      PROVE  Acyclic(graph')
  <2>1. Nodes(graph') = Nodes(graph) /\ graph'.parents = graph.parents
    BY <1>0, <1>3 DEF Order!Requeue, Nodes
  <2> QED BY <2>1, FewerEdges
<1>4. ASSUME NEW keys \in SUBSET Key, Order!Forget(keys)
      PROVE  Acyclic(graph')
  <2>1. keys \subseteq graph.vertices /\ graph.pending \cap graph.vertices = {}
    BY <1>4 DEF Order!Forget, WellFormed, GraphType
  <2>2. /\ Nodes(graph') = Nodes(graph) \ keys
        /\ graph'.parents = [c \in Nodes(graph) \ keys |-> graph.parents[c] \ keys]
    BY <1>0, <1>4, <2>1 DEF Order!Forget, Nodes
  <2> QED BY <2>2, FewerEdges
<1>5. ASSUME NEW keys \in SUBSET Key, Order!Drop(keys)
      PROVE  Acyclic(graph')
  <2>1. PICK gone : gone = Order!Dependents(keys, Order!Task)
    OBVIOUS
  <2>2. /\ Nodes(graph') = Nodes(graph) \ gone
        /\ graph'.parents = [c \in Nodes(graph) \ gone |-> graph.parents[c]]
    BY <1>0, <1>5, <2>1 DEF Order!Drop, Nodes
  <2> QED BY <2>2, FewerEdges
<1>6. CASE UNCHANGED Order!vars
  <2>1. Nodes(graph') = Nodes(graph) /\ graph'.parents = graph.parents
    BY <1>0, <1>6 DEF Order!vars, Nodes
  <2> QED BY <2>1, FewerEdges
<1> QED BY <1>1, <1>2, <1>3, <1>4, <1>5, <1>6 DEF Order!Next

(***************************************************************************)
(* The mempool's graph never wedges: as long as a node is unprocessed and  *)
(* none is pending, select_batch and select_block are offered a root.      *)
(***************************************************************************)
THEOREM NeverWedges == Spec => []NeverStuck
<1>1. Init => Acyclic(graph)
  BY DEF Init, Acyclic, EmptyGraph, Nodes
<1>2. IInv /\ Acyclic(graph) /\ [Next]_vars => Acyclic(graph)'
  BY NextRefines, AcyclicStep DEF IInv
<1>3. IInv /\ Acyclic(graph) => NeverStuck
  <2> SUFFICES ASSUME IInv, Acyclic(graph),
                      graph.pending = {}, graph.vertices # graph.processed
               PROVE  graph.roots # {}
    BY DEF NeverStuck
  <2>1. /\ graph.processed \subseteq graph.vertices
        /\ Nodes(graph) = graph.vertices
        /\ \A k \in Nodes(graph) : graph.parents[k] \subseteq Nodes(graph)
    BY DEF IInv, WellFormed, GraphType, Nodes
  <2>2. PICK k \in graph.vertices \ graph.processed :
           graph.parents[k] \cap (graph.vertices \ graph.processed) = {}
    BY <2>1 DEF Acyclic
  <2>3. k \in RootsOf(graph)
    BY <2>1, <2>2 DEF RootsOf
  <2> QED BY <2>3 DEF IInv, WellFormed
<1> QED BY <1>1, <1>2, <1>3, Invariance, PTL DEF Spec
=============================================================================

----------------------- MODULE DependencyGraphMachine -----------------------
(***************************************************************************)
(* The dependency graph as a state machine: every public method, called    *)
(* in any order with any arguments, including those it rejects.            *)
(***************************************************************************)
EXTENDS DependencyGraph

CONSTANT Key    \* the node identifiers (transaction ids, batch ids)

VARIABLES
    graph,      \* the DependencyGraph
    result      \* what the last call returned

vars == <<graph, result>>

Init == graph = EmptyGraph /\ result = "Ok"

(* A call stores what it returns, and the new graph only when that is Ok.   *)
Call(res, g) ==
    /\ result # "Panic"
    /\ result' = res
    /\ graph' = IF res = "Ok" THEN g ELSE graph

InsertPending(key, parents) ==
    Call(insert_pending_result(graph, key, parents), insert_pending(graph, key, parents))

PromotePending(key) ==
    Call(promote_pending_result(graph, key), promote_pending(graph, key))

RevertSubgraphs(keys) ==
    Call(revert_subgraphs_result(graph, keys), revert_subgraphs(graph, keys))

PruneProcessed(keys) ==
    Call(prune_processed_result(graph, keys), prune_processed(graph, keys))

PurgeSubgraphs(keys) ==
    Call(purge_subgraphs_result(graph, keys), purge_subgraphs(graph, keys))

ProcessRoot(key) ==
    Call(process_root_result(graph, key), process_root(graph, key))

Next ==
    \/ \E key \in Key, parents \in SUBSET Key : InsertPending(key, parents)
    \/ \E key \in Key : PromotePending(key)
    \/ \E keys \in SUBSET Key : RevertSubgraphs(keys)
    \/ \E keys \in SUBSET Key : PruneProcessed(keys)
    \/ \E keys \in SUBSET Key : PurgeSubgraphs(keys)
    \/ \E key \in Key : ProcessRoot(key)

Spec == Init /\ [][Next]_vars

-----------------------------------------------------------------------------
Results == {"Ok", "DuplicateKey", "MissingParents", "InvalidPendingNode",
            "UnknownNodes", "UnprocessedNodes", "DanglingNodes",
            "InvalidRootNode", "Panic"}

(***************************************************************************)
(* Types: pending and promoted nodes are disjoint, and both edge maps have *)
(* an entry for exactly the nodes of the graph.                            *)
(***************************************************************************)
TypeOK == GraphType(graph, Key) /\ result \in Results

(***************************************************************************)
(* `parents' and `children', which the code calls redundant with each      *)
(* other, stay inverse relations through every insert, prune and purge.    *)
(***************************************************************************)
EdgesMirrored == Mirrored(graph)

(***************************************************************************)
(* A processed node has only processed parents: no sequence of reverts,    *)
(* purges and prunes leaves a node processed above an unprocessed one.     *)
(***************************************************************************)
ProcessedInOrder == InOrder(graph)

(***************************************************************************)
(* The debug_asserts of try_make_root never fire.                          *)
(***************************************************************************)
NoDebugAssert == result # "Panic"

(***************************************************************************)
(* The incrementally maintained `roots' is what its comment says: exactly  *)
(* the unprocessed nodes whose parents are all processed.  In particular   *)
(* revert_subgraphs misses none although it re-evaluates only its keys and *)
(* the roots of before, and try_make_root finds nothing to complain about. *)
(***************************************************************************)
RootsExact == NoDebugAssert /\ graph.roots = RootsOf(graph)

(***************************************************************************)
(* The graph never wedges: while a node waits and none is pending, some    *)
(* node is a root.  (A cycle, or a parent edge to a removed node, would    *)
(* block its descendants forever.)                                         *)
(***************************************************************************)
NeverStuck ==
    (graph.pending = {} /\ graph.vertices # graph.processed) => graph.roots # {}

(***************************************************************************)
(* Without the two redundant indexes the graph behaves as TaskOrder.       *)
(***************************************************************************)
Order == INSTANCE TaskOrder
    WITH pending <- graph.pending, ready <- graph.vertices,
         parents <- graph.parents, processed <- graph.processed

ImplementsTaskOrder == Order!Spec
=============================================================================

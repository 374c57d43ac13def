-------------------------- MODULE DependencyGraph --------------------------
(***************************************************************************)
(* The dependency graph of the block producer's mempool                    *)
(* (crates/block-producer/src/mempool/graph/mod.rs): nodes are inserted    *)
(* pending, promoted once their data is known, and offered as roots once   *)
(* every parent has been processed.                                        *)
(*                                                                         *)
(* A graph is a value, a record with the fields of the Rust struct; each   *)
(* method m is a pair of operators: m_result(g, ...), what the call        *)
(* returns ("Ok", the GraphError variant, or "Panic" for a debug_assert),  *)
(* and m(g, ...), the graph after a call that returns Ok.  An error leaves *)
(* the graph as it was.  `vertices' keeps only the keys of the Rust map;   *)
(* the node data is never inspected by the graph.                          *)
(***************************************************************************)

EmptyGraph ==
    [pending   |-> {},
     vertices  |-> {},
     parents   |-> [k \in {} |-> {}],
     children  |-> [k \in {} |-> {}],
     roots     |-> {},
     processed |-> {}]

Nodes(g) == g.pending \cup g.vertices

contains(g, key) == key \in g.pending \/ key \in g.vertices

ParentsOf(g, key) == IF key \in DOMAIN g.parents THEN g.parents[key] ELSE {}

ChildrenOf(g, key) == IF key \in DOMAIN g.children THEN g.children[key] ELSE {}

(***************************************************************************)
(* The nodes the work-list loops of revert_subgraphs and purge_subgraphs   *)
(* visit: the least set that holds keys and, with a node, those of its     *)
(* children that are in `through'.                                         *)
(***************************************************************************)
Reached(g, keys, through) ==
    {k \in Nodes(g) :
        \A T \in SUBSET Nodes(g) :
            (/\ keys \subseteq T
             /\ \A p \in T : (ChildrenOf(g, p) \cap through) \subseteq T)
            => k \in T}

-----------------------------------------------------------------------------
(* try_make_root, called for every key of a set.  Pending keys are skipped; *)
(* the two debug_asserts are the precondition.                              *)

try_make_root_asserts(g, keys) ==
    \A k \in keys \ g.pending : k \in g.vertices /\ k \notin g.processed

try_make_root(g, keys) ==
    [g EXCEPT !.roots =
        @ \cup {k \in keys \ g.pending : ParentsOf(g, k) \subseteq g.processed}]

-----------------------------------------------------------------------------
insert_pending_result(g, key, parents) ==
    IF contains(g, key) THEN "DuplicateKey"
    ELSE IF \E p \in parents : ~contains(g, p) THEN "MissingParents"
    ELSE "Ok"

(* Mutant: the parents are not told of their new child.                     *)
insert_pending_one_way(g, key, parents) ==
    [g EXCEPT
        !.pending  = @ \cup {key},
        !.parents  = [k \in DOMAIN @ \cup {key} |-> IF k = key THEN parents ELSE @[k]],
        !.children = [k \in DOMAIN @ \cup {key} |-> IF k = key THEN {} ELSE @[k]]]

insert_pending(g, key, parents) ==
    [g EXCEPT
        !.pending  = @ \cup {key},
        !.parents  = [k \in DOMAIN @ \cup {key} |->
                        IF k = key THEN parents ELSE @[k]],
        !.children = [k \in DOMAIN @ \cup {key} |->
                        IF k = key THEN {}
                        ELSE @[k] \cup (IF k \in parents THEN {key} ELSE {})]]

-----------------------------------------------------------------------------
(* The value is attached to the node before it is evaluated as a root.      *)
Promoted(g, key) ==
    [g EXCEPT !.pending = @ \ {key}, !.vertices = @ \cup {key}]

promote_pending_result(g, key) ==
    IF key \notin g.pending THEN "InvalidPendingNode"
    ELSE IF ~try_make_root_asserts(Promoted(g, key), {key}) THEN "Panic"
    ELSE "Ok"

promote_pending(g, key) == try_make_root(Promoted(g, key), {key})

-----------------------------------------------------------------------------
(* Mutant: descendants stay processed.                                      *)
Unprocessed_shallow(g, keys) ==
    [g EXCEPT !.processed = @ \ keys, !.roots = {}]

(* Mutant: only the descendants are requeued, not the keys themselves.      *)
Unprocessed_below(g, keys) ==
    [g EXCEPT !.processed = @ \ (Reached(g, keys, g.vertices) \ keys), !.roots = {}]

(* Requeue processed nodes and their non-pending descendants.  Only the     *)
(* given keys and the roots of before are evaluated as roots.               *)
Unprocessed(g, keys) ==
    [g EXCEPT !.processed = @ \ Reached(g, keys, g.vertices), !.roots = {}]

revert_subgraphs_result(g, keys) ==
    IF ~(keys \subseteq g.vertices) THEN "UnknownNodes"
    ELSE IF ~(keys \subseteq g.processed) THEN "UnprocessedNodes"
    ELSE IF ~try_make_root_asserts(Unprocessed(g, keys), g.roots \cup keys) THEN "Panic"
    ELSE "Ok"

(* Mutant: the roots of before are forgotten.                               *)
revert_subgraphs_keys_only(g, keys) == try_make_root(Unprocessed(g, keys), keys)

revert_subgraphs(g, keys) ==
    try_make_root(Unprocessed(g, keys), g.roots \cup keys)

-----------------------------------------------------------------------------
(* Mutant: a node may be forgotten while a parent stays.                    *)
prune_processed_result_dangling(g, keys) ==
    IF ~(keys \subseteq g.processed) THEN "UnprocessedNodes" ELSE "Ok"

(* Forget processed nodes none of whose parents stays behind.               *)
prune_processed_result(g, keys) ==
    IF \E k \in keys : ~contains(g, k) THEN "UnknownNodes"
    ELSE IF ~(keys \subseteq g.processed) THEN "UnprocessedNodes"
    ELSE IF \E k \in keys : ~(ParentsOf(g, k) \subseteq keys) THEN "DanglingNodes"
    ELSE "Ok"

(* Mutant: the children keep their edges to pruned parents.                 *)
prune_processed_keeps_edges(g, keys) ==
    [g EXCEPT
        !.vertices  = @ \ keys,
        !.processed = @ \ keys,
        !.parents   = [k \in DOMAIN @ \ keys |-> @[k]],
        !.children  = [k \in DOMAIN @ \ keys |-> @[k]]]

prune_processed(g, keys) ==
    [g EXCEPT
        !.vertices  = @ \ keys,
        !.processed = @ \ keys,
        !.parents   = [k \in DOMAIN @ \ keys |->
                         @[k] \ {p \in keys : k \in ChildrenOf(g, p)}],
        !.children  = [k \in DOMAIN @ \ keys |-> @[k]]]

-----------------------------------------------------------------------------
(* Drop nodes and all their descendants, whatever state these are in.       *)
purge_subgraphs_removed(g, keys) == Reached(g, keys, Nodes(g))

purge_subgraphs_result(g, keys) ==
    IF \E k \in keys : ~contains(g, k) THEN "UnknownNodes" ELSE "Ok"

(* Mutant: purged nodes stay in the roots.                                  *)
purge_subgraphs_keeps_roots(g, keys) ==
    LET removed == purge_subgraphs_removed(g, keys) IN
    [g EXCEPT
        !.pending   = @ \ removed,
        !.vertices  = @ \ removed,
        !.processed = @ \ removed,
        !.parents   = [k \in DOMAIN @ \ removed |-> @[k]],
        !.children  = [k \in DOMAIN @ \ removed |-> @[k] \ removed]]

purge_subgraphs(g, keys) ==
    LET removed == purge_subgraphs_removed(g, keys) IN
    [g EXCEPT
        !.pending   = @ \ removed,
        !.vertices  = @ \ removed,
        !.processed = @ \ removed,
        !.roots     = @ \ removed,
        !.parents   = [k \in DOMAIN @ \ removed |-> @[k]],
        !.children  = [k \in DOMAIN @ \ removed |->
                         @[k] \ {c \in removed : k \in ParentsOf(g, c)}]]

-----------------------------------------------------------------------------
Processed(g, key) ==
    [g EXCEPT !.roots = @ \ {key}, !.processed = @ \cup {key}]

process_root_result(g, key) ==
    IF key \notin g.roots THEN "InvalidRootNode"
    ELSE IF ~try_make_root_asserts(Processed(g, key), ChildrenOf(g, key)) THEN "Panic"
    ELSE "Ok"

process_root(g, key) == try_make_root(Processed(g, key), ChildrenOf(g, key))
-----------------------------------------------------------------------------
(* What keeps a graph sound; DependencyGraphMachine checks and              *)
(* DependencyGraphProofs proves that every method preserves it.             *)

GraphType(g, Key) ==
    /\ g \in [pending   : SUBSET Key,
             vertices  : SUBSET Key,
             parents   : [Nodes(g) -> SUBSET Nodes(g)],
             children  : [Nodes(g) -> SUBSET Nodes(g)],
             roots     : SUBSET g.vertices,
             processed : SUBSET g.vertices]
    /\ g.pending \cap g.vertices = {}

Mirrored(g) ==
    \A p, c \in Nodes(g) : p \in g.parents[c] <=> c \in g.children[p]

InOrder(g) ==
    \A k \in g.processed : g.parents[k] \subseteq g.processed

RootsOf(g) ==
    {k \in g.vertices \ g.processed : g.parents[k] \subseteq g.processed}

WellFormed(g, Key) ==
    GraphType(g, Key) /\ Mirrored(g) /\ InOrder(g) /\ g.roots = RootsOf(g)
=============================================================================

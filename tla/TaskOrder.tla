----------------------------- MODULE TaskOrder -----------------------------
(***************************************************************************)
(* What the mempool's dependency graph promises, without the indexes the   *)
(* code maintains (`children' and `roots'): a task may be processed only   *)
(* after all its parents, requeueing a task requeues what depends on it,   *)
(* a task is forgotten only together with (or after) its parents, and a    *)
(* dropped task takes its dependents along.  DependencyGraphMachine        *)
(* implements it.                                                          *)
(***************************************************************************)
CONSTANT Key

VARIABLES pending, ready, parents, processed

vars == <<pending, ready, parents, processed>>

Task == pending \cup ready

(* The least set that holds keys and every task of `through' with a parent in it. *)
Dependents(keys, through) ==
    {k \in Task :
        \A T \in SUBSET Task :
            (/\ keys \subseteq T
             /\ \A c \in through : parents[c] \cap T # {} => c \in T)
            => k \in T}

Init ==
    /\ pending = {}
    /\ ready = {}
    /\ parents = [k \in {} |-> {}]
    /\ processed = {}

Submit(k, ps) ==
    /\ k \notin Task
    /\ ps \subseteq Task
    /\ pending' = pending \cup {k}
    /\ parents' = [c \in Task \cup {k} |-> IF c = k THEN ps ELSE parents[c]]
    /\ UNCHANGED <<ready, processed>>

Resolve(k) ==
    /\ k \in pending
    /\ pending' = pending \ {k}
    /\ ready' = ready \cup {k}
    /\ UNCHANGED <<parents, processed>>

Process(k) ==
    /\ k \in ready \ processed
    /\ parents[k] \subseteq processed
    /\ processed' = processed \cup {k}
    /\ UNCHANGED <<pending, ready, parents>>

Requeue(keys) ==
    /\ keys \subseteq processed
    /\ processed' = processed \ Dependents(keys, ready)
    /\ UNCHANGED <<pending, ready, parents>>

Forget(keys) ==
    /\ keys \subseteq processed
    /\ \A k \in keys : parents[k] \subseteq keys
    /\ ready' = ready \ keys
    /\ processed' = processed \ keys
    /\ parents' = [c \in Task \ keys |-> parents[c] \ keys]
    /\ UNCHANGED pending

Drop(keys) ==
    /\ keys \subseteq Task
    /\ LET gone == Dependents(keys, Task) IN
        /\ pending' = pending \ gone
        /\ ready' = ready \ gone
        /\ processed' = processed \ gone
        /\ parents' = [c \in Task \ gone |-> parents[c]]

Next ==
    \/ \E k \in Key, ps \in SUBSET Key : Submit(k, ps)
    \/ \E k \in Key : Resolve(k) \/ Process(k)
    \/ \E keys \in SUBSET Key : Requeue(keys) \/ Forget(keys) \/ Drop(keys)

Spec == Init /\ [][Next]_vars
=============================================================================

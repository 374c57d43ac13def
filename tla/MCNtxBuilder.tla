----------------------------- MODULE MCNtxBuilder -----------------------------
(***************************************************************************)
(* Instances of NtxBuilder for TLC.  Notes 1 and 2 are for network account *)
(* a; u, a network account that its transaction creates, and v send them.  *)
(* The network transactions are all that the builder can come up with:     *)
(* each viable set of notes at each state of a.                            *)
(***************************************************************************)
EXTENDS NtxBuilder

CONSTANTS a, u, v

MCTx(account, initial, consumes, creates) ==
    [account |-> account, initial |-> initial, final |-> initial + 1,
     consumes |-> consumes, unauthenticated |-> consumes, creates |-> creates,
     expires |-> 0]

MCAccount == {a, u, v}
MCNetwork == {a, u}
MCTargets == [n \in {1, 2} |-> a]
MCOneNoteEach == [n \in {1, 2} |-> IF n = 1 THEN a ELSE u]
MCExisting == [x \in MCAccount |-> IF x = a THEN 1 ELSE 0]

MCConsumers ==
    << MCTx(a, 1, {1}, {}), MCTx(a, 1, {2}, {}), MCTx(a, 1, {1, 2}, {}),
       MCTx(a, 2, {1}, {}), MCTx(a, 2, {2}, {}) >>

(* Creators of notes have the larger ids, or the smaller ones.              *)
MCConsumersFirst == MCConsumers \o << MCTx(u, 0, {}, {1}), MCTx(v, 0, {}, {2}) >>
MCCreatorsFirst == << MCTx(u, 0, {}, {1}), MCTx(v, 0, {}, {2}) >> \o MCConsumers

(* What may be reverted: everything but the creation of u.                  *)
MCAllButCreation == 1 .. 5 \cup {7}
=============================================================================

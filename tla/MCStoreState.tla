---------------------------- MODULE MCStoreState ----------------------------
(* Model-checking instances of StoreState.                                 *)
EXTENDS StoreState

CallSymmetry == Permutations(ApplyCall)
=============================================================================

------------------------- MODULE MCDependencyGraph -------------------------
(* Model-checking instance of DependencyGraphMachine.                      *)
EXTENDS DependencyGraphMachine, TLC

KeySymmetry == Permutations(Key)
=============================================================================

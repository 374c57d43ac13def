--------------------------- MODULE MCProverProxy ---------------------------
(* Two workers, and two requests for a queue of one. *)
EXTENDS ProverProxy

CONSTANTS w1, w2

MCInitialWorkers == <<w1, w2>>
=============================================================================

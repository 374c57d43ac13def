------------------------------ MODULE MCFaucet ------------------------------
(* Two clients of one account and a client of another one, with one API key. *)
EXTENDS Faucet

CONSTANTS c1, c2, c3, a1, a2, k1

MCAccountOf == [c \in Clients |-> IF c = c3 THEN a2 ELSE a1]
MCKeyOf == [c \in Clients |-> k1]
\* Not deployed yet, and deployed at genesis.
MCGenesis == {<< >>, <<0>>}
=============================================================================

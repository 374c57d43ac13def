--------------------------- MODULE MCBlockProducer ---------------------------
(***************************************************************************)
(* Instances of BlockProducer for TLC.  Transaction 2 creates the account  *)
(* alice and a note; 1 creates the account bob and consumes the note       *)
(* before it is committed; 3 updates alice after 2.  The numbers are not   *)
(* in the order of the dependencies, since transaction ids are hashes.     *)
(***************************************************************************)
EXTENDS BlockProducer

CONSTANTS alice, bob, note

MCAccount == {alice, bob}
MCNote == {note}
MCGenesisAccounts == [x \in MCAccount |-> 0]

MCTx(account, initial, consumes, creates, expires) ==
    [account |-> account, initial |-> initial, final |-> initial + 1,
     consumes |-> consumes, unauthenticated |-> consumes, creates |-> creates,
     expires |-> expires]

(* The parent of both others expires first.                                 *)
MCFamily == << MCTx(bob, 0, {note}, {}, 4), MCTx(alice, 0, {}, {note}, 3), MCTx(alice, 1, {}, {}, 4) >>

(* A dependent pair; the child's expiration comes first.                    *)
MCPair == << MCTx(bob, 0, {note}, {}, 1), MCTx(alice, 0, {}, {note}, 2) >>

MCBatchOf(txs) ==
    [transactions |-> txs, accounts |-> 2, input_notes |-> 2, output_notes |-> 2]
MCBatchOf1 == MCBatchOf(1)
MCBatchOf2 == MCBatchOf(2)
=============================================================================

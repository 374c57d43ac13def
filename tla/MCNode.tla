------------------------------- MODULE MCNode -------------------------------
(***************************************************************************)
(* An instance of Node for TLC.  The configurations have one or two faucet *)
(* entries, possibly of the same symbol, and up to three wallets with at    *)
(* most two assets each; some are refused, for each of the reasons.        *)
(***************************************************************************)
EXTENDS Node

MCFaucet(s, n) == [symbol |-> s, max_supply |-> n]
MCFaucets == {<<MCFaucet("A", 3)>>, <<MCFaucet("A", 6)>>,
              <<MCFaucet("A", 3), MCFaucet("A", 1)>>,
              <<MCFaucet("A", 3), MCFaucet("B", 1)>>}

MCAsset(s, n) == [symbol |-> s, amount |-> n]
MCWallets == {<<>>,
              << <<MCAsset("A", 1)>>, <<MCAsset("A", 2)>> >>,
              << <<MCAsset("A", 1), MCAsset("A", 1)>>, <<MCAsset("B", 1)>> >>,
              << <<MCAsset("A", 2)>>, <<MCAsset("A", 2)>> >>,
              << <<MCAsset("A", 4), MCAsset("A", 2)>> >>,
              << <<MCAsset("A", 4)>>, <<MCAsset("A", 4)>>, <<MCAsset("A", 4)>> >>}

MCAcceptHeader == [t \in Tx |-> CASE t = "t" -> "this release"
                                   [] t = "late" -> "other release"
                                   [] OTHER -> "absent"]

MCConfig == [faucets : MCFaucets, wallets : MCWallets]
=============================================================================

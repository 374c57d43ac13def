------------------------------- MODULE MCSync -------------------------------
(* Blocks of a public account, a private account and their notes. *)
EXTENDS Sync, TLC

Delta(storage, fungible, nfts) ==
    [nonce |-> 1, storage |-> storage, fungible |-> fungible, nfts |-> nfts]

Public(delta) == [id |-> "public", type |-> "delta", delta |-> delta]
Private == [id |-> "private", type |-> "private"]
Created == [id |-> "created", type |-> "new",
            account |-> [NewAccount EXCEPT !.nonce = 1, !.storage["slot"] = 1, !.nfts = {"nft"}]]
CreatedTakes(nfts) == [id |-> "created", type |-> "delta", delta |-> Delta(NoEntries, NoEntries, nfts)]

Note(id, sender, tag, network, nullifier) ==
    [id |-> id, sender |-> sender, tag |-> tag, network |-> network, nullifier |-> nullifier]
N1 == Note("n1", "public", "tag", TRUE, "null1")
N2 == Note("n2", "public", "other", TRUE, "null2")
N3 == Note("n3", "private", "tag", FALSE, "none")
N4 == Note("n4", "private", "other", TRUE, "null4")

Content(accounts, notes, nullifiers) ==
    [accounts |-> accounts, notes |-> notes, nullifiers |-> nullifiers]

MCGenesisAccounts ==
    {[id |-> "public", type |-> "new",
      account |-> [NewAccount EXCEPT !.nonce = 1, !.fungible["faucet"] = 1, !.nfts = {"nft"}]]}

MCContents ==
    {Content({Public(Delta("slot" :> 1, "faucet" :> (-1), "nft" :> "remove"))}, <<N1, N2>>, {}),
     Content({Public(Delta("slot" :> 2, "faucet" :> 2, NoEntries)), Private}, << >>, {"null1"}),
     Content({Public(Delta(NoEntries, NoEntries, "nft" :> "add"))}, << >>, {}),
     Content({Private}, <<N3>>, {}),
     Content({Private}, <<N4>>, {"null2"}),
     Content({Created}, << >>, {}),
     Content({CreatedTakes("nft" :> "remove")}, << >>, {}),
     Content({}, << >>, {})}

Reader(kind, ids, tags) ==
    [kind |-> kind, ids |-> ids, tags |-> tags, nullifiers |-> {"null1", "null2"}, size |-> 1,
     notes |-> {}, refs |-> {}]
Inputs(notes, refs) ==
    [Reader("inputs", {}, {}) EXCEPT !.notes = notes, !.refs = refs]
MCReaders ==
    {Reader("state", {"public", "created"}, {"tag"}),
     Reader("notes", {}, {"tag"}),
     Reader("pages", {}, {}),
     Inputs({"n1", "n3"}, {}),
     Inputs({"n3"}, {0, 2})}
=============================================================================

------------------------------ MODULE Database ------------------------------
(***************************************************************************)
(* The store's SQLite database (crates/store/src/db): the tables, the      *)
(* statements that write a block, and the queries behind the store's       *)
(* endpoints, as operators on one database value.  Every statement of a    *)
(* block and every query runs inside one database transaction              *)
(* (Db::transact), so each operator here is one atomic step of its user.   *)
(*                                                                         *)
(* The commitment of a public account is its state (a hash is taken to be  *)
(* injective), that of a private account an opaque value.  A storage item  *)
(* is a value slot or one key of a map slot: both tables have the same     *)
(* columns and are merged by the same rule.                                *)
(***************************************************************************)
EXTENDS Integers, Sequences, FiniteSets, FiniteSetsExt, SequencesExt, Functions

CONSTANTS
    Items,    \* storage items of an account
    Faucets,  \* faucets of fungible assets
    Nfts,     \* non-fungible assets
    Limit     \* QueryParam*Limit::LIMIT

\* A partial function is a function on a subset of S.
PartialFunctions(S, T) == UNION {[D -> T] : D \in SUBSET S}
NoEntries == [x \in {} |-> x]

\* The entries of one and, where it has none, those of the other.
Overlay(f, g) ==
    [x \in DOMAIN f \cup DOMAIN g |-> IF x \in DOMAIN f THEN f[x] ELSE g[x]]

\* ORDER BY: a set of numbers in ascending order.
Ascending(S) ==
    CHOOSE s \in [1 .. Cardinality(S) -> S] : \A i, j \in DOMAIN s : i < j => s[i] < s[j]

\* The tables.  notes is a sequence: a row's index is its rowid.
EmptyDb ==
    [headers    |-> {},         \* block_headers
     accounts   |-> NoEntries,  \* id -> [commitment, block, details]
     deltas     |-> {},         \* the account_deltas row with its four detail tables
     notes      |-> << >>,
     nullifiers |-> {},         \* [nullifier, block]
     txs        |-> {}]         \* [tx, account, block]

\* NULL in the details column, and a query without a result.
NoDetails == NoEntries

\* QueryParamLimiter::check
WithinLimit(S) == Cardinality(S) <= Limit

-----------------------------------------------------------------------------
(* Account states and deltas. *)

NewAccount ==
    [nonce |-> 0, storage |-> [i \in Items |-> 0],
     fungible |-> [f \in Faucets |-> 0], nfts |-> {}]

Entry(f, k, default) == IF k \in DOMAIN f THEN f[k] ELSE default

\* Account::apply_delta (external).
ApplyDelta(account, delta) ==
    [nonce    |-> account.nonce + delta.nonce,
     storage  |-> [i \in Items |-> Entry(delta.storage, i, account.storage[i])],
     fungible |-> [f \in Faucets |-> account.fungible[f] + Entry(delta.fungible, f, 0)],
     nfts     |-> {n \in Nfts : Entry(delta.nfts, n,
                                      IF n \in account.nfts THEN "add" ELSE "remove") = "add"}]

\* The delta's assets are there to be taken, and are not there to be added.
DeltaFits(account, delta) ==
    /\ \A f \in DOMAIN delta.fungible : account.fungible[f] + delta.fungible[f] >= 0
    /\ \A n \in DOMAIN delta.nfts : (delta.nfts[n] = "add") <=> (n \notin account.nfts)

\* build_insert_delta: every slot and asset of a new account.
BuildInsertDelta(account) ==
    [nonce    |-> account.nonce,
     storage  |-> account.storage,
     fungible |-> [f \in {g \in Faucets : account.fungible[g] > 0} |-> account.fungible[f]],
     nfts     |-> [n \in account.nfts |-> "add"]]

-----------------------------------------------------------------------------
(* Writing a block: apply_block, statement by statement. *)

\* What upsert_accounts checks of an update: a delta needs a public account in
\* the table, and the new state must have the commitment of the block.
UpdateAccepted(db, u) ==
    CASE u.type = "private" -> TRUE
      [] u.type = "new"     -> u.account = u.commitment
      [] u.type = "delta"   ->
            /\ u.id \in DOMAIN db.accounts
            /\ db.accounts[u.id].details # NoDetails
            /\ DeltaFits(db.accounts[u.id].details, u.delta)
            /\ ApplyDelta(db.accounts[u.id].details, u.delta) = u.commitment

UpdatedDetails(db, u) ==
    CASE u.type = "private" -> NoDetails
      [] u.type = "new"     -> u.account
      [] u.type = "delta"   -> ApplyDelta(db.accounts[u.id].details, u.delta)

InsertedDelta(u) == IF u.type = "new" THEN BuildInsertDelta(u.account) ELSE u.delta

\* insert_account_delta
DeltaRow(u, block) ==
    LET d == InsertedDelta(u)
    IN [account |-> u.id, block |-> block, nonce |-> d.nonce, storage |-> d.storage,
        fungible |-> d.fungible, nfts |-> d.nfts]

\* upsert_accounts: INSERT OR REPLACE of the account's only row.
UpsertAccounts(db, updates, block) ==
    LET ids == {u.id : u \in updates}
        update(id) == CHOOSE u \in updates : u.id = id
        row(id) == [commitment |-> update(id).commitment, block |-> block,
                    details |-> UpdatedDetails(db, update(id))]
    IN [db EXCEPT
          !.accounts = [id \in DOMAIN @ \cup ids |-> IF id \in ids THEN row(id) ELSE @[id]],
          !.deltas = @ \cup {DeltaRow(u, block) : u \in {v \in updates : v.type # "private"}}]

\* insert_notes: a new note is unconsumed.
InsertNotes(db, notes, block) ==
    [db EXCEPT !.notes = @ \o
        [i \in DOMAIN notes |->
           [id |-> notes[i].id, block |-> block, sender |-> notes[i].sender,
            tag |-> notes[i].tag, network |-> notes[i].network,
            nullifier |-> notes[i].nullifier, consumed |-> FALSE]]]

\* insert_transactions
InsertTransactions(db, txs, block) ==
    [db EXCEPT !.txs = @ \cup {[tx |-> t.tx, account |-> t.account, block |-> block] : t \in txs}]

\* insert_nullifiers_for_block: marks the notes whose nullifier is known (the
\* public ones) as consumed and records the nullifiers.
InsertNullifiersForBlock(db, nullifiers, block) ==
    LET marked(row) == [row EXCEPT !.consumed = @ \/ row.nullifier \in nullifiers]
    IN [db EXCEPT
          !.notes = [i \in DOMAIN @ |-> marked(@[i])],
          !.nullifiers = @ \cup {[nullifier |-> n, block |-> block] : n \in nullifiers}]

\* The primary keys, foreign keys and checks under which a block is written;
\* otherwise the transaction is rolled back.
BlockAccepted(db, b) ==
    LET accounts == DOMAIN db.accounts \cup {u.id : u \in b.accounts}
    IN /\ b.block \notin db.headers
       /\ \A u \in b.accounts : UpdateAccepted(db, u)
       /\ \A i \in DOMAIN b.notes : b.notes[i].sender \in accounts
       /\ \A t \in b.txs : t.account \in accounts /\ \A r \in db.txs : r.tx # t.tx
       /\ WithinLimit(b.nullifiers)
       /\ \A r \in db.nullifiers : r.nullifier \notin b.nullifiers

\* sql::apply_block
ApplyBlock(db, b) ==
    LET header   == [db EXCEPT !.headers = @ \cup {b.block}]
        accounts == UpsertAccounts(header, b.accounts, b.block)
        notes    == InsertNotes(accounts, b.notes, b.block)
        txs      == InsertTransactions(notes, b.txs, b.block)
    IN InsertNullifiersForBlock(txs, b.nullifiers, b.block)

-----------------------------------------------------------------------------
(* Queries. *)

\* select_block_header_by_block_num(None)
ChainTip(db) == Max(db.headers)

\* select_account
SelectAccount(db, id) == db.accounts[id]

\* What a restart reads: select_all_block_headers, in order of the blocks,
\* select_all_nullifiers and select_all_account_commitments.
SelectAllBlockHeaders(db) == Ascending(db.headers)

SelectAllNullifiers(db) ==
    [n \in {r.nullifier : r \in db.nullifiers} |->
        (CHOOSE r \in db.nullifiers : r.nullifier = n).block]

SelectAllAccountCommitments(db) == [a \in DOMAIN db.accounts |-> db.accounts[a].commitment]

\* select_block_headers: those that are present.
SelectBlockHeaders(db, blocks) == blocks \cap db.headers

\* select_note_inclusion_proofs: the block of every requested note that exists.
SelectNoteInclusionProofs(db, ids) ==
    LET found == {n \in ToSet(db.notes) : n.id \in ids}
    IN [id \in {n.id : n \in found} |-> (CHOOSE n \in found : n.id = id).block]

\* The block ranges of the queries: (start, end].
InRange(block, start, end) == block > start /\ block <= end

\* Mistake: the header's own block is left out.
SelectAccountsBeforeHeader(db, start, end, ids) ==
    {a \in ids \cap DOMAIN db.accounts : InRange(db.accounts[a].block, start, end - 1)}

\* select_accounts_by_block_range: the table has the last change only.
SelectAccountsByBlockRange(db, start, end, ids) ==
    {a \in ids \cap DOMAIN db.accounts : InRange(db.accounts[a].block, start, end)}

\* select_transactions_by_accounts_and_block_range
SelectTransactions(db, start, end, ids) ==
    {r \in db.txs : InRange(r.block, start, end) /\ r.account \in ids}

Match(note, tags, ids) == note.tag \in tags \/ note.sender \in ids

\* Mistake: the block the client already has is searched again.
MatchingBlocksFrom(db, tags, ids, block) ==
    {n.block : n \in {m \in ToSet(db.notes) : Match(m, tags, ids) /\ m.block >= block}}

\* The blocks after the given one that have a matching note.
MatchingBlocks(db, tags, ids, block) ==
    {n.block : n \in {m \in ToSet(db.notes) : Match(m, tags, ids) /\ m.block > block}}

\* select_notes_since_block_by_tag_and_sender: the rowids of the matching notes
\* of the first block after the given one that has any.  The query has no
\* ORDER BY, so they are a set.
SelectNotesSinceBlock(db, tags, ids, block) ==
    LET blocks == MatchingBlocks(db, tags, ids, block)
    IN IF blocks = {} THEN {}
       ELSE {i \in DOMAIN db.notes :
               Match(db.notes[i], tags, ids) /\ db.notes[i].block = Min(blocks)}

\* The block of the note that happens to come first.
FirstBlock(db, notes) == db.notes[CHOOSE i \in notes : TRUE].block

\* Mistake: without notes, the first header.
SyncHeaderFirst(db, notes) == IF notes # {} THEN FirstBlock(db, notes) ELSE Min(db.headers)

\* The header a sync answers with: that of the notes, or the latest one.
SyncHeader(db, notes) == IF notes # {} THEN FirstBlock(db, notes) ELSE ChainTip(db)

\* get_state_sync
GetStateSync(db, block, ids, tags) ==
    LET notes == SelectNotesSinceBlock(db, tags, ids, block)
        header == SyncHeader(db, notes)
    IN [notes |-> notes, header |-> header,
        accounts |-> SelectAccountsByBlockRange(db, block, header, ids),
        txs |-> SelectTransactions(db, block, header, ids)]

\* get_note_sync
GetNoteSync(db, block, tags) ==
    LET notes == SelectNotesSinceBlock(db, tags, {}, block)
    IN [notes |-> notes, header |-> SyncHeader(db, notes)]

\* select_nullifiers_by_prefix, for the nullifiers of the requested prefixes.
SelectNullifiersByPrefix(db, wanted, block) ==
    {r \in db.nullifiers : r.nullifier \in wanted /\ r.block >= block}

NoToken == 0

\* Mistake: the next page starts after the row that did not fit.
NextTokenAfter(sorted, size) == IF Len(sorted) > size THEN sorted[size + 1] + 1 ELSE NoToken

\* The row that was read but does not fit is the token of the next page.
NextToken(sorted, size) == IF Len(sorted) > size THEN sorted[size + 1] ELSE NoToken

\* unconsumed_network_notes: the rows from the token on.
UnconsumedNetworkNotes(db, token, size) ==
    LET rows == {i \in DOMAIN db.notes :
                   db.notes[i].network /\ ~db.notes[i].consumed /\ i >= token}
        sorted == Ascending(rows)
    IN [rows  |-> SubSeq(sorted, 1, Min({size, Len(sorted)})),
        token |-> NextToken(sorted, size)]

-----------------------------------------------------------------------------
(* select_account_delta: the deltas of the blocks in (start, end], merged. *)

\* The value of the last row that has one.
LastValue(rows, item) ==
    LET with == {r \in rows : item \in DOMAIN r.storage}
    IN (CHOOSE r \in with : \A q \in with : q.block <= r.block).storage[item]

\* Mistake: the later action on an asset replaces the earlier one.
MergeNftsLast(merged, row) ==
    [n \in DOMAIN merged \cup DOMAIN row.nfts |-> Entry(row.nfts, n, Entry(merged, n, "add"))]

\* NonFungibleAssetDelta::add and remove (external): opposite actions on an
\* asset cancel.  The same action twice is an error, which DeltaFits excludes.
MergeNfts(merged, row) ==
    LET changed == {n \in Nfts : (n \in DOMAIN merged) # (n \in DOMAIN row.nfts)}
    IN [n \in changed |-> IF n \in DOMAIN merged THEN merged[n] ELSE row.nfts[n]]

NoDelta == NoEntries

SelectAccountDelta(db, account, start, end) ==
    LET rows == {r \in db.deltas : r.account = account /\ InRange(r.block, start, end)}
        sorted == SetToSortSeq(rows, LAMBDA r, q : r.block < q.block)
    IN IF rows = {} THEN NoDelta
       ELSE [nonce    |-> MapThenSumSet(LAMBDA r : r.nonce, rows),
             storage  |-> [i \in UNION {DOMAIN r.storage : r \in rows} |-> LastValue(rows, i)],
             fungible |-> [f \in UNION {DOMAIN r.fungible : r \in rows} |->
                             MapThenSumSet(LAMBDA r : Entry(r.fungible, f, 0), rows)],
             nfts     |-> FoldLeft(MergeNfts, NoEntries, sorted)]
=============================================================================

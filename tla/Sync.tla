-------------------------------- MODULE Sync --------------------------------
(***************************************************************************)
(* Those who follow the chain page by page while it grows: a client of     *)
(* SyncState or SyncNotes, which asks again from the block of the last     *)
(* answer; the network transaction builder, which pages through the        *)
(* unconsumed network notes; and the block producer, which collects the    *)
(* inputs of a batch or a block in several queries.  The store applies     *)
(* each block in one step (StoreState shows that a request sees the        *)
(* database of one block), and the readers do not affect one another, so a *)
(* behaviour has one reader.                                               *)
(***************************************************************************)
EXTENDS Database

CONSTANTS
    GenesisAccounts, \* the account updates of the genesis block
    Contents,        \* what a block may contain; commitments are computed
    Readers,         \* records [kind, ids, tags, nullifiers, size, notes, refs]
    MaxBlocks        \* bound on the chain

ASSUME SyncAssumption ==
    /\ MaxBlocks \in Nat /\ Limit \in Nat
    /\ \A r \in Readers : /\ r.kind \in {"state", "notes", "pages", "inputs"}
                          /\ r.size \in Nat \ {0} /\ r.refs \subseteq Nat
    /\ \A c \in Contents : IsFiniteSet(c.accounts) /\ c.notes \in Seq(ToSet(c.notes))

VARIABLES
    db,      \* the store's database
    memory,  \* InnerState: the MMR, the account tree and the nullifier tree
    past,    \* history: the accounts table as of each block
    reader,  \* who reads
    client,  \* the client's copy of the state it tracks
    pager,   \* get_unconsumed_network_notes of the ntx builder
    inputs   \* get_batch_inputs or get_block_inputs for the block producer

vars == <<db, memory, past, reader, client, pager, inputs>>
store == <<db, memory, past, reader>>

Tip == ChainTip(db)

-----------------------------------------------------------------------------
(* The chain. *)

\* The final state commitment of an update, which the block carries.
WithCommitment(d, u, block) ==
    LET final == CASE u.type = "private" -> block
                   [] u.type = "new"     -> u.account
                   [] u.type = "delta"   -> ApplyDelta(d.accounts[u.id].details, u.delta)
    IN Overlay([commitment |-> final], u)

BlockOf(d, c, block) ==
    [block |-> block,
     accounts |-> {WithCommitment(d, u, block) : u \in c.accounts},
     notes |-> c.notes,
     nullifiers |-> c.nullifiers,
     txs |-> {[tx |-> <<u.id, block>>, account |-> u.id] : u \in c.accounts}]

\* A block that can follow: its deltas fit, and its notes are new and, when
\* consumed, exist.
Possible(c) ==
    /\ \A u \in c.accounts :
          CASE u.type = "new"     -> u.id \notin DOMAIN db.accounts
            [] u.type = "delta"   -> /\ u.id \in DOMAIN db.accounts
                                     /\ DeltaFits(db.accounts[u.id].details, u.delta)
            [] u.type = "private" -> TRUE
    /\ \A n \in ToSet(c.notes) : \A m \in ToSet(db.notes) : n.id # m.id
    /\ \A n \in c.nullifiers : \E m \in ToSet(db.notes) : m.nullifier = n

\* Db::bootstrap writes the genesis block: accounts only.
GenesisDb ==
    ApplyBlock(EmptyDb, [block |-> 0, notes |-> << >>, nullifiers |-> {}, txs |-> {},
                         accounts |-> {WithCommitment(EmptyDb, u, 0) : u \in GenesisAccounts}])

\* State::load: the trees and the MMR from the tables.
Load(d) ==
    [mmr |-> SelectAllBlockHeaders(d),
     accounts |-> SelectAllAccountCommitments(d),
     nullifiers |-> SelectAllNullifiers(d)]

\* Mistake: the account tree is given the new accounts only.
Mutated_new_accounts(m, b) ==
    [mmr |-> Append(m.mmr, b.block),
     accounts |-> Overlay(m.accounts, [a \in {u.id : u \in b.accounts} |->
                                         (CHOOSE u \in b.accounts : u.id = a).commitment]),
     nullifiers |-> Overlay([n \in b.nullifiers |-> b.block], m.nullifiers)]

\* The mutations of the trees that apply_block computes and applies.
Mutated(m, b) ==
    [mmr |-> Append(m.mmr, b.block),
     accounts |-> Overlay([a \in {u.id : u \in b.accounts} |->
                             (CHOOSE u \in b.accounts : u.id = a).commitment], m.accounts),
     nullifiers |-> Overlay([n \in b.nullifiers |-> b.block], m.nullifiers)]

\* State::apply_block, as StoreState shows it: one step.
ApplyNextBlock ==
    /\ Tip < MaxBlocks
    /\ \E c \in Contents :
         LET b == BlockOf(db, c, Tip + 1)
         IN /\ Possible(c)
            /\ b.nullifiers \cap DOMAIN memory.nullifiers = {}
            /\ BlockAccepted(db, b)
            /\ db' = ApplyBlock(db, b)
            /\ memory' = Mutated(memory, b)
            /\ past' = Append(past, memory'.accounts)
    /\ UNCHANGED <<reader, client, pager, inputs>>

NoInputs == [pc |-> "start", proofs |-> NoEntries, blocks |-> {}, reference |-> 0,
             accounts |-> NoEntries, headers |-> {}]

\* The store stops and loads its tables again; the requests it was serving fail.
RestartStore ==
    /\ memory' = Load(db)
    /\ client' = IF client.pc = "answered" THEN [client EXCEPT !.pc = "idle", !.reply = << >>]
                 ELSE client
    /\ inputs' = IF inputs.pc = "done" THEN inputs ELSE NoInputs
    /\ UNCHANGED <<db, past, reader, pager>>

-----------------------------------------------------------------------------
(* SyncState and SyncNotes. *)

\* The MMR delta of State::sync_state from forest block + 1 to forest header,
\* as the blocks it adds; a forest of n trees has the blocks 0 .. n - 1.
MmrDelta(block, header) ==
    IF block = header THEN << >> ELSE SubSeq(memory.mmr, block + 2, header)

\* The limits the RPC server checks on what a request names.
Requested(r) == WithinLimit(r.ids) /\ WithinLimit(r.tags) /\ WithinLimit(r.nullifiers)

\* The handler's database transaction.
SyncState ==
    /\ reader.kind = "state" /\ client.pc = "idle" /\ Requested(reader)
    /\ \E s \in {GetStateSync(db, client.block, reader.ids, reader.tags)} :
          client' = [client EXCEPT
            !.pc = "answered",
            !.reply = [notes |-> s.notes, header |-> s.header, txs |-> s.txs,
                       accounts |-> [a \in s.accounts |-> SelectAccount(db, a).commitment],
                       mmr |-> MmrDelta(client.block, s.header)]]
    /\ UNCHANGED <<store, pager, inputs>>

\* SyncNotes has no accounts and transactions, and an opening for the header in
\* place of the delta.
SyncNotes ==
    /\ reader.kind = "notes" /\ client.pc = "idle" /\ Requested(reader)
    /\ \E s \in {GetNoteSync(db, client.block, reader.tags)} :
          client' = [client EXCEPT
            !.pc = "answered",
            !.reply = [notes |-> s.notes, header |-> s.header, txs |-> {},
                       accounts |-> NoEntries, mmr |-> << >>]]
    /\ UNCHANGED <<store, pager, inputs>>

\* The client (external) takes the answer over and adds its header to the MMR.
Receive ==
    /\ client.pc = "answered"
    /\ LET r == client.reply
       IN client' = [client EXCEPT
            !.pc = IF r.header = client.block THEN "idle" ELSE "moved",
            !.since = client.block,
            !.block = r.header,
            !.accounts = Overlay(r.accounts, @),
            !.notes = @ \o SetToSeq(r.notes),
            !.txs = @ \o SetToSeq(r.txs),
            !.mmr = IF r.header = client.block \/ reader.kind = "notes" THEN @
                    ELSE @ \o r.mmr \o <<r.header>>,
            !.reply = << >>]
    /\ UNCHANGED <<store, pager, inputs>>

\* The answer is lost: the client asks again from the same block.
LoseReply ==
    /\ client.pc = "answered"
    /\ client' = [client EXCEPT !.pc = "idle", !.reply = << >>]
    /\ UNCHANGED <<store, pager, inputs>>

\* check_nullifiers_by_prefix from the block the client was at before.
CheckNullifiersByPrefix ==
    /\ client.pc = "moved"
    /\ client' = [client EXCEPT
         !.pc = "idle",
         !.nullifiers = @ \cup SelectNullifiersByPrefix(db, reader.nullifiers, client.since)]
    /\ UNCHANGED <<store, pager, inputs>>

\* get_account_details: the latest state, which may be ahead of the client.
GetAccountDetails ==
    /\ client.pc = "idle"
    /\ \E a \in reader.ids \cap DOMAIN db.accounts :
         client' = [client EXCEPT !.accounts = Overlay([x \in {a} |-> SelectAccount(db, a).commitment], @)]
    /\ UNCHANGED <<store, pager, inputs>>

-----------------------------------------------------------------------------
(* StoreClient::get_unconsumed_network_notes *)

NoPages == [pc |-> "start", token |-> NoToken, rows |-> << >>, started |-> 0]

StartPaging ==
    /\ reader.kind = "pages" /\ pager.pc = "start"
    /\ pager' = [NoPages EXCEPT !.pc = "paging", !.started = Len(db.notes)]
    /\ UNCHANGED <<store, client, inputs>>

NextPage ==
    /\ pager.pc = "paging"
    /\ LET page == UnconsumedNetworkNotes(db, pager.token, reader.size)
       IN pager' = [pager EXCEPT !.rows = @ \o page.rows,
                                 !.token = page.token,
                                 !.pc = IF page.token = NoToken THEN "done" ELSE @]
    /\ UNCHANGED <<store, client, inputs>>

\* A request fails: so does load, and with it the builder, which is started
\* again with the node.
PageFails ==
    /\ pager.pc = "paging"
    /\ pager' = NoPages
    /\ UNCHANGED <<store, client, inputs>>

-----------------------------------------------------------------------------
(* get_batch_inputs and get_block_inputs: the database, then the trees under *)
(* the lock, then the database again, with blocks arriving in between.       *)

\* The block producer asks for the notes and reference blocks of its batch (one
\* block at least, or the request is refused) or of its block (maybe none).
InputsRequested(r) == r.kind = "inputs" /\ WithinLimit(r.notes)

SelectNoteProofs ==
    /\ InputsRequested(reader) /\ inputs.pc = "start"
    /\ LET proofs == SelectNoteInclusionProofs(db, reader.notes)
       IN inputs' = [inputs EXCEPT !.pc = "proofs", !.proofs = proofs,
                                   !.blocks = reader.refs \cup Range(proofs)]
    /\ UNCHANGED <<store, client, pager>>

LatestBlock == Len(memory.mmr) - 1

\* Mistake: the reference block stays among the blocks to be proved.
WithoutReference_kept(blocks, latest) == blocks

\* The reference block is not part of the chain the batch proves against.
WithoutReference(blocks, latest) == blocks \ {latest}

OpenWitnesses ==
    /\ inputs.pc = "proofs"
    /\ inputs' = IF \E b \in inputs.blocks : b > LatestBlock
                 THEN [inputs EXCEPT !.pc = "refused"]
                 ELSE [inputs EXCEPT !.pc = "opened", !.reference = LatestBlock,
                                     !.blocks = WithoutReference(@, LatestBlock),
                                     !.accounts = memory.accounts]
    /\ UNCHANGED <<store, client, pager>>

LoadHeaders ==
    /\ inputs.pc = "opened"
    /\ LET wanted == inputs.blocks \cup {inputs.reference}
       IN inputs' = IF WithinLimit(wanted)
                    THEN [inputs EXCEPT !.pc = "done", !.headers = SelectBlockHeaders(db, wanted)]
                    ELSE [inputs EXCEPT !.pc = "refused"]
    /\ UNCHANGED <<store, client, pager>>

-----------------------------------------------------------------------------

Init ==
    /\ db = GenesisDb
    /\ memory = Load(GenesisDb)
    /\ past = <<memory.accounts>>
    /\ reader \in Readers
    /\ client = [pc |-> "idle", block |-> 0, since |-> 0,
                 accounts |-> Restrict(memory.accounts, reader.ids \cap DOMAIN memory.accounts),
                 notes |-> << >>, txs |-> << >>, mmr |-> <<0>>, nullifiers |-> {}, reply |-> << >>]
    /\ pager = NoPages
    /\ inputs = NoInputs

Next ==
    \/ ApplyNextBlock \/ RestartStore
    \/ SyncState \/ SyncNotes \/ Receive \/ LoseReply
    \/ CheckNullifiersByPrefix \/ GetAccountDetails
    \/ StartPaging \/ NextPage \/ PageFails
    \/ SelectNoteProofs \/ OpenWitnesses \/ LoadHeaders

\* The client keeps asking, and not every answer is lost, by the network or a
\* restart; the builder's loop runs on, and fails finitely often; so does a
\* request for inputs.  Nothing forces a block.
Fairness ==
    /\ WF_vars(SyncState) /\ WF_vars(SyncNotes)
    /\ SF_vars(Receive) /\ WF_vars(CheckNullifiersByPrefix)
    /\ WF_vars(StartPaging) /\ WF_vars(NextPage) /\ <>[][~PageFails]_vars
    /\ WF_vars(SelectNoteProofs) /\ SF_vars(OpenWitnesses) /\ SF_vars(LoadHeaders)

Spec == Init /\ [][Next]_vars /\ Fairness

-----------------------------------------------------------------------------
(* Properties *)

\* The shapes of the client's and the pager's state, against the chain so far.
TypeOK ==
    /\ db.headers = 0 .. Tip /\ Tip <= MaxBlocks
    /\ Len(past) = Tip + 1
    /\ client.pc \in {"idle", "answered", "moved"}
    /\ client.since <= client.block /\ client.block \in db.headers
    /\ DOMAIN client.accounts \subseteq reader.ids
    /\ client.nullifiers \subseteq db.nullifiers
    /\ pager.pc \in {"start", "paging", "done"}
    /\ ToSet(pager.rows) \subseteq DOMAIN db.notes
    /\ pager.token \in DOMAIN db.notes \cup {NoToken}
    /\ inputs.pc \in {"start", "proofs", "opened", "done", "refused"}

Tracked(n) == Match(n, reader.tags, IF reader.kind = "state" THEN reader.ids ELSE {})

\* What a client has after any number of answers is exactly what the chain up
\* to its block holds: every matching note and every transaction of its
\* accounts once, whichever blocks the answers jumped over, every nullifier,
\* and an MMR without a gap.  (get_state_sync, select_notes_since_block...)
SyncedExactly ==
    reader.kind \in {"state", "notes"} =>
    /\ IsInjective(client.notes)
    /\ ToSet(client.notes) = {i \in DOMAIN db.notes :
                                Tracked(db.notes[i]) /\ db.notes[i].block <= client.block}
    /\ reader.kind = "state" =>
         /\ client.mmr = [i \in 1 .. (client.block + 1) |-> i - 1]
         /\ IsInjective(client.txs)
         /\ ToSet(client.txs) = {t \in db.txs : t.account \in reader.ids /\ t.block <= client.block}
    /\ client.pc # "moved" =>
         \A r \in db.nullifiers :
            r.nullifier \in reader.nullifiers /\ r.block <= client.block => r \in client.nullifiers

\* The accounts table keeps an account's last change only, so an answer can
\* miss a change of the blocks it covers; but then the account changed again in
\* a later block, which a later answer covers: a client at the tip has the
\* current commitment of every account.  (select_accounts_by_block_range)
NoAccountMissed ==
    reader.kind = "state" =>
    \A a \in reader.ids \cap DOMAIN db.accounts :
        \/ a \in DOMAIN client.accounts /\ client.accounts[a] = db.accounts[a].commitment
        \/ db.accounts[a].block > client.block

\* A client that only ever asks from the block of its last answer follows the
\* chain without a gap, a repetition or an account left behind.
ClientFollowsChain == TypeOK /\ SyncedExactly /\ NoAccountMissed

\* For any two blocks the merged delta, applied to the account's state at the
\* first, gives its state at the second; without a delta nothing changed.
\* (select_account_delta against the accounts table of every block)
DeltaExact ==
    \A a \in {x \in DOMAIN db.accounts : db.accounts[x].details # NoDetails} :
      \A start, end \in db.headers :
        LET before == Entry(past[start + 1], a, NewAccount)
            delta == SelectAccountDelta(db, a, start, end)
        IN start <= end =>
             IF delta = NoDelta THEN Entry(past[end + 1], a, NewAccount) = before
             ELSE DeltaFits(before, delta) /\ ApplyDelta(before, delta) = past[end + 1][a]

\* Blocks arrive and notes are consumed between two pages; still every network
\* note that was there at the start and is unconsumed at the end is returned,
\* and none twice.  (unconsumed_network_notes and the builder's loop)
PagesComplete ==
    pager.pc = "done" =>
    /\ IsInjective(pager.rows)
    /\ \A i \in 1 .. pager.started :
          db.notes[i].network /\ ~db.notes[i].consumed => i \in ToSet(pager.rows)

\* What apply_block adds to the trees and the MMR block by block is what a
\* restart builds from the tables, in the order in which it reads them.
\* (State::apply_block against State::load)
MemoryReloads == memory = Load(db)

\* The three queries behind the inputs of a batch or a block see different
\* moments of the chain, but what they return fits together: the headers are
\* those of the blocks to be proved and of the reference block, which is the
\* latest of them, every proved note is in one of them, and the accounts are
\* those of the reference block.  (State::get_batch_inputs, get_block_inputs)
InputsProvable ==
    inputs.pc = "done" =>
    /\ inputs.headers = inputs.blocks \cup {inputs.reference}
    /\ \A b \in inputs.blocks : b < inputs.reference
    /\ Range(inputs.proofs) \subseteq inputs.headers
    /\ inputs.accounts = past[inputs.reference + 1]

\* Answers put together from several queries, while blocks arrive.
AnswersFit == PagesComplete /\ InputsProvable

\* Once no more blocks arrive the client reaches the tip, the builder gets its
\* last page and the block producer its inputs, or a refusal.
\* (the loops of SyncState, SyncNotes, get_unconsumed_network_notes; get_batch_inputs)
ReadersFinish ==
    /\ reader.kind = "pages" => <>(pager.pc = "done")
    /\ reader.kind = "inputs" => <>(inputs.pc \in {"done", "refused"})
    /\ reader.kind \in {"state", "notes"} => <>[](client.block = Tip)
=============================================================================

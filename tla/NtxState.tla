------------------------------- MODULE NtxState -------------------------------
(***************************************************************************)
(* The network transaction builder's State and AccountState                *)
(* (crates/ntx-builder/src/state/): what it knows of the network accounts, *)
(* their inflight updates and their notes, kept up to date by mempool      *)
(* events.                                                                 *)
(*                                                                         *)
(* A state is a record with the fields of the Rust struct; `panicked' is   *)
(* set by an expect or unwrap that fails and by an error that ends the     *)
(* service.  A note is its nullifier, and NoteTarget gives the account a   *)
(* network note is addressed to, so that nullifier_idx is a set of notes.  *)
(* `committed' below is the store's account states, which fetch_account    *)
(* asks for; 0 is an account that does not exist.                          *)
(***************************************************************************)
EXTENDS Transactions, SequencesExt

CONSTANTS
    NetworkAccounts,    \* account ids of network accounts
    NoteTarget          \* network note -> the network account it is for

NetworkNote == DOMAIN NoteTarget

ASSUME NtxStateAssumption ==
    /\ NetworkAccounts \subseteq Account
    /\ NetworkNote \subseteq Note \cap Nat
    /\ \A n \in NetworkNote : NoteTarget[n] \in NetworkAccounts

expect(s, condition, after) ==
    IF condition /\ ~s.panicked THEN after ELSE [s EXCEPT !.panicked = TRUE]

-----------------------------------------------------------------------------
(* AccountState                                                             *)

from_committed_account(state) ==
    [committed |-> state, inflight |-> <<>>, available |-> {}, nullified |-> {}]

from_uncommitted_account(state) ==
    [committed |-> 0, inflight |-> <<state>>, available |-> {}, nullified |-> {}]

latest_account(acc) ==
    IF acc.inflight = <<>> THEN acc.committed ELSE acc.inflight[Len(acc.inflight)]

(* Mutant: the committed state is not updated.                              *)
commit_delta_forgets(acc) == [acc EXCEPT !.inflight = Tail(@)]

commit_delta(acc) ==
    [acc EXCEPT !.committed = Head(acc.inflight), !.inflight = Tail(@)]

(* Mutant: the oldest delta is reverted.                                    *)
revert_delta_oldest(acc) == [acc EXCEPT !.inflight = Tail(@)]

revert_delta(acc) == [acc EXCEPT !.inflight = SubSeq(@, 1, Len(@) - 1)]

add_note(acc, note) == [acc EXCEPT !.available = @ \cup {note}]

revert_note(acc, note) ==
    [acc EXCEPT !.available = @ \ {note}, !.nullified = @ \ {note}]

(* Mutant: the note stays available.                                        *)
add_nullifier_still_available(acc, note) == [acc EXCEPT !.nullified = @ \cup {note}]

add_nullifier(acc, note) ==
    [acc EXCEPT !.available = @ \ {note}, !.nullified = @ \cup {note}]

commit_nullifier(acc, note) == [acc EXCEPT !.nullified = @ \ {note}]

(* Mutant: the note is dropped with its nullifier.                          *)
revert_nullifier_drops(acc, note) == [acc EXCEPT !.nullified = @ \ {note}]

revert_nullifier(acc, note) ==
    IF note \in acc.nullified
    THEN [acc EXCEPT !.available = @ \cup {note}, !.nullified = @ \ {note}]
    ELSE acc

(* Mutant: inflight state does not count.                                   *)
is_empty_available_only(acc) == acc.available = {}

is_empty(acc) == acc.inflight = <<>> /\ acc.available = {} /\ acc.nullified = {}

-----------------------------------------------------------------------------
NtxState_new ==
    [accounts      |-> [a \in {} |-> from_committed_account(0)],
     queue         |-> <<>>,
     in_progress   |-> {},
     inflight_txs  |-> [t \in {} |-> {}],
     nullifier_idx |-> {},
     panicked      |-> FALSE]

Tracks(s, prefix) == prefix \in DOMAIN s.accounts

WithAccount(s, prefix, acc) == [s EXCEPT !.accounts = (prefix :> acc) @@ @]

WithoutAccount(s, prefix) ==
    [s EXCEPT !.accounts = [a \in DOMAIN @ \ {prefix} |-> @[a]]]

(* The store's account of the prefix, 0 if there is none.                   *)
get_network_account(prefix, committed) == committed[prefix]

(* Mutant: the account is not queued.                                       *)
fetch_account_unqueued(s, prefix, committed) ==
    LET account == get_network_account(prefix, committed)
    IN  IF Tracks(s, prefix) \/ account = 0 THEN s
        ELSE WithAccount(s, prefix, from_committed_account(account))

(* The state once the account, if it exists anywhere, is tracked.           *)
fetch_account(s, prefix, committed) ==
    LET account == get_network_account(prefix, committed)
    IN  IF Tracks(s, prefix) \/ account = 0 THEN s
        ELSE [WithAccount(s, prefix, from_committed_account(account))
                EXCEPT !.queue = Append(@, prefix)]

(* A note for an account that does not exist is skipped.                    *)
FetchAndAddNote(s, note, committed) ==
    LET target  == NoteTarget[note]
        fetched == fetch_account(s, target, committed)
    IN  IF ~Tracks(fetched, target) THEN fetched
        ELSE [fetched EXCEPT !.accounts[target] = add_note(@, note)]

(* load: all unconsumed network notes of the store.                         *)
load(notes, committed) ==
    FoldSet(LAMBDA note, s : FetchAndAddNote(s, note, committed), NtxState_new, notes)

-----------------------------------------------------------------------------
(* select_candidate: once through the rotating queue; empty accounts are    *)
(* pruned on the way.  The result has the candidate's account, or none.     *)

TakeFirst(notes, limit) == {n \in notes : Cardinality({m \in notes : m < n}) < limit}

Pruned(s, prefix) ==
    [WithoutAccount(s, prefix) EXCEPT !.queue = SubSeq(@, 1, Len(@) - 1)]

(* Mutant: the account is not locked.                                       *)
Selected_unlocked(s, prefix) == s

Selected(s, prefix) == [s EXCEPT !.in_progress = @ \cup {prefix}]

select_candidate(s0) ==
    LET scan[i \in 0 .. Len(s0.queue)] ==
          IF i = 0 THEN [s |-> s0, found |-> {}]
          ELSE LET was  == scan[i - 1]
                   head == Head(was.s.queue)
                   s    == [was.s EXCEPT !.queue = Append(Tail(@), head)]
               IN  IF was.found # {} \/ was.s.panicked THEN was
                   ELSE IF head \in s.in_progress THEN [was EXCEPT !.s = s]
                   ELSE IF ~Tracks(s, head) THEN [was EXCEPT !.s.panicked = TRUE]
                   ELSE IF is_empty(s.accounts[head]) THEN [was EXCEPT !.s = Pruned(s, head)]
                   ELSE IF s.accounts[head].available = {} THEN [was EXCEPT !.s = s]
                   ELSE [s |-> Selected(s, head), found |-> {head}]
    IN  scan[Len(s0.queue)]

(* Mutant: the account stays locked.                                        *)
candidate_failed_locked(s, prefix) == s

candidate_failed(s, prefix) == [s EXCEPT !.in_progress = @ \ {prefix}]

-----------------------------------------------------------------------------
(* TransactionAdded.  apply_delta refuses a delta that is not newer than    *)
(* the account it is applied to.                                            *)

(* Mutant: the account stays locked.                                        *)
AddUpdate_locked(s, t, committed) ==
    LET prefix  == account_id(t)
        fetched == fetch_account(s, prefix, committed)
    IN  IF prefix \notin NetworkAccounts THEN s
        ELSE [fetched EXCEPT !.accounts[prefix].inflight = Append(@, final_state(t))]

AddUpdate(s, t, committed) ==
    LET prefix  == account_id(t)
        fetched == fetch_account(s, prefix, committed)
        latest  == latest_account(fetched.accounts[prefix])
    IN  IF prefix \notin NetworkAccounts THEN s
        ELSE IF initial_state(t) = 0
        THEN [WithAccount(s, prefix, from_uncommitted_account(final_state(t)))
                EXCEPT !.queue = Append(@, prefix), !.in_progress = @ \ {prefix}]
        ELSE expect(fetched, Tracks(fetched, prefix) /\ final_state(t) > latest,
                    [fetched EXCEPT
                       !.accounts[prefix].inflight = Append(@, final_state(t)),
                       !.in_progress = @ \ {prefix}])

AddNotes(s, t, committed) ==
    LET notes == output_note_ids(t) \cap NetworkNote IN
    FoldSet(LAMBDA note, acc : FetchAndAddNote(acc, note, committed),
            [s EXCEPT !.nullifier_idx = @ \cup notes], notes)

AddNullifiers(s, notes) ==
    expect(s,
           \A n \in notes : /\ Tracks(s, NoteTarget[n])
                            /\ n \in s.accounts[NoteTarget[n]].available,
           FoldSet(LAMBDA n, acc : [acc EXCEPT !.accounts[NoteTarget[n]] = add_nullifier(@, n)],
                   s, notes))

NoImpact == [account_delta |-> {}, notes |-> {}, nullifiers |-> {}]

add_transaction(s, t, committed) ==
    LET s1     == AddNotes(AddUpdate(s, t, committed), t, committed)
        impact == [account_delta |-> {account_id(t)} \cap NetworkAccounts,
                   notes         |-> output_note_ids(t) \cap NetworkNote,
                   nullifiers    |-> nullifiers(t) \cap s1.nullifier_idx]
        s2     == AddNullifiers(s1, impact.nullifiers)
    IN  IF t \in DOMAIN s.inflight_txs THEN s
        ELSE IF impact = NoImpact THEN s2
        ELSE [s2 EXCEPT !.inflight_txs = (t :> impact) @@ @]

-----------------------------------------------------------------------------
(* BlockCommitted and TransactionsReverted, per transaction.                *)

Forgotten(s, t) == [s EXCEPT !.inflight_txs = [u \in DOMAIN @ \ {t} |-> @[u]]]

(* Applies f to the account of each note that is still tracked.             *)
OnNotes(s, notes, f(_, _)) ==
    [s EXCEPT !.accounts = [a \in DOMAIN @ |->
        FoldSet(LAMBDA n, acc : f(acc, n), @[a], {n \in notes : NoteTarget[n] = a})]]

commit_transaction(s, t) ==
    LET impact  == s.inflight_txs[t]
        updated == impact.account_delta
        s1 == [Forgotten(s, t) EXCEPT
                 !.accounts = [a \in DOMAIN @ |->
                                 IF a \in updated THEN commit_delta(@[a]) ELSE @[a]],
                 !.nullifier_idx = @ \ impact.nullifiers]
    IN  IF t \notin DOMAIN s.inflight_txs THEN s
        ELSE expect(s,
               /\ \A a \in updated : Tracks(s, a) /\ s.accounts[a].inflight # <<>>
               /\ impact.nullifiers \subseteq s.nullifier_idx
               /\ \A n \in impact.nullifiers : Tracks(s, NoteTarget[n]) =>
                     n \in s.accounts[NoteTarget[n]].nullified,
               OnNotes(s1, impact.nullifiers, commit_nullifier))

(* An account whose creation is reverted is dropped, its queue entry stays. *)
RevertUpdate(s, a) ==
    LET acc == revert_delta(s.accounts[a]) IN
    IF acc.committed = 0 /\ acc.inflight = <<>> THEN WithoutAccount(s, a)
    ELSE [s EXCEPT !.accounts[a] = acc]

revert_transaction(s, t) ==
    LET impact  == s.inflight_txs[t]
        updated == impact.account_delta
        s1 == FoldSet(LAMBDA a, acc : RevertUpdate(acc, a), Forgotten(s, t), updated)
        s2 == OnNotes([s1 EXCEPT !.nullifier_idx = @ \ impact.notes], impact.notes, revert_note)
    IN  IF t \notin DOMAIN s.inflight_txs THEN s
        ELSE expect(s,
               /\ \A a \in updated : Tracks(s, a) /\ s.accounts[a].inflight # <<>>
               /\ impact.notes \subseteq s.nullifier_idx
               /\ impact.nullifiers \subseteq s2.nullifier_idx,
               OnNotes(s2, impact.nullifiers, revert_nullifier))

(* An event's transactions are walked in the order of their ids.            *)
InIdOrder(txs) == SetToSortSeq(txs, <)

mempool_update(s, event, committed) ==
    LET txs == InIdOrder(event.txs) IN
    CASE event.type = "added" ->
           FoldLeft(LAMBDA acc, t : add_transaction(acc, t, committed), s, txs)
      [] event.type = "committed" -> FoldLeft(commit_transaction, s, txs)
      [] event.type = "reverted" -> FoldLeft(revert_transaction, s, txs)
=============================================================================

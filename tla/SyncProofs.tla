----------------------------- MODULE SyncProofs -----------------------------
(***************************************************************************)
(* Proofs about those who read the store while the chain grows, for every  *)
(* chain, reader and limit.  ChainOK is the invariant of tables, memory    *)
(* and history; PagerOK, InputsOK and ClientOK say of each reader how what *)
(* it has collected lies in the chain.  A block only adds to the tables    *)
(* what is above all readers (Grown), so each of them survives it.         *)
(***************************************************************************)
EXTENDS Sync, BasicLemmas

-----------------------------------------------------------------------------
(* Ascending sequences. *)

(* s lists the n elements of S, each once, in ascending order.              *)
Lists(s, S, n) ==
    /\ s \in [1 .. n -> S] /\ \A x \in S : \E i \in 1 .. n : s[i] = x
    /\ \A i, j \in 1 .. n : i < j => s[i] < s[j]

LEMMA ListsOnce ==
    ASSUME NEW S, S \subseteq Nat, NEW n \in Nat, NEW s, Lists(s, S, n), NEW t, Lists(t, S, n)
    PROVE  s = t
<1> SUFFICES ASSUME s # t PROVE FALSE
  OBVIOUS
<1> DEFINE D == {i \in 1 .. n : s[i] # t[i]}
<1>1. s \in [1 .. n -> S] /\ t \in [1 .. n -> S]
  BY DEF Lists
<1>2. D \subseteq Nat /\ D # {}
  BY <1>1
<1>3. PICK k \in D : \A j \in D : k <= j
  BY <1>2, LeastNatural
<1>4. k \in 1 .. n /\ s[k] # t[k] /\ s[k] \in S /\ t[k] \in S /\ s[k] \in Nat /\ t[k] \in Nat
  BY <1>1, <1>3
<1>5. \A j \in 1 .. n : j < k => s[j] = t[j] /\ j \in Nat /\ s[j] \in Nat
  <2> SUFFICES ASSUME NEW j \in 1 .. n, j < k PROVE s[j] = t[j] /\ j \in Nat /\ s[j] \in Nat
    OBVIOUS
  <2>1. j \notin D
    BY <1>3, <1>4
  <2>2. s[j] = t[j] /\ j \in Nat
    BY <2>1
  <2>3. s[j] \in S
    BY <1>1
  <2> QED BY <2>2, <2>3
<1> HIDE DEF D
<1>6. PICK p \in 1 .. n : s[p] = t[k]
  BY <1>4 DEF Lists
<1>7. PICK q \in 1 .. n : t[q] = s[k]
  BY <1>4 DEF Lists
<1>8. ~(p < k) /\ ~(q < k)
  BY <1>4, <1>5, <1>6, <1>7 DEF Lists
<1>9. p # k /\ q # k
  BY <1>4, <1>6, <1>7
<1>10. p > k /\ q > k
  BY <1>4, <1>8, <1>9
<1>11. s[k] < s[p] /\ t[k] < t[q]
  BY <1>4, <1>10 DEF Lists
<1> QED BY <1>4, <1>6, <1>7, <1>11

LEMMA AscendingLists ==
    ASSUME NEW S, S \subseteq Nat, IsFiniteSet(S)
    PROVE  Cardinality(S) \in Nat /\ Lists(Ascending(S), S, Cardinality(S))
<1>1. PICK n : n = Cardinality(S)
  OBVIOUS
<1>2. n \in Nat
  BY <1>1, FS_CardinalityType
<1>3. PICK key : key = [x \in S |-> x]
  OBVIOUS
<1>4. \A x \in S : key[x] = x /\ key[x] \in Nat
  BY <1>3
<1>5. Sortable(S, key)
  BY <1>4, Sorting
<1>6. PICK o : Sorts(o, S, key, n)
  BY <1>1, <1>5 DEF Sortable
<1>7. o \in [1 .. n -> S]
  BY <1>6 DEF Sorts
<1>8. \A i, j \in DOMAIN o : i < j => o[i] < o[j]
  <2> SUFFICES ASSUME NEW i \in 1 .. n, NEW j \in 1 .. n, i < j PROVE o[i] < o[j]
    BY <1>7
  <2>1. o[i] # o[j] /\ key[o[i]] <= key[o[j]]
    BY <1>6 DEF Sorts
  <2>2. o[i] \in S /\ o[j] \in S /\ o[i] \in Nat /\ o[j] \in Nat
    BY <1>7
  <2> QED BY <1>4, <2>1, <2>2
<1>9. PICK s : s = Ascending(S)
  OBVIOUS
<1>10. s \in [1 .. n -> S] /\ \A i, j \in DOMAIN s : i < j => s[i] < s[j]
  BY <1>1, <1>7, <1>8, <1>9 DEF Ascending
<1>11. \A i, j \in 1 .. n : i < j => s[i] < s[j]
  BY <1>10
<1>12. \A i \in 1 .. n : s[i] \in S /\ s[i] \in Nat
  BY <1>10
<1>13. PICK T : T = {s[i] : i \in 1 .. n}
  OBVIOUS
<1>14. Numbers(s, 1 .. n, T)
  <2>1. \A i, j \in 1 .. n : i # j => s[i] # s[j]
    BY <1>2, <1>11, <1>12
  <2> QED BY <1>13, <2>1 DEF Numbers
<1>15. IsFiniteSet(1 .. n) /\ Cardinality(1 .. n) = n
  BY <1>2, FS_Interval
<1>16. Cardinality(T) = n
  BY <1>14, <1>15, ImageCardinality
<1>17. T = S
  BY <1>1, <1>12, <1>13, <1>16, FS_Subset
<1> QED BY <1>1, <1>2, <1>9, <1>10, <1>11, <1>13, <1>17 DEF Lists

(* A sequence that lists S is the ascending one.                            *)
LEMMA AscendingIs ==
    ASSUME NEW S, S \subseteq Nat, NEW n \in Nat, NEW s, Lists(s, S, n)
    PROVE  IsFiniteSet(S) /\ Cardinality(S) = n /\ Ascending(S) = s
<1>1. s \in [1 .. n -> S] /\ \A i, j \in 1 .. n : i < j => s[i] < s[j]
  BY DEF Lists
<1>2. \A i \in 1 .. n : s[i] \in Nat
  BY <1>1
<1>3. Numbers(s, 1 .. n, S)
  <2>1. \A i, j \in 1 .. n : i # j => s[i] # s[j]
    BY <1>1, <1>2
  <2>2. S = {s[i] : i \in 1 .. n}
    BY <1>1 DEF Lists
  <2> QED BY <2>1, <2>2 DEF Numbers
<1>4. IsFiniteSet(1 .. n) /\ Cardinality(1 .. n) = n
  BY FS_Interval
<1>5. IsFiniteSet(S) /\ Cardinality(S) = n
  BY <1>3, <1>4, ImageCardinality
<1>6. Lists(Ascending(S), S, n)
  BY <1>5, AscendingLists
<1> QED BY <1>5, <1>6, ListsOnce

(* The numbers up to n in ascending order.                                  *)
LEMMA AscendingInterval ==
    ASSUME NEW n \in Nat
    PROVE  IsFiniteSet(0 .. n) /\ Ascending(0 .. n) = [i \in 1 .. n + 1 |-> i - 1]
<1>1. PICK s : s = [i \in 1 .. n + 1 |-> i - 1]
  OBVIOUS
<1>2. \A x \in 0 .. n : x + 1 \in 1 .. n + 1 /\ s[x + 1] = x
  BY <1>1
<1>3. \A x \in 0 .. n : \E i \in 1 .. n + 1 : s[i] = x
  BY <1>2
<1>4. s \in [1 .. n + 1 -> 0 .. n] /\ \A i, j \in 1 .. n + 1 : i < j => s[i] < s[j]
  BY <1>1
<1>5. Lists(s, 0 .. n, n + 1)
  BY <1>3, <1>4 DEF Lists
<1> QED BY <1>1, <1>5, AscendingIs

LEMMA MaxInterval ==
    ASSUME NEW n \in Nat
    PROVE  Max(0 .. n) = n
BY DEF Max

LEMMA LeastOf ==
    ASSUME NEW S, S \subseteq Nat, S # {}
    PROVE  Min(S) \in S /\ \A x \in S : Min(S) <= x
BY LeastNatural DEF Min

(* A finite set has a sequence of its elements without repetition.          *)
LEMMA SequenceOfSet ==
    ASSUME NEW S, IsFiniteSet(S)
    PROVE  LET s == SetToSeq(S)
           IN  /\ Len(s) \in Nat /\ s \in [1 .. Len(s) -> S]
               /\ IsInjective(s) /\ ToSet(s) = S
<1>1. PICK n : n = Cardinality(S)
  OBVIOUS
<1>2. n \in Nat /\ ExistsBijection(1 .. n, S)
  BY <1>1, FS_CardinalityType
<1>3. PICK f : f \in Bijection(1 .. n, S)
  BY <1>2 DEF ExistsBijection
<1>4. f \in [1 .. n -> S] /\ IsInjective(f)
  BY <1>3 DEF Bijection, Injection, IsInjective
<1>5. PICK s : s = SetToSeq(S)
  OBVIOUS
<1>6. s \in [1 .. n -> S] /\ IsInjective(s)
  BY <1>1, <1>4, <1>5 DEF SetToSeq
<1>7. Len(s) = n
  BY <1>2, <1>6
<1>8. PICK T : T = {s[i] : i \in 1 .. n}
  OBVIOUS
<1>9. Numbers(s, 1 .. n, T)
  BY <1>6, <1>8 DEF Numbers, IsInjective
<1>10. IsFiniteSet(1 .. n) /\ Cardinality(1 .. n) = n
  BY <1>2, FS_Interval
<1>11. Cardinality(T) = n
  BY <1>9, <1>10, ImageCardinality
<1>12. T = S
  BY <1>1, <1>6, <1>8, <1>11, FS_Subset
<1>13. ToSet(s) = S
  BY <1>6, <1>8, <1>12 DEF ToSet
<1> QED BY <1>2, <1>5, <1>6, <1>7, <1>13
-----------------------------------------------------------------------------
(* Applying a block. *)

DbFields == {"headers", "accounts", "deltas", "notes", "nullifiers", "txs"}
NoteFields == {"id", "block", "sender", "tag", "network", "nullifier", "consumed"}

(* The rows of a block's notes, and what a block writes, table by table.    *)
NewRows(b) ==
    [i \in DOMAIN b.notes |->
       [id |-> b.notes[i].id, block |-> b.block, sender |-> b.notes[i].sender,
        tag |-> b.notes[i].tag, network |-> b.notes[i].network,
        nullifier |-> b.notes[i].nullifier, consumed |-> FALSE]]

Updated(b) == {u.id : u \in b.accounts}
UpdateOf(b, a) == CHOOSE u \in b.accounts : u.id = a

Written(d, b, e) ==
    /\ DOMAIN e = DbFields
    /\ e.headers = d.headers \cup {b.block}
    /\ DOMAIN e.accounts = DOMAIN d.accounts \cup Updated(b)
    /\ \A a \in DOMAIN e.accounts :
         IF a \in Updated(b)
         THEN e.accounts[a].commitment = UpdateOf(b, a).commitment /\ e.accounts[a].block = b.block
         ELSE e.accounts[a] = d.accounts[a]
    /\ e.notes = [i \in DOMAIN (d.notes \o NewRows(b)) |->
                    [(d.notes \o NewRows(b))[i] EXCEPT
                       !.consumed = @ \/ (d.notes \o NewRows(b))[i].nullifier \in b.nullifiers]]
    /\ e.nullifiers = d.nullifiers \cup {[nullifier |-> n, block |-> b.block] : n \in b.nullifiers}
    /\ e.txs = d.txs \cup {[tx |-> t.tx, account |-> t.account, block |-> b.block] : t \in b.txs}

LEMMA ApplyBlockWrites ==
    ASSUME NEW d, DOMAIN d = DbFields, NEW b
    PROVE  Written(d, b, ApplyBlock(d, b))
<1>1. PICK h : h = [d EXCEPT !.headers = @ \cup {b.block}]
  OBVIOUS
<1>2. /\ DOMAIN h = DbFields /\ h.headers = d.headers \cup {b.block} /\ h.accounts = d.accounts
      /\ h.notes = d.notes /\ h.nullifiers = d.nullifiers /\ h.txs = d.txs
  BY <1>1 DEF DbFields
<1>3. PICK u : u = UpsertAccounts(h, b.accounts, b.block)
  OBVIOUS
<1>4. /\ DOMAIN u = DbFields /\ u.headers = h.headers
      /\ u.notes = h.notes /\ u.nullifiers = h.nullifiers /\ u.txs = h.txs
      /\ u.accounts = [a \in DOMAIN h.accounts \cup Updated(b) |->
                         IF a \in Updated(b)
                         THEN [commitment |-> UpdateOf(b, a).commitment, block |-> b.block,
                               details |-> UpdatedDetails(h, UpdateOf(b, a))]
                         ELSE h.accounts[a]]
  BY <1>2, <1>3 DEF UpsertAccounts, DbFields, Updated, UpdateOf
<1>5. /\ DOMAIN u.accounts = DOMAIN d.accounts \cup Updated(b)
      /\ \A a \in DOMAIN u.accounts :
           IF a \in Updated(b)
           THEN u.accounts[a].commitment = UpdateOf(b, a).commitment /\ u.accounts[a].block = b.block
           ELSE u.accounts[a] = d.accounts[a]
  BY <1>2, <1>4
<1>6. PICK n : n = InsertNotes(u, b.notes, b.block)
  OBVIOUS
<1>7. /\ DOMAIN n = DbFields /\ n.headers = u.headers /\ n.accounts = u.accounts
      /\ n.notes = u.notes \o NewRows(b) /\ n.nullifiers = u.nullifiers /\ n.txs = u.txs
  BY <1>4, <1>6 DEF InsertNotes, NewRows, DbFields
<1>8. PICK t : t = InsertTransactions(n, b.txs, b.block)
  OBVIOUS
<1>9. /\ DOMAIN t = DbFields /\ t.headers = n.headers /\ t.accounts = n.accounts
      /\ t.notes = n.notes /\ t.nullifiers = n.nullifiers
      /\ t.txs = n.txs \cup {[tx |-> x.tx, account |-> x.account, block |-> b.block] : x \in b.txs}
  BY <1>7, <1>8 DEF InsertTransactions, DbFields
<1>10. PICK e : e = InsertNullifiersForBlock(t, b.nullifiers, b.block)
  OBVIOUS
<1>11. /\ DOMAIN e = DbFields /\ e.headers = t.headers /\ e.accounts = t.accounts /\ e.txs = t.txs
       /\ e.notes = [i \in DOMAIN t.notes |->
                       [t.notes[i] EXCEPT !.consumed = @ \/ t.notes[i].nullifier \in b.nullifiers]]
       /\ e.nullifiers = t.nullifiers \cup {[nullifier |-> x, block |-> b.block] : x \in b.nullifiers}
  BY <1>9, <1>10 DEF InsertNullifiersForBlock, DbFields
<1>12. e = ApplyBlock(d, b)
  BY <1>1, <1>3, <1>6, <1>8, <1>10 DEF ApplyBlock
<1>13. t.notes = d.notes \o NewRows(b)
  BY <1>2, <1>4, <1>7, <1>9
<1>14. e.notes = [i \in DOMAIN (d.notes \o NewRows(b)) |->
                    [(d.notes \o NewRows(b))[i] EXCEPT
                       !.consumed = @ \/ (d.notes \o NewRows(b))[i].nullifier \in b.nullifiers]]
  BY <1>11, <1>13
<1>15. e.accounts = u.accounts /\ e.headers = d.headers \cup {b.block}
  BY <1>2, <1>4, <1>7, <1>9, <1>11
<1>16. /\ e.nullifiers = d.nullifiers \cup {[nullifier |-> x, block |-> b.block] : x \in b.nullifiers}
       /\ e.txs = d.txs \cup {[tx |-> x.tx, account |-> x.account, block |-> b.block] : x \in b.txs}
  BY <1>2, <1>4, <1>7, <1>9, <1>11
<1> QED BY <1>5, <1>11, <1>12, <1>14, <1>15, <1>16 DEF Written
(* Sequences, whatever their elements.                                      *)
IsSeq(s) == s \in Seq(ToSet(s))

LEMMA SeqIs ==
    ASSUME NEW s, IsSeq(s)
    PROVE  Len(s) \in Nat /\ DOMAIN s = 1 .. Len(s) /\ s = [i \in 1 .. Len(s) |-> s[i]]
BY DEF IsSeq

LEMMA FunctionIsSeq ==
    ASSUME NEW s, NEW n \in Nat, DOMAIN s = 1 .. n, s = [i \in 1 .. n |-> s[i]]
    PROVE  IsSeq(s) /\ Len(s) = n
<1>1. \A i \in 1 .. n : s[i] \in ToSet(s)
  BY DEF ToSet
<1>2. s \in [1 .. n -> ToSet(s)]
  BY <1>1
<1> QED BY <1>2 DEF IsSeq

LEMMA ConcatSeq ==
    ASSUME NEW s, IsSeq(s), NEW t, IsSeq(t)
    PROVE  /\ IsSeq(s \o t) /\ Len(s \o t) = Len(s) + Len(t)
           /\ \A i \in 1 .. Len(s) + Len(t) :
                (s \o t)[i] = IF i <= Len(s) THEN s[i] ELSE t[i - Len(s)]
           /\ ToSet(s \o t) = ToSet(s) \cup ToSet(t)
<1>1. PICK S : S = ToSet(s) \cup ToSet(t)
  OBVIOUS
<1>2. s \in Seq(S) /\ t \in Seq(S)
  BY <1>1, SeqIs DEF IsSeq, ToSet
<1>3. PICK u : u = s \o t
  OBVIOUS
<1>4. /\ u \in Seq(S) /\ Len(u) = Len(s) + Len(t)
      /\ \A i \in 1 .. Len(s) + Len(t) : u[i] = IF i <= Len(s) THEN s[i] ELSE t[i - Len(s)]
  BY <1>2, <1>3
<1>5. IsSeq(u)
  <2>1. Len(u) \in Nat /\ DOMAIN u = 1 .. Len(u) /\ u = [i \in 1 .. Len(u) |-> u[i]]
    BY <1>4
  <2> QED BY <2>1, FunctionIsSeq
<1>6. /\ Len(s) \in Nat /\ Len(t) \in Nat /\ DOMAIN s = 1 .. Len(s) /\ DOMAIN t = 1 .. Len(t)
      /\ DOMAIN u = 1 .. Len(s) + Len(t)
  BY <1>2, <1>4
<1>7. ToSet(u) \subseteq S
  BY <1>4 DEF ToSet
<1>8. ASSUME NEW x \in S PROVE x \in ToSet(u)
  <2>1. CASE x \in ToSet(s)
    <3>1. PICK i \in 1 .. Len(s) : s[i] = x
      BY <1>6, <2>1 DEF ToSet
    <3>2. i \in 1 .. Len(s) + Len(t) /\ i <= Len(s)
      BY <1>6
    <3>3. u[i] = x
      BY <1>4, <3>1, <3>2
    <3> QED BY <1>6, <3>2, <3>3 DEF ToSet
  <2>2. CASE x \in ToSet(t)
    <3>1. PICK i \in 1 .. Len(t) : t[i] = x
      BY <1>6, <2>2 DEF ToSet
    <3>2. i + Len(s) \in 1 .. Len(s) + Len(t) /\ ~(i + Len(s) <= Len(s)) /\ (i + Len(s)) - Len(s) = i
      BY <1>6
    <3>3. u[i + Len(s)] = x
      BY <1>4, <3>1, <3>2
    <3> QED BY <1>6, <3>2, <3>3 DEF ToSet
  <2> QED BY <1>1, <2>1, <2>2
<1>9. ToSet(u) = S
  BY <1>7, <1>8
<1> QED BY <1>1, <1>3, <1>4, <1>5, <1>9

-----------------------------------------------------------------------------
(* THE CHAIN *)

(* The tables hold rows of the blocks 0 .. k only, and every nullifier once. *)
DbOK(d, k) ==
    /\ k \in Nat /\ DOMAIN d = DbFields /\ d.headers = 0 .. k
    /\ IsSeq(d.notes)
    /\ \A i \in 1 .. Len(d.notes) : DOMAIN d.notes[i] = NoteFields /\ d.notes[i].block \in 0 .. k
    /\ \A a \in DOMAIN d.accounts : d.accounts[a].block \in 0 .. k
    /\ \A r \in d.nullifiers : r.block \in 0 .. k
    /\ \A r, q \in d.nullifiers : r.nullifier = q.nullifier => r = q
    /\ IsFiniteSet(d.txs) /\ \A t \in d.txs : t.block \in 0 .. k

(* A note row is never changed, except that it is marked consumed.          *)
Kept(new, old) ==
    /\ new.id = old.id /\ new.block = old.block /\ new.tag = old.tag
    /\ new.sender = old.sender /\ new.network = old.network
    /\ ~new.consumed => ~old.consumed

(* From d to e a block k arrived.                                           *)
Grown(d, e, k) ==
    /\ e.headers = d.headers \cup {k}
    /\ Len(d.notes) <= Len(e.notes)
    /\ \A i \in 1 .. Len(d.notes) : Kept(e.notes[i], d.notes[i])
    /\ \A i \in 1 .. Len(e.notes) : i > Len(d.notes) => e.notes[i].block = k
    /\ DOMAIN d.accounts \subseteq DOMAIN e.accounts
    /\ \A a \in DOMAIN e.accounts :
         \/ e.accounts[a].block = k
         \/ a \in DOMAIN d.accounts /\ e.accounts[a] = d.accounts[a]
    /\ d.nullifiers \subseteq e.nullifiers
    /\ \A r \in e.nullifiers : r \in d.nullifiers \/ r.block = k
    /\ d.txs \subseteq e.txs
    /\ \A t \in e.txs : t \in d.txs \/ t.block = k

(* A block that can be written after block k.                               *)
BlockOK(d, b, k) ==
    /\ b.block = k + 1 /\ IsSeq(b.notes) /\ IsFiniteSet(b.txs)
    /\ \A r \in d.nullifiers : r.nullifier \notin b.nullifiers

(* The notes as they were, followed by the block's, some marked consumed.   *)
NotesGrown(d, b, e) ==
    /\ IsSeq(e.notes) /\ Len(e.notes) = Len(d.notes) + Len(b.notes)
    /\ \A i \in 1 .. Len(e.notes) : DOMAIN e.notes[i] = NoteFields
    /\ \A i \in 1 .. Len(d.notes) : Kept(e.notes[i], d.notes[i])
    /\ \A i \in 1 .. Len(e.notes) : i > Len(d.notes) => e.notes[i].block = b.block

LEMMA NotesWritten ==
    ASSUME NEW d, NEW b, NEW e, Written(d, b, e), IsSeq(d.notes), IsSeq(b.notes),
           \A i \in 1 .. Len(d.notes) : DOMAIN d.notes[i] = NoteFields
    PROVE  NotesGrown(d, b, e)
<1>1. PICK m, n, s, t, x : /\ m = Len(d.notes) /\ n = Len(b.notes) /\ s = d.notes /\ t = NewRows(b)
                           /\ x = s \o t
  OBVIOUS
<1>2. m \in Nat /\ n \in Nat /\ DOMAIN b.notes = 1 .. n
  BY <1>1, SeqIs
<1>3. DOMAIN t = 1 .. n /\ t = [i \in 1 .. n |-> t[i]]
  BY <1>1, <1>2 DEF NewRows
<1>4. IsSeq(t) /\ Len(t) = n
  BY <1>2, <1>3, FunctionIsSeq
<1>5. \A i \in 1 .. n : DOMAIN t[i] = NoteFields /\ t[i].block = b.block
  BY <1>1, <1>2 DEF NewRows, NoteFields
<1>6. IsSeq(x) /\ Len(x) = m + n /\ \A i \in 1 .. m + n : x[i] = IF i <= m THEN s[i] ELSE t[i - m]
  <2>1. IsSeq(s) /\ Len(s) = m
    BY <1>1
  <2>2. /\ IsSeq(s \o t) /\ Len(s \o t) = Len(s) + Len(t)
        /\ \A i \in 1 .. Len(s) + Len(t) :
             (s \o t)[i] = IF i <= Len(s) THEN s[i] ELSE t[i - Len(s)]
    BY <1>4, <2>1, ConcatSeq
  <2>3. x = s \o t
    BY <1>1
  <2> QED BY <1>4, <2>1, <2>2, <2>3
<1>7. DOMAIN x = 1 .. m + n /\ m + n \in Nat
  BY <1>2, <1>6, SeqIs
<1>8. e.notes = [i \in 1 .. m + n |-> [x[i] EXCEPT !.consumed = @ \/ x[i].nullifier \in b.nullifiers]]
  BY <1>1, <1>7 DEF Written
<1>9. IsSeq(e.notes) /\ Len(e.notes) = m + n
  BY <1>7, <1>8, FunctionIsSeq
<1>10. \A i \in 1 .. m + n : e.notes[i] = [x[i] EXCEPT !.consumed = @ \/ x[i].nullifier \in b.nullifiers]
  BY <1>8
<1>11. \A i \in 1 .. m : i \in 1 .. m + n /\ x[i] = d.notes[i] /\ DOMAIN x[i] = NoteFields
  <2>1. ASSUME NEW i \in 1 .. m PROVE i \in 1 .. m + n /\ i <= m
    BY <1>2
  <2>2. \A i \in 1 .. m : i \in 1 .. m + n /\ x[i] = s[i]
    BY <1>6, <2>1
  <2> QED BY <1>1, <2>2
<1>12. \A i \in 1 .. m + n : i > m => i - m \in 1 .. n /\ x[i] = t[i - m]
  BY <1>2, <1>6
<1>13. \A i \in 1 .. m + n : i > m => x[i].block = b.block /\ DOMAIN x[i] = NoteFields
  BY <1>5, <1>12
<1>14. \A i \in 1 .. m + n : DOMAIN x[i] = NoteFields
  BY <1>2, <1>11, <1>13
<1>15. ASSUME NEW i \in 1 .. m + n
       PROVE  DOMAIN e.notes[i] = NoteFields /\ Kept(e.notes[i], x[i])
  BY <1>10, <1>14 DEF NoteFields, Kept
<1>16. \A i \in 1 .. m : Kept(e.notes[i], d.notes[i])
  BY <1>11, <1>15
<1>17. \A i \in 1 .. m + n : i > m => e.notes[i].block = b.block
  BY <1>13, <1>15 DEF Kept
<1> QED BY <1>1, <1>9, <1>15, <1>16, <1>17 DEF NotesGrown
LEMMA ApplyBlockGrows ==
    ASSUME NEW d, NEW k, DbOK(d, k), NEW b, BlockOK(d, b, k), NEW e, e = ApplyBlock(d, b)
    PROVE  DbOK(e, k + 1) /\ Grown(d, e, k + 1)
<1>1. Written(d, b, e) /\ k \in Nat /\ b.block = k + 1
  BY ApplyBlockWrites DEF DbOK, BlockOK
<1>2. NotesGrown(d, b, e)
  <2>1. IsSeq(d.notes) /\ IsSeq(b.notes) /\ \A i \in 1 .. Len(d.notes) : DOMAIN d.notes[i] = NoteFields
    BY DEF DbOK, BlockOK
  <2> QED BY <1>1, <2>1, NotesWritten
<1>3. Len(d.notes) \in Nat /\ Len(b.notes) \in Nat /\ Len(e.notes) \in Nat
  <2>1. IsSeq(d.notes) /\ IsSeq(b.notes) /\ IsSeq(e.notes)
    BY <1>2 DEF DbOK, BlockOK, NotesGrown
  <2> QED BY <2>1, SeqIs
<1>4. Len(d.notes) <= Len(e.notes)
  <2>1. Len(e.notes) = Len(d.notes) + Len(b.notes)
    BY <1>2 DEF NotesGrown
  <2>2. \A m, n, l \in Nat : l = m + n => m <= l
    OBVIOUS
  <2> QED BY <1>3, <2>1, <2>2
<1>5. \A i \in 1 .. Len(e.notes) :
         \/ i \in 1 .. Len(d.notes) /\ e.notes[i].block = d.notes[i].block /\ d.notes[i].block \in 0 .. k
         \/ i > Len(d.notes) /\ e.notes[i].block = k + 1
  <2> SUFFICES ASSUME NEW i \in 1 .. Len(e.notes), ~(i > Len(d.notes))
               PROVE  /\ i \in 1 .. Len(d.notes) /\ e.notes[i].block = d.notes[i].block
                      /\ d.notes[i].block \in 0 .. k
    BY <1>1, <1>2 DEF NotesGrown
  <2>1. i \in 1 .. Len(d.notes)
    BY <1>3
  <2> QED BY <1>2, <2>1 DEF NotesGrown, Kept, DbOK
<1>6. \A i \in 1 .. Len(e.notes) : e.notes[i].block \in 0 .. k + 1
  BY <1>1, <1>5
<1>8. /\ DOMAIN d.accounts \subseteq DOMAIN e.accounts
      /\ \A a \in DOMAIN e.accounts :
           \/ e.accounts[a].block = k + 1
           \/ a \in DOMAIN d.accounts /\ e.accounts[a] = d.accounts[a]
  BY <1>1 DEF Written
<1>9. \A a \in DOMAIN e.accounts : e.accounts[a].block \in 0 .. k + 1
  BY <1>1, <1>8 DEF DbOK
<1>10. e.nullifiers = d.nullifiers \cup {[nullifier |-> n, block |-> k + 1] : n \in b.nullifiers}
  BY <1>1 DEF Written
<1>11. /\ d.nullifiers \subseteq e.nullifiers
       /\ \A r \in e.nullifiers : r \in d.nullifiers \/ (r.block = k + 1 /\ r.nullifier \in b.nullifiers)
  BY <1>10
<1>12. \A r \in e.nullifiers : r.block \in 0 .. k + 1
  BY <1>1, <1>11 DEF DbOK
<1>13. ASSUME NEW r \in e.nullifiers, NEW q \in e.nullifiers, r.nullifier = q.nullifier PROVE r = q
  <2>1. CASE r \in d.nullifiers /\ q \in d.nullifiers
    BY <1>13, <2>1 DEF DbOK
  <2>2. CASE r \notin d.nullifiers
    <3>1. q \notin d.nullifiers
      BY <1>11, <1>13, <2>2 DEF BlockOK
    <3> QED BY <1>10, <1>13, <2>2, <3>1
  <2>3. CASE q \notin d.nullifiers
    <3>1. r \notin d.nullifiers
      BY <1>11, <1>13, <2>3 DEF BlockOK
    <3> QED BY <1>10, <1>13, <2>3, <3>1
  <2> QED BY <2>1, <2>2, <2>3
<1>14. e.txs = d.txs \cup {[tx |-> t.tx, account |-> t.account, block |-> k + 1] : t \in b.txs}
  BY <1>1 DEF Written
<1>15. d.txs \subseteq e.txs /\ \A t \in e.txs : t \in d.txs \/ t.block = k + 1
  BY <1>14
<1>16. \A t \in e.txs : t.block \in 0 .. k + 1
  BY <1>1, <1>15 DEF DbOK
<1>17. IsFiniteSet(e.txs)
  <2> DEFINE f == [t \in b.txs |-> [tx |-> t.tx, account |-> t.account, block |-> k + 1]]
  <2>1. {f[t] : t \in b.txs} = {[tx |-> t.tx, account |-> t.account, block |-> k + 1] : t \in b.txs}
    OBVIOUS
  <2>2. PICK g : g = f
    OBVIOUS
  <2> HIDE DEF f
  <2>3. g \in [b.txs -> {g[t] : t \in b.txs}] /\ \A y \in {g[t] : t \in b.txs} : \E t \in b.txs : g[t] = y
    BY <2>2 DEF f
  <2>4. g \in Surjection(b.txs, {g[t] : t \in b.txs})
    BY <2>3 DEF Surjection
  <2>5. IsFiniteSet({g[t] : t \in b.txs})
    BY <2>4, FS_Surjection DEF BlockOK
  <2>6. IsFiniteSet({[tx |-> t.tx, account |-> t.account, block |-> k + 1] : t \in b.txs})
    BY <2>1, <2>2, <2>5
  <2>7. PICK T : T = {[tx |-> t.tx, account |-> t.account, block |-> k + 1] : t \in b.txs}
    OBVIOUS
  <2>8. IsFiniteSet(d.txs) /\ IsFiniteSet(T) /\ e.txs = d.txs \cup T
    BY <1>14, <2>6, <2>7 DEF DbOK
  <2> QED BY <2>8, FS_Union
<1>18. e.headers = d.headers \cup {k + 1} /\ e.headers = 0 .. k + 1 /\ DOMAIN e = DbFields
  BY <1>1 DEF Written, DbOK
<1>19. DbOK(e, k + 1)
  <2>1. k + 1 \in Nat
    BY <1>1
  <2> QED BY <1>2, <1>6, <1>9, <1>12, <1>13, <1>16, <1>17, <1>18, <2>1 DEF DbOK, NotesGrown
<1>20. Grown(d, e, k + 1)
  BY <1>1, <1>2, <1>4, <1>8, <1>11, <1>15, <1>18 DEF Grown, NotesGrown
<1> QED BY <1>19, <1>20

LEMMA GenesisOK == DbOK(GenesisDb, 0) /\ GenesisDb.notes = << >> /\ GenesisDb.txs = {} /\ GenesisDb.nullifiers = {}
<1>1. PICK b : b = [block |-> 0, notes |-> << >>, nullifiers |-> {}, txs |-> {},
                    accounts |-> {WithCommitment(EmptyDb, u, 0) : u \in GenesisAccounts}]
  OBVIOUS
<1>2. b.block = 0 /\ b.notes = << >> /\ b.nullifiers = {} /\ b.txs = {}
  BY <1>1
<1>3. /\ DOMAIN EmptyDb = DbFields /\ EmptyDb.headers = {} /\ EmptyDb.notes = << >>
      /\ EmptyDb.nullifiers = {} /\ EmptyDb.txs = {} /\ DOMAIN EmptyDb.accounts = {}
  BY DEF EmptyDb, DbFields, NoEntries
<1>4. PICK g : g = GenesisDb
  OBVIOUS
<1>5. Written(EmptyDb, b, g)
  BY <1>1, <1>3, <1>4, ApplyBlockWrites DEF GenesisDb
<1>6. IsSeq(<< >>) /\ Len(<< >>) = 0 /\ 1 .. 0 = {}
  BY DEF IsSeq
<1>7. IsSeq(g.notes) /\ Len(g.notes) = 0
  <2>1. IsSeq(EmptyDb.notes) /\ IsSeq(b.notes) /\ 1 .. Len(EmptyDb.notes) = {}
    BY <1>2, <1>3, <1>6
  <2>2. NotesGrown(EmptyDb, b, g)
    BY <1>5, <2>1, NotesWritten
  <2> QED BY <1>2, <1>3, <1>6, <2>2 DEF NotesGrown
<1>8. g.notes = << >>
  BY <1>7 DEF IsSeq
<1>9. g.headers = {0} /\ g.nullifiers = {} /\ g.txs = {} /\ DOMAIN g = DbFields
  BY <1>2, <1>3, <1>5 DEF Written
<1>10. \A a \in DOMAIN g.accounts : g.accounts[a].block = 0
  BY <1>2, <1>3, <1>5 DEF Written
<1>11. IsFiniteSet({}) /\ {0} = 0 .. 0
  BY FS_EmptySet
<1>12. DbOK(g, 0)
  BY <1>6, <1>7, <1>9, <1>10, <1>11 DEF DbOK
<1> QED BY <1>4, <1>8, <1>9, <1>12
(* What apply_block does to the trees and the MMR is what a restart reads.  *)
LEMMA MutatedLoads ==
    ASSUME NEW d, NEW k, DbOK(d, k), NEW b, BlockOK(d, b, k), NEW e, e = ApplyBlock(d, b)
    PROVE  Mutated(Load(d), b) = Load(e)
<1>1. Written(d, b, e) /\ k \in Nat /\ b.block = k + 1 /\ d.headers = 0 .. k
  BY ApplyBlockWrites DEF DbOK, BlockOK
<1>2. DbOK(e, k + 1)
  BY ApplyBlockGrows
<1>3. PICK m : m = Load(d)
  OBVIOUS
<1>4. Append(m.mmr, b.block) = SelectAllBlockHeaders(e)
  <2>1. m.mmr = [i \in 1 .. k + 1 |-> i - 1]
    BY <1>1, <1>3, AscendingInterval DEF Load, SelectAllBlockHeaders
  <2>2. k + 1 \in Nat /\ (k + 1) + 1 = k + 2 /\ e.headers = 0 .. k + 1
    BY <1>1, <1>2 DEF DbOK
  <2>3. SelectAllBlockHeaders(e) = [i \in 1 .. k + 2 |-> i - 1]
    BY <2>2, AscendingInterval DEF SelectAllBlockHeaders
  <2>4. m.mmr \in Seq(Int) /\ Len(m.mmr) = k + 1 /\ b.block \in Int
    BY <1>1, <2>1
  <2>5. /\ Append(m.mmr, b.block) \in Seq(Int) /\ Len(Append(m.mmr, b.block)) = k + 2
        /\ \A i \in 1 .. k + 2 : Append(m.mmr, b.block)[i] = IF i <= k + 1 THEN m.mmr[i] ELSE b.block
    BY <1>1, <2>4
  <2>6. \A i \in 1 .. k + 2 : (IF i <= k + 1 THEN m.mmr[i] ELSE b.block) = i - 1
    BY <1>1, <2>1
  <2>7. Append(m.mmr, b.block) = [i \in 1 .. k + 2 |-> i - 1]
    BY <1>1, <2>5, <2>6
  <2> QED BY <2>3, <2>7
<1>5. Overlay([a \in {u.id : u \in b.accounts} |-> (CHOOSE u \in b.accounts : u.id = a).commitment],
              m.accounts) = SelectAllAccountCommitments(e)
  <2>1. m.accounts = [a \in DOMAIN d.accounts |-> d.accounts[a].commitment]
    BY <1>3 DEF Load, SelectAllAccountCommitments
  <2>2. PICK f : f = [a \in Updated(b) |-> UpdateOf(b, a).commitment]
    OBVIOUS
  <2>3. Overlay(f, m.accounts) = SelectAllAccountCommitments(e)
    BY <1>1, <2>1, <2>2 DEF Overlay, SelectAllAccountCommitments, Written
  <2> QED BY <2>2, <2>3 DEF Updated, UpdateOf
<1>6. Overlay([n \in b.nullifiers |-> b.block], m.nullifiers) = SelectAllNullifiers(e)
  <2>1. m.nullifiers = SelectAllNullifiers(d)
    BY <1>3 DEF Load
  <2>2. PICK N : N = {r.nullifier : r \in d.nullifiers}
    OBVIOUS
  <2>3. PICK f, g : f = SelectAllNullifiers(d) /\ g = SelectAllNullifiers(e)
    OBVIOUS
  <2>4. f = [n \in N |-> (CHOOSE r \in d.nullifiers : r.nullifier = n).block]
    BY <2>2, <2>3 DEF SelectAllNullifiers
  <2>5. e.nullifiers = d.nullifiers \cup {[nullifier |-> n, block |-> b.block] : n \in b.nullifiers}
    BY <1>1 DEF Written
  <2>6. {r.nullifier : r \in e.nullifiers} = N \cup b.nullifiers
    <3>1. \A n \in b.nullifiers : \E r \in e.nullifiers : r.nullifier = n
      <4> SUFFICES ASSUME NEW n \in b.nullifiers PROVE \E r \in e.nullifiers : r.nullifier = n
        OBVIOUS
      <4>1. [nullifier |-> n, block |-> b.block] \in e.nullifiers
        BY <2>5
      <4> QED BY <4>1
    <3>2. \A n \in N : \E r \in e.nullifiers : r.nullifier = n
      BY <2>2, <2>5
    <3>3. \A r \in e.nullifiers : r.nullifier \in N \cup b.nullifiers
      BY <2>2, <2>5
    <3> QED BY <3>1, <3>2, <3>3
  <2>7. g = [n \in N \cup b.nullifiers |-> (CHOOSE r \in e.nullifiers : r.nullifier = n).block]
    BY <2>3, <2>6 DEF SelectAllNullifiers
  <2>8. ASSUME NEW n \in b.nullifiers PROVE g[n] = b.block
    <3>1. [nullifier |-> n, block |-> b.block] \in e.nullifiers
      BY <2>5
    <3>2. PICK c : c = CHOOSE r \in e.nullifiers : r.nullifier = n
      OBVIOUS
    <3>3. c \in e.nullifiers /\ c.nullifier = n
      BY <3>1, <3>2
    <3>4. c = [nullifier |-> n, block |-> b.block]
      BY <1>2, <3>1, <3>3 DEF DbOK
    <3> QED BY <2>7, <3>2, <3>4
  <2>9. ASSUME NEW n \in N, n \notin b.nullifiers PROVE g[n] = f[n]
    <3>1. PICK q \in d.nullifiers : q.nullifier = n
      BY <2>2
    <3>2. PICK c, p : c = (CHOOSE r \in e.nullifiers : r.nullifier = n) /\ p = CHOOSE r \in d.nullifiers : r.nullifier = n
      OBVIOUS
    <3>3. c \in e.nullifiers /\ c.nullifier = n /\ p \in d.nullifiers /\ p.nullifier = n
      BY <2>5, <3>1, <3>2
    <3>4. c = p
      BY <1>2, <2>5, <3>3 DEF DbOK
    <3> QED BY <2>4, <2>7, <3>2, <3>4
  <2>10. PICK h : h = [n \in b.nullifiers |-> b.block]
    OBVIOUS
  <2>11. Overlay(h, f) = g
    BY <2>4, <2>7, <2>8, <2>9, <2>10 DEF Overlay
  <2> QED BY <2>1, <2>3, <2>10, <2>11
<1> QED BY <1>3, <1>4, <1>5, <1>6 DEF Mutated, Load

(* The chain in the database, in memory and in the history.                 *)
ChainOK ==
    /\ DbOK(db, Tip) /\ Tip <= MaxBlocks
    /\ MemoryReloads
    /\ IsSeq(past) /\ Len(past) = Tip + 1 /\ past[Tip + 1] = memory.accounts
    /\ reader \in Readers

LEMMA TipIs ==
    ASSUME NEW d, NEW k, DbOK(d, k)
    PROVE  ChainTip(d) = k /\ k \in Nat
BY MaxInterval DEF DbOK, ChainTip

LEMMA ChainInit == Init => ChainOK
<1> SUFFICES ASSUME Init PROVE ChainOK
  OBVIOUS
<1>1. db = GenesisDb /\ memory = Load(GenesisDb) /\ past = <<memory.accounts>> /\ reader \in Readers
  BY DEF Init
<1>2. DbOK(db, 0)
  BY <1>1, GenesisOK
<1>3. Tip = 0
  BY <1>2, TipIs DEF Tip
<1>4. 0 <= MaxBlocks
  BY SyncAssumption
<1>5. IsSeq(past) /\ Len(past) = 1 /\ past[1] = memory.accounts
  BY <1>1 DEF IsSeq, ToSet
<1> QED BY <1>1, <1>2, <1>3, <1>4, <1>5 DEF ChainOK, MemoryReloads

(* The block arrives, and nothing that was read from the tables is undone.  *)
LEMMA ChainGrows ==
    ASSUME ChainOK, ApplyNextBlock
    PROVE  /\ ChainOK' /\ Tip' = Tip + 1 /\ Grown(db, db', Tip + 1)
           /\ past' = Append(past, memory'.accounts)
           /\ UNCHANGED <<reader, client, pager, inputs>>
<1>1. PICK c \in Contents : LET b == BlockOf(db, c, Tip + 1) IN
            /\ b.nullifiers \cap DOMAIN memory.nullifiers = {}
            /\ BlockAccepted(db, b)
            /\ db' = ApplyBlock(db, b)
            /\ memory' = Mutated(memory, b)
            /\ past' = Append(past, memory'.accounts)
  BY DEF ApplyNextBlock
<1>2. PICK b : b = BlockOf(db, c, Tip + 1)
  OBVIOUS
<1>3. /\ BlockAccepted(db, b) /\ db' = ApplyBlock(db, b) /\ memory' = Mutated(memory, b)
      /\ past' = Append(past, memory'.accounts)
  BY <1>1, <1>2
<1>4. /\ b.block = Tip + 1 /\ b.notes = c.notes
      /\ b.txs = {[tx |-> <<u.id, Tip + 1>>, account |-> u.id] : u \in c.accounts}
  BY <1>2 DEF BlockOf
<1>5. IsFiniteSet(b.txs)
  <2> DEFINE f == [u \in c.accounts |-> [tx |-> <<u.id, Tip + 1>>, account |-> u.id]]
  <2>1. {f[u] : u \in c.accounts} = b.txs
    BY <1>4
  <2>2. PICK g : g = f
    OBVIOUS
  <2> HIDE DEF f
  <2>3. g \in [c.accounts -> b.txs] /\ \A y \in b.txs : \E u \in c.accounts : g[u] = y
    BY <2>1, <2>2 DEF f
  <2>4. g \in Surjection(c.accounts, b.txs)
    BY <2>3 DEF Surjection
  <2>5. IsFiniteSet(c.accounts)
    BY SyncAssumption
  <2> QED BY <2>4, <2>5, FS_Surjection
<1>6. \A r \in db.nullifiers : r.nullifier \notin b.nullifiers
  BY <1>3 DEF BlockAccepted
<1>7. IsSeq(b.notes)
  BY <1>4, SyncAssumption DEF IsSeq
<1>8. BlockOK(db, b, Tip) /\ DbOK(db, Tip) /\ Tip \in Nat
  BY <1>4, <1>5, <1>6, <1>7 DEF BlockOK, ChainOK, DbOK
<1>9. DbOK(db', Tip + 1) /\ Grown(db, db', Tip + 1)
  BY <1>3, <1>8, ApplyBlockGrows
<1>10. Tip' = Tip + 1
  BY <1>9, TipIs DEF Tip
<1>11. memory' = Load(db')
  BY <1>3, <1>8, MutatedLoads DEF ChainOK, MemoryReloads
<1>12. Tip + 1 <= MaxBlocks
  BY <1>8, SyncAssumption DEF ApplyNextBlock
<1>13. PICK x : x = memory'.accounts
  OBVIOUS
<1>14. IsSeq(past') /\ Len(past') = Tip + 2 /\ past'[Tip + 2] = x
  <2>1. past \in Seq(ToSet(past) \cup {x}) /\ x \in ToSet(past) \cup {x} /\ Len(past) = Tip + 1
    BY DEF ChainOK, IsSeq, ToSet
  <2>2. past' = Append(past, x)
    BY <1>3, <1>13
  <2>3. past' \in Seq(ToSet(past) \cup {x}) /\ Len(past') = Tip + 2 /\ past'[Tip + 2] = x
    BY <1>8, <2>1, <2>2
  <2>4. DOMAIN past' = 1 .. Tip + 2 /\ past' = [i \in 1 .. Tip + 2 |-> past'[i]] /\ Tip + 2 \in Nat
    BY <1>8, <2>3
  <2> QED BY <2>3, <2>4, FunctionIsSeq
<1>15. UNCHANGED <<reader, client, pager, inputs>>
  BY DEF ApplyNextBlock
<1>16. (Tip + 1) + 1 = Tip + 2
  BY <1>8
<1>17. ChainOK'
  BY <1>9, <1>10, <1>11, <1>12, <1>13, <1>14, <1>15, <1>16 DEF ChainOK, MemoryReloads
<1> QED BY <1>3, <1>9, <1>10, <1>15, <1>17

LEMMA ChainStays ==
    ASSUME ChainOK, [Next]_vars, ~ApplyNextBlock
    PROVE  UNCHANGED <<db, memory, past, reader>> /\ ChainOK'
<1>1. CASE RestartStore
  BY <1>1 DEF RestartStore, ChainOK, MemoryReloads, Tip
<1>2. CASE UNCHANGED store
  BY <1>2 DEF store, ChainOK, MemoryReloads, Tip
<1>3. CASE UNCHANGED vars
  BY <1>3 DEF vars, ChainOK, MemoryReloads, Tip
<1> QED BY <1>1, <1>2, <1>3 DEF Next, SyncState, SyncNotes, Receive, LoseReply,
      CheckNullifiersByPrefix, GetAccountDetails, StartPaging, NextPage, PageFails,
      SelectNoteProofs, OpenWitnesses, LoadHeaders

LEMMA ChainStep == ChainOK /\ [Next]_vars => ChainOK'
BY ChainGrows, ChainStays
-----------------------------------------------------------------------------
(* PAGES OF NETWORK NOTES *)

LEMMA ConcatInjective ==
    ASSUME NEW s, IsSeq(s), IsInjective(s), NEW t, IsSeq(t), IsInjective(t),
           ToSet(s) \cap ToSet(t) = {}
    PROVE  IsInjective(s \o t)
<1>1. PICK m, n, u : m = Len(s) /\ n = Len(t) /\ u = s \o t
  OBVIOUS
<1>2. m \in Nat /\ n \in Nat /\ DOMAIN s = 1 .. m /\ DOMAIN t = 1 .. n
  BY <1>1, SeqIs
<1>3. /\ IsSeq(u) /\ Len(u) = m + n
      /\ \A i \in 1 .. m + n : u[i] = IF i <= m THEN s[i] ELSE t[i - m]
  <2>1. /\ IsSeq(s \o t) /\ Len(s \o t) = Len(s) + Len(t)
        /\ \A i \in 1 .. Len(s) + Len(t) :
             (s \o t)[i] = IF i <= Len(s) THEN s[i] ELSE t[i - Len(s)]
    BY ConcatSeq
  <2> QED BY <1>1, <2>1
<1>4. DOMAIN u = 1 .. m + n
  BY <1>3, SeqIs
<1>5. \A i \in 1 .. m + n : \/ i \in 1 .. m /\ i <= m /\ u[i] = s[i] /\ u[i] \in ToSet(s)
                            \/ i - m \in 1 .. n /\ ~(i <= m) /\ u[i] = t[i - m] /\ u[i] \in ToSet(t)
  <2> SUFFICES ASSUME NEW i \in 1 .. m + n
               PROVE  \/ i \in 1 .. m /\ i <= m /\ u[i] = s[i] /\ u[i] \in ToSet(s)
                      \/ i - m \in 1 .. n /\ ~(i <= m) /\ u[i] = t[i - m] /\ u[i] \in ToSet(t)
    OBVIOUS
  <2>1. CASE i <= m
    <3>1. i \in 1 .. m /\ u[i] = s[i]
      BY <1>2, <1>3, <2>1
    <3> QED BY <1>2, <2>1, <3>1 DEF ToSet
  <2>2. CASE ~(i <= m)
    <3>1. i - m \in 1 .. n /\ u[i] = t[i - m]
      BY <1>2, <1>3, <2>2
    <3> QED BY <1>2, <2>2, <3>1 DEF ToSet
  <2> QED BY <2>1, <2>2
<1>6. ASSUME NEW i \in 1 .. m + n, NEW j \in 1 .. m + n, u[i] = u[j] PROVE i = j
  <2>1. CASE i <= m /\ j <= m
    BY <1>2, <1>5, <1>6, <2>1 DEF IsInjective
  <2>2. CASE ~(i <= m) /\ ~(j <= m)
    <3>1. i - m = j - m
      BY <1>2, <1>5, <1>6, <2>2 DEF IsInjective
    <3> QED BY <1>2, <3>1
  <2>3. ~(i <= m /\ ~(j <= m)) /\ ~(~(i <= m) /\ j <= m)
    BY <1>5, <1>6
  <2> QED BY <2>1, <2>2, <2>3
<1> QED BY <1>1, <1>4, <1>6 DEF IsInjective

(* A page: its rows are the first of R, the token is the first that is left. *)
PageOf(R, rows, token) ==
    /\ IsSeq(rows) /\ IsInjective(rows) /\ ToSet(rows) \subseteq R
    /\ token \in R \cup {0}
    /\ token # 0 => \A x \in ToSet(rows) : x < token
    /\ \A x \in R : x \in ToSet(rows) \/ (token # 0 /\ x >= token)

LEMMA PageIs ==
    ASSUME NEW R, R \subseteq Nat \ {0}, IsFiniteSet(R), NEW size \in Nat \ {0},
           NEW sorted, sorted = Ascending(R)
    PROVE  PageOf(R, SubSeq(sorted, 1, Min({size, Len(sorted)})), NextToken(sorted, size))
<1>1. PICK n, k, p, token : /\ n = Cardinality(R) /\ k = Min({size, Len(sorted)})
                            /\ p = SubSeq(sorted, 1, k) /\ token = NextToken(sorted, size)
  OBVIOUS
<1>2. n \in Nat /\ Lists(sorted, R, n)
  BY <1>1, AscendingLists
<1>3. /\ sorted \in [1 .. n -> R] /\ \A x \in R : \E i \in 1 .. n : sorted[i] = x
      /\ \A i, j \in 1 .. n : i < j => sorted[i] < sorted[j]
  BY <1>2 DEF Lists
<1>4. sorted \in Seq(R) /\ Len(sorted) = n
  BY <1>2, <1>3
<1>5. k \in {size, n} /\ k <= size /\ k <= n /\ k \in Nat
  <2>1. {size, n} \subseteq Nat /\ {size, n} # {}
    BY <1>2
  <2>2. Min({size, n}) \in {size, n} /\ \A x \in {size, n} : Min({size, n}) <= x
    BY <2>1, LeastOf
  <2> QED BY <1>1, <1>4, <2>1, <2>2
<1>6. p \in Seq(R) /\ Len(p) = k /\ \A i \in 1 .. k : p[i] = sorted[i]
  <2>1. \A i \in 1 .. k : i \in 1 .. Len(sorted)
    BY <1>2, <1>4, <1>5
  <2>2. \A i \in 1 .. k : sorted[i] \in R
    BY <1>4, <2>1
  <2>3. p = [i \in 1 .. k |-> sorted[i]]
    BY <1>1, <1>4, <1>5
  <2> QED BY <1>5, <2>2, <2>3
<1>7. DOMAIN p = 1 .. k /\ p = [i \in 1 .. k |-> p[i]]
  BY <1>5, <1>6
<1>8. \A i \in 1 .. k : i \in 1 .. n
  BY <1>2, <1>5
<1>9. \A i \in 1 .. n : sorted[i] \in R /\ sorted[i] \in Nat /\ sorted[i] # 0
  BY <1>3
<1>10. IsSeq(p) /\ ToSet(p) \subseteq R
  BY <1>5, <1>6, <1>7, FunctionIsSeq DEF ToSet
<1>11. IsInjective(p)
  <2> SUFFICES ASSUME NEW i \in 1 .. k, NEW j \in 1 .. k, i # j PROVE p[i] # p[j]
    BY <1>7 DEF IsInjective
  <2>1. p[i] = sorted[i] /\ p[j] = sorted[j] /\ i \in 1 .. n /\ j \in 1 .. n
    BY <1>6, <1>8
  <2>2. i < j \/ j < i
    OBVIOUS
  <2> QED BY <1>3, <1>9, <2>1, <2>2
<1>12. CASE n > size
  <2>1. k = size /\ size + 1 \in 1 .. n /\ token = sorted[size + 1]
    BY <1>1, <1>2, <1>4, <1>5, <1>12 DEF NextToken
  <2>2. token \in R /\ token # 0
    BY <1>9, <2>1
  <2>3. \A x \in ToSet(p) : x < token
    <3> SUFFICES ASSUME NEW i \in 1 .. k PROVE p[i] < token
      BY <1>7 DEF ToSet
    <3>1. i < size + 1 /\ i \in 1 .. n
      BY <1>8, <2>1
    <3> QED BY <1>3, <1>6, <2>1, <3>1
  <2>4. ASSUME NEW x \in R PROVE x \in ToSet(p) \/ x >= token
    <3>1. PICK i \in 1 .. n : sorted[i] = x
      BY <1>3
    <3>2. CASE i \in 1 .. k
      BY <1>6, <1>7, <3>1, <3>2 DEF ToSet
    <3>3. CASE i = size + 1
      BY <1>9, <2>1, <3>1, <3>3
    <3>4. CASE i > size + 1
      <4>1. sorted[size + 1] < sorted[i]
        BY <1>3, <2>1, <3>4
      <4> QED BY <1>9, <2>1, <3>1, <4>1
    <3> QED BY <1>2, <2>1, <3>2, <3>3, <3>4
  <2> QED BY <1>1, <1>10, <1>11, <2>2, <2>3, <2>4 DEF PageOf
<1>13. CASE ~(n > size)
  <2>1. k = n /\ token = 0
    BY <1>1, <1>2, <1>4, <1>5, <1>13 DEF NextToken, NoToken
  <2>2. ASSUME NEW x \in R PROVE x \in ToSet(p)
    <3>1. PICK i \in 1 .. n : sorted[i] = x
      BY <1>3
    <3> QED BY <1>6, <1>7, <2>1, <3>1 DEF ToSet
  <2> QED BY <1>1, <1>10, <1>11, <2>1, <2>2 DEF PageOf
<1> QED BY <1>12, <1>13

(* Of the network notes that were there at the start, those not collected   *)
(* yet are consumed or still ahead of the token.                            *)
PagerOK ==
    /\ DOMAIN pager = {"pc", "token", "rows", "started"}
    /\ pager.pc \in {"start", "paging", "done"}
    /\ IsSeq(pager.rows) /\ IsInjective(pager.rows)
    /\ ToSet(pager.rows) \subseteq 1 .. Len(db.notes)
    /\ pager.token \in 0 .. Len(db.notes) /\ pager.started \in 0 .. Len(db.notes)
    /\ pager.pc = "start" => pager.token = 0 /\ pager.rows = << >> /\ pager.started = 0
    /\ pager.pc = "paging" => \A x \in ToSet(pager.rows) : x < pager.token
    /\ \A i \in 1 .. pager.started :
         db.notes[i].network /\ ~db.notes[i].consumed =>
         i \in ToSet(pager.rows) \/ (pager.pc = "paging" /\ i >= pager.token)

LEMMA PagerInit == Init => PagerOK
<1> SUFFICES ASSUME Init PROVE PagerOK
  OBVIOUS
<1>1. db = GenesisDb /\ pager = [pc |-> "start", token |-> 0, rows |-> << >>, started |-> 0]
  BY DEF Init, NoPages, NoToken
<1>2. Len(db.notes) = 0
  BY <1>1, GenesisOK
<1>3. IsSeq(<< >>) /\ IsInjective(<< >>) /\ ToSet(<< >>) = {} /\ 1 .. 0 = {} /\ 0 \in 0 .. 0
  BY DEF IsSeq, IsInjective, ToSet
<1> QED BY <1>1, <1>2, <1>3 DEF PagerOK

LEMMA PagerGrows ==
    ASSUME ChainOK, PagerOK, ApplyNextBlock
    PROVE  PagerOK'
<1>1. Grown(db, db', Tip + 1) /\ pager' = pager
  BY ChainGrows
<1>2. IsSeq(db.notes) /\ IsSeq(db'.notes)
  BY ChainGrows DEF ChainOK, DbOK
<1>3. PICK m, n : m = Len(db.notes) /\ n = Len(db'.notes)
  OBVIOUS
<1>4. m \in Nat /\ n \in Nat /\ m <= n
  BY <1>1, <1>2, <1>3, SeqIs DEF Grown
<1>5. pager.token \in 0 .. n /\ pager.started \in 0 .. n /\ pager.started \in 0 .. m /\ 1 .. m \subseteq 1 .. n
  BY <1>3, <1>4 DEF PagerOK
<1>6. \A i \in 1 .. pager.started :
        i \in 1 .. m /\ db'.notes[i].network = db.notes[i].network
        /\ (~db'.notes[i].consumed => ~db.notes[i].consumed)
  BY <1>1, <1>3, <1>4, <1>5 DEF Grown, Kept
<1>7. \A i \in 1 .. pager.started :
         db'.notes[i].network /\ ~db'.notes[i].consumed =>
         i \in ToSet(pager.rows) \/ (pager.pc = "paging" /\ i >= pager.token)
  BY <1>6 DEF PagerOK
<1> QED BY <1>1, <1>3, <1>5, <1>7 DEF PagerOK

LEMMA PagerPages ==
    ASSUME ChainOK, PagerOK, NextPage
    PROVE  PagerOK'
<1>1. UNCHANGED <<db, memory, past, reader>> /\ pager.pc = "paging"
  BY DEF NextPage, store
<1>2. PICK R : R = {i \in DOMAIN db.notes :
                     db.notes[i].network /\ ~db.notes[i].consumed /\ i >= pager.token}
  OBVIOUS
<1>3. PICK n : n = Len(db.notes)
  OBVIOUS
<1>4. n \in Nat /\ DOMAIN db.notes = 1 .. n
  BY <1>3, SeqIs DEF ChainOK, DbOK
<1>5. R \subseteq 1 .. n /\ R \subseteq Nat \ {0} /\ \A i \in R : i >= pager.token
  BY <1>2, <1>4
<1>6. IsFiniteSet(R)
  <2>1. IsFiniteSet(1 .. n)
    BY <1>4, FS_Interval
  <2> QED BY <1>5, <2>1, FS_Subset
<1>7. PICK sorted : sorted = Ascending(R)
  OBVIOUS
<1>8. PICK rows, token : /\ rows = SubSeq(sorted, 1, Min({reader.size, Len(sorted)}))
                         /\ token = NextToken(sorted, reader.size)
  OBVIOUS
<1>9. reader.size \in Nat \ {0}
  BY SyncAssumption DEF ChainOK
<1>10. PageOf(R, rows, token)
  BY <1>5, <1>6, <1>7, <1>8, <1>9, PageIs
<1>11. UnconsumedNetworkNotes(db, pager.token, reader.size) = [rows |-> rows, token |-> token]
  BY <1>2, <1>7, <1>8 DEF UnconsumedNetworkNotes
<1>12. /\ DOMAIN pager' = DOMAIN pager
       /\ pager'.rows = pager.rows \o rows /\ pager'.token = token
       /\ pager'.pc = (IF token = 0 THEN "done" ELSE pager.pc)
       /\ pager'.started = pager.started
  BY <1>11 DEF NextPage, PagerOK, NoToken
<1>13. pager.token \in Nat /\ token \in 0 .. n
  BY <1>3, <1>4, <1>5, <1>10 DEF PagerOK, PageOf
<1>14. \A x \in ToSet(pager.rows) : x < pager.token /\ x \in 1 .. n
  BY <1>1, <1>3 DEF PagerOK
<1>15. ToSet(pager.rows) \cap ToSet(rows) = {}
  BY <1>4, <1>5, <1>10, <1>13, <1>14 DEF PageOf
<1>16. /\ IsSeq(pager'.rows) /\ ToSet(pager'.rows) = ToSet(pager.rows) \cup ToSet(rows)
       /\ IsInjective(pager'.rows)
  <2>1. IsSeq(pager.rows) /\ IsInjective(pager.rows) /\ IsSeq(rows) /\ IsInjective(rows)
    BY <1>10 DEF PagerOK, PageOf
  <2>2. /\ IsSeq(pager.rows \o rows)
        /\ ToSet(pager.rows \o rows) = ToSet(pager.rows) \cup ToSet(rows)
    BY <2>1, ConcatSeq
  <2>3. IsInjective(pager.rows \o rows)
    BY <1>15, <2>1, ConcatInjective
  <2> QED BY <1>12, <2>2, <2>3
<1>17. ToSet(pager'.rows) \subseteq 1 .. n
  BY <1>5, <1>10, <1>14, <1>16 DEF PageOf
<1>18. pager'.pc = "paging" => \A x \in ToSet(pager'.rows) : x < pager'.token
  <2> SUFFICES ASSUME token # 0, NEW x \in ToSet(pager.rows) \cup ToSet(rows) PROVE x < token
    BY <1>12, <1>16
  <2>1. token \in R /\ token >= pager.token
    BY <1>5, <1>10 DEF PageOf
  <2>2. CASE x \in ToSet(pager.rows)
    BY <1>4, <1>13, <1>14, <2>1, <2>2
  <2> QED BY <1>10, <2>2 DEF PageOf
<1>19. ASSUME NEW i \in 1 .. pager.started, db.notes[i].network, ~db.notes[i].consumed
       PROVE  i \in ToSet(pager'.rows) \/ (pager'.pc = "paging" /\ i >= pager'.token)
  <2>1. i \in 1 .. n
    BY <1>3, <1>4 DEF PagerOK
  <2>2. i \in ToSet(pager.rows) \/ i >= pager.token
    BY <1>19 DEF PagerOK
  <2>3. CASE i >= pager.token
    <3>1. i \in R
      BY <1>2, <1>4, <1>19, <2>1, <2>3
    <3>2. i \in ToSet(rows) \/ (token # 0 /\ i >= token)
      BY <1>10, <3>1 DEF PageOf
    <3> QED BY <1>1, <1>12, <1>16, <3>2
  <2> QED BY <1>16, <2>2, <2>3
<1>20. pager'.pc \in {"paging", "done"}
  BY <1>1, <1>12
<1>21. pager'.started \in 0 .. n /\ DOMAIN pager' = {"pc", "token", "rows", "started"}
  BY <1>3, <1>12 DEF PagerOK
<1>22. db' = db
  BY <1>1
<1> QED BY <1>3, <1>12, <1>13, <1>16, <1>17, <1>18, <1>19, <1>20, <1>21, <1>22 DEF PagerOK

LEMMA PagerStep == ChainOK /\ PagerOK /\ [Next]_vars => PagerOK'
<1> SUFFICES ASSUME ChainOK, PagerOK, [Next]_vars PROVE PagerOK'
  OBVIOUS
<1>1. CASE ApplyNextBlock
  BY <1>1, PagerGrows
<1>2. CASE NextPage
  BY <1>2, PagerPages
<1>3. CASE StartPaging
  <2>1. /\ db' = db /\ DOMAIN pager' = {"pc", "token", "rows", "started"} /\ pager'.pc = "paging"
        /\ pager'.token = 0 /\ pager'.rows = << >> /\ pager'.started = Len(db.notes)
    BY <1>3 DEF StartPaging, store, NoPages, NoToken
  <2>3. IsSeq(<< >>) /\ IsInjective(<< >>) /\ ToSet(<< >>) = {}
    BY DEF IsSeq, IsInjective, ToSet
  <2>4. Len(db.notes) \in Nat
    BY SeqIs DEF ChainOK, DbOK
  <2>5. Len(db.notes) \in 0 .. Len(db.notes) /\ \A i \in 1 .. Len(db.notes) : i >= 0
    BY <2>4
  <2> QED BY <2>1, <2>3, <2>4, <2>5 DEF PagerOK
<1>4. CASE ~ApplyNextBlock /\ pager' = pager
  <2>1. db' = db
    BY <1>4, ChainStays
  <2> QED BY <1>4, <2>1 DEF PagerOK
<1>5. CASE PageFails
  <2>1. db' = db /\ pager' = [pc |-> "start", token |-> 0, rows |-> << >>, started |-> 0]
    BY <1>5 DEF PageFails, store, NoPages, NoToken
  <2>2. IsSeq(<< >>) /\ IsInjective(<< >>) /\ ToSet(<< >>) = {} /\ 1 .. 0 = {}
    BY DEF IsSeq, IsInjective, ToSet
  <2>3. 0 \in 0 .. Len(db.notes)
    BY SeqIs DEF ChainOK, DbOK
  <2> QED BY <2>1, <2>2, <2>3 DEF PagerOK
<1> QED BY <1>1, <1>2, <1>3, <1>4, <1>5 DEF Next, vars, RestartStore, SyncState, SyncNotes, Receive, LoseReply,
      CheckNullifiersByPrefix, GetAccountDetails, SelectNoteProofs, OpenWitnesses, LoadHeaders
-----------------------------------------------------------------------------
(* INPUTS OF A BATCH OR A BLOCK *)

InputFields == {"pc", "proofs", "blocks", "reference", "accounts", "headers"}

(* What the queries so far have returned fits the chain up to the reference *)
(* block, which later blocks do not change.                                 *)
InputsOK ==
    /\ DOMAIN inputs = InputFields
    /\ inputs.pc \in {"start", "proofs", "opened", "done", "refused"}
    /\ inputs.pc = "proofs" => Range(inputs.proofs) \subseteq inputs.blocks /\ inputs.blocks \subseteq Nat
    /\ inputs.pc \in {"opened", "done"} =>
         /\ inputs.reference \in 0 .. Tip
         /\ \A b \in inputs.blocks : b \in Nat /\ b < inputs.reference
         /\ Range(inputs.proofs) \subseteq inputs.blocks \cup {inputs.reference}
         /\ inputs.accounts = past[inputs.reference + 1]
    /\ inputs.pc = "done" => inputs.headers = inputs.blocks \cup {inputs.reference}

LEMMA NoInputsIs == DOMAIN NoInputs = InputFields /\ NoInputs.pc = "start"
BY DEF NoInputs, InputFields

LEMMA InputsInit == Init => InputsOK
BY NoInputsIs DEF Init, InputsOK

LEMMA InputsGrow ==
    ASSUME ChainOK, InputsOK, ApplyNextBlock
    PROVE  InputsOK'
<1>1. Tip' = Tip + 1 /\ past' = Append(past, memory'.accounts) /\ inputs' = inputs
  BY ChainGrows
<1>2. Tip \in Nat /\ past \in Seq(ToSet(past)) /\ Len(past) = Tip + 1
  BY DEF ChainOK, DbOK, IsSeq
<1>3. \A k \in 0 .. Tip : k \in 0 .. Tip + 1 /\ k + 1 \in 1 .. Len(past)
  BY <1>2
<1>4. PICK x : x = memory'.accounts
  OBVIOUS
<1>5. \A k \in 0 .. Tip : past'[k + 1] = past[k + 1]
  <2>1. past \in Seq(ToSet(past) \cup {x}) /\ x \in ToSet(past) \cup {x} /\ past' = Append(past, x)
    BY <1>1, <1>2, <1>4
  <2>2. \A i \in 1 .. Len(past) : Append(past, x)[i] = past[i]
    BY <2>1
  <2> QED BY <1>3, <2>1, <2>2
<1> QED BY <1>1, <1>3, <1>5 DEF InputsOK

LEMMA NoteProofs ==
    ASSUME ChainOK, InputsOK, SelectNoteProofs
    PROVE  InputsOK'
<1>1. PICK proofs : proofs = SelectNoteInclusionProofs(db, reader.notes)
  OBVIOUS
<1>2. /\ DOMAIN inputs' = DOMAIN inputs /\ inputs'.pc = "proofs" /\ inputs'.proofs = proofs
      /\ inputs'.blocks = reader.refs \cup Range(proofs)
  BY <1>1 DEF SelectNoteProofs, InputsOK, InputFields
<1>3. PICK found : found = {n \in ToSet(db.notes) : n.id \in reader.notes}
  OBVIOUS
<1>4. proofs = [id \in {n.id : n \in found} |-> (CHOOSE n \in found : n.id = id).block]
  BY <1>1, <1>3 DEF SelectNoteInclusionProofs
<1>5. \A n \in found : n.block \in Nat
  <2> SUFFICES ASSUME NEW n \in found PROVE n.block \in Nat
    OBVIOUS
  <2>1. IsSeq(db.notes)
    BY DEF ChainOK, DbOK
  <2>2. PICK i \in 1 .. Len(db.notes) : n = db.notes[i]
    BY <1>3, <2>1, SeqIs DEF ToSet
  <2> QED BY <2>2 DEF ChainOK, DbOK
<1>6. \A id \in DOMAIN proofs : proofs[id] \in Nat
  <2> SUFFICES ASSUME NEW n \in found PROVE proofs[n.id] \in Nat
    BY <1>4
  <2>1. PICK c : c = CHOOSE q \in found : q.id = n.id
    OBVIOUS
  <2>2. c \in found
    BY <2>1
  <2> QED BY <1>4, <1>5, <2>1, <2>2
<1>7. reader.refs \subseteq Nat
  BY SyncAssumption DEF ChainOK
<1>8. inputs'.blocks \subseteq Nat
  BY <1>2, <1>6, <1>7 DEF Range
<1> QED BY <1>2, <1>8 DEF InputsOK

LEMMA LatestIs ==
    ASSUME ChainOK
    PROVE  LatestBlock = Tip /\ Tip \in Nat
<1>1. Tip \in Nat /\ db.headers = 0 .. Tip /\ memory = Load(db)
  BY DEF ChainOK, DbOK, MemoryReloads
<1>2. memory.mmr = [i \in 1 .. Tip + 1 |-> i - 1]
  BY <1>1, AscendingInterval DEF Load, SelectAllBlockHeaders
<1>3. Len(memory.mmr) = Tip + 1
  BY <1>1, <1>2
<1> QED BY <1>1, <1>3 DEF LatestBlock

LEMMA Witnesses ==
    ASSUME ChainOK, InputsOK, OpenWitnesses
    PROVE  InputsOK'
<1>1. UNCHANGED <<db, memory, past, reader>> /\ inputs.pc = "proofs" /\ Tip' = Tip
  BY DEF OpenWitnesses, store, Tip
<1>2. LatestBlock = Tip /\ Tip \in Nat
  BY LatestIs
<1>3. CASE \E b \in inputs.blocks : b > LatestBlock
  <2>1. DOMAIN inputs' = DOMAIN inputs /\ inputs'.pc = "refused"
    BY <1>3 DEF OpenWitnesses, InputsOK, InputFields
  <2> QED BY <2>1 DEF InputsOK
<1>4. CASE ~\E b \in inputs.blocks : b > LatestBlock
  <2>1. /\ DOMAIN inputs' = DOMAIN inputs /\ inputs'.pc = "opened" /\ inputs'.reference = Tip
        /\ inputs'.blocks = inputs.blocks \ {Tip} /\ inputs'.accounts = memory.accounts
        /\ inputs'.proofs = inputs.proofs
    BY <1>2, <1>4 DEF OpenWitnesses, InputsOK, InputFields, WithoutReference
  <2>2. \A b \in inputs'.blocks : b \in Nat /\ b < Tip
    BY <1>1, <1>2, <1>4, <2>1 DEF InputsOK
  <2>3. Range(inputs'.proofs) \subseteq inputs'.blocks \cup {Tip}
    BY <1>1, <2>1 DEF InputsOK
  <2>4. inputs'.accounts = past[Tip + 1]
    BY <2>1 DEF ChainOK
  <2>5. Tip \in 0 .. Tip
    BY <1>2
  <2>6. past' = past
    BY <1>1
  <2> QED BY <1>1, <2>1, <2>2, <2>3, <2>4, <2>5, <2>6 DEF InputsOK
<1> QED BY <1>3, <1>4

LEMMA Headers ==
    ASSUME ChainOK, InputsOK, LoadHeaders
    PROVE  InputsOK'
<1>1. UNCHANGED <<db, memory, past, reader>> /\ inputs.pc = "opened" /\ Tip' = Tip
  BY DEF LoadHeaders, store, Tip
<1>2. PICK wanted : wanted = inputs.blocks \cup {inputs.reference}
  OBVIOUS
<1>3. CASE WithinLimit(wanted)
  <2>1. /\ DOMAIN inputs' = DOMAIN inputs /\ inputs'.pc = "done" /\ inputs'.headers = wanted \cap db.headers
        /\ inputs'.blocks = inputs.blocks /\ inputs'.reference = inputs.reference
        /\ inputs'.proofs = inputs.proofs /\ inputs'.accounts = inputs.accounts
    BY <1>2, <1>3 DEF LoadHeaders, InputsOK, InputFields, SelectBlockHeaders
  <2>2. Tip \in Nat /\ db.headers = 0 .. Tip /\ inputs.reference \in 0 .. Tip
    BY <1>1 DEF ChainOK, DbOK, InputsOK
  <2>3. \A b \in inputs.blocks : b \in 0 .. Tip
    BY <1>1, <2>2 DEF InputsOK
  <2>4. wanted \cap db.headers = wanted
    BY <1>2, <2>2, <2>3
  <2>5. past' = past
    BY <1>1
  <2> QED BY <1>1, <1>2, <2>1, <2>4, <2>5 DEF InputsOK
<1>4. CASE ~WithinLimit(wanted)
  <2>1. DOMAIN inputs' = DOMAIN inputs /\ inputs'.pc = "refused"
    BY <1>2, <1>4 DEF LoadHeaders, InputsOK, InputFields
  <2> QED BY <2>1 DEF InputsOK
<1> QED BY <1>3, <1>4

LEMMA InputsStep == ChainOK /\ InputsOK /\ [Next]_vars => InputsOK'
<1> SUFFICES ASSUME ChainOK, InputsOK, [Next]_vars PROVE InputsOK'
  OBVIOUS
<1>1. CASE ApplyNextBlock
  BY <1>1, InputsGrow
<1>2. CASE SelectNoteProofs
  BY <1>2, NoteProofs
<1>3. CASE OpenWitnesses
  BY <1>3, Witnesses
<1>4. CASE LoadHeaders
  BY <1>4, Headers
<1>5. CASE ~ApplyNextBlock /\ inputs' \in {inputs, NoInputs}
  <2>1. UNCHANGED <<db, past>>
    BY <1>5, ChainStays
  <2>2. Tip' = Tip
    BY <2>1 DEF Tip
  <2>3. CASE inputs' = inputs
    BY <2>1, <2>2, <2>3 DEF InputsOK
  <2>4. CASE inputs' = NoInputs
    BY <2>4, NoInputsIs DEF InputsOK
  <2> QED BY <1>5, <2>3, <2>4
<1> QED BY <1>1, <1>2, <1>3, <1>4, <1>5 DEF Next, vars, RestartStore, SyncState, SyncNotes, Receive,
      LoseReply, CheckNullifiersByPrefix, GetAccountDetails, StartPaging, NextPage, PageFails

-----------------------------------------------------------------------------
(* A CLIENT THAT FOLLOWS THE CHAIN *)

(* The rows of the notes a reader follows up to block k.                    *)
Follows(r, n) == Match(n, r.tags, IF r.kind = "state" THEN r.ids ELSE {})
SeenRows(d, r, k) == {i \in 1 .. Len(d.notes) : Follows(r, d.notes[i]) /\ d.notes[i].block <= k}

LEMMA SeenFinite ==
    ASSUME NEW d, NEW r, NEW k, IsSeq(d.notes)
    PROVE  IsFiniteSet(1 .. Len(d.notes)) /\ IsFiniteSet(SeenRows(d, r, k))
           /\ SeenRows(d, r, k) \subseteq 1 .. Len(d.notes)
<1>1. Len(d.notes) \in Nat
  BY SeqIs
<1>2. IsFiniteSet(1 .. Len(d.notes))
  BY <1>1, FS_Interval
<1>3. SeenRows(d, r, k) \subseteq 1 .. Len(d.notes)
  BY DEF SeenRows
<1> QED BY <1>2, <1>3, FS_Subset

(* Later blocks change nothing of what a reader has seen.                   *)
LEMMA SeenStays ==
    ASSUME NEW d, NEW e, NEW k, DbOK(d, k), DbOK(e, k + 1), Grown(d, e, k + 1), NEW r, NEW h \in 0 .. k
    PROVE  SeenRows(e, r, h) = SeenRows(d, r, h)
<1>1. PICK m, n : m = Len(d.notes) /\ n = Len(e.notes)
  OBVIOUS
<1>2. m \in Nat /\ n \in Nat /\ m <= n /\ k \in Nat
  BY <1>1, SeqIs DEF DbOK, Grown
<1>3. \A i \in 1 .. m : i \in 1 .. n /\ Kept(e.notes[i], d.notes[i])
  BY <1>1, <1>2 DEF Grown
<1>4. \A i \in 1 .. m : /\ Follows(r, e.notes[i]) <=> Follows(r, d.notes[i])
                        /\ e.notes[i].block = d.notes[i].block
  BY <1>3 DEF Kept, Follows, Match
<1>5. \A i \in 1 .. n : i \in 1 .. m \/ (e.notes[i].block = k + 1 /\ ~(e.notes[i].block <= h))
  BY <1>1, <1>2 DEF Grown
<1> QED BY <1>1, <1>3, <1>4, <1>5 DEF SeenRows

(* A sync answers with the next notes: its header is the first block after  *)
(* the client's that has any, or the latest, and nothing is in between.     *)
LEMMA NextNotes ==
    ASSUME NEW d, NEW k, DbOK(d, k), NEW r, NEW b \in 0 .. k,
           NEW notes, notes = SelectNotesSinceBlock(d, r.tags, IF r.kind = "state" THEN r.ids ELSE {}, b),
           NEW h, h = SyncHeader(d, notes)
    PROVE  /\ h \in b .. k
           /\ notes = SeenRows(d, r, h) \ SeenRows(d, r, b)
<1>1. PICK n : n = Len(d.notes)
  OBVIOUS
<1>2. k \in Nat /\ IsSeq(d.notes) /\ n \in Nat /\ DOMAIN d.notes = 1 .. n
  BY <1>1, SeqIs DEF DbOK
<1>3. \A i \in 1 .. n : d.notes[i].block \in 0 .. k
  BY <1>1 DEF DbOK
<1>4. PICK blocks : blocks = MatchingBlocks(d, r.tags, IF r.kind = "state" THEN r.ids ELSE {}, b)
  OBVIOUS
<1>5. blocks = {d.notes[i].block : i \in {j \in 1 .. n : Follows(r, d.notes[j]) /\ d.notes[j].block > b}}
  BY <1>2, <1>4 DEF MatchingBlocks, Follows, ToSet
<1>6. CASE blocks = {}
  <2>1. notes = {}
    BY <1>4, <1>6 DEF SelectNotesSinceBlock
  <2>2. h = k
    BY <2>1, TipIs DEF SyncHeader
  <2>3. SeenRows(d, r, h) \ SeenRows(d, r, b) = {}
    <3> SUFFICES ASSUME NEW i \in 1 .. n, Follows(r, d.notes[i]), ~(d.notes[i].block <= b) PROVE FALSE
      BY <1>1 DEF SeenRows
    <3>1. d.notes[i].block > b
      BY <1>2, <1>3
    <3> QED BY <1>5, <1>6, <3>1
  <2>8. h \in b .. k
    BY <1>2, <2>2
  <2> QED BY <2>1, <2>3, <2>8
<1>7. CASE blocks # {}
  <2>1. blocks \subseteq Nat
    BY <1>2, <1>3, <1>5
  <2>2. PICK f : f = Min(blocks)
    OBVIOUS
  <2>3. f \in blocks /\ \A x \in blocks : f <= x
    BY <1>7, <2>1, <2>2, LeastOf
  <2>4. PICK S : S = {i \in 1 .. n : Follows(r, d.notes[i]) /\ d.notes[i].block = f}
    OBVIOUS
  <2>5. notes = S
    BY <1>2, <1>4, <1>7, <2>2, <2>4 DEF SelectNotesSinceBlock, Follows
  <2>6. f \in 0 .. k /\ f > b /\ S # {}
    BY <1>2, <1>3, <1>5, <2>3, <2>4
  <2>7. d.notes[CHOOSE i \in S : TRUE].block = f
    BY <2>4, <2>6
  <2>10. h = f
    BY <2>5, <2>6, <2>7 DEF SyncHeader, FirstBlock
  <2>11. SeenRows(d, r, f) \ SeenRows(d, r, b) = S
    <3>1. ASSUME NEW i \in 1 .. n, Follows(r, d.notes[i]), d.notes[i].block <= f, ~(d.notes[i].block <= b)
          PROVE  d.notes[i].block = f
      <4>1. d.notes[i].block > b
        BY <1>2, <1>3, <3>1
      <4>2. d.notes[i].block \in blocks
        BY <1>5, <3>1, <4>1
      <4>3. f <= d.notes[i].block /\ f \in Nat /\ d.notes[i].block \in Nat
        BY <2>1, <2>3, <4>2
      <4> QED BY <3>1, <4>3
    <3>2. f <= f /\ ~(f <= b)
      BY <1>2, <2>6
    <3> QED BY <1>1, <2>4, <3>1, <3>2 DEF SeenRows
  <2>13. h \in b .. k
    BY <1>2, <2>6, <2>10
  <2> QED BY <2>5, <2>10, <2>11, <2>13
<1> QED BY <1>6, <1>7

(* What a client has: every part of it exactly as of its block.  The        *)
(* nullifiers are asked for in a request of their own, after each answer.   *)
ClientFields == {"pc", "block", "since", "accounts", "notes", "txs", "mmr", "nullifiers", "reply"}
Syncs(r) == r.kind \in {"state", "notes"}
TxsUpTo(d, r, k) == {t \in d.txs : t.account \in r.ids /\ t.block <= k}

Position(c, k) ==
    /\ DOMAIN c = ClientFields /\ c.pc \in {"idle", "answered", "moved"}
    /\ c.block \in 0 .. k /\ c.since \in 0 .. c.block
HasNotes(d, r, c) ==
    Syncs(r) =>
    IsSeq(c.notes) /\ IsInjective(c.notes) /\ ToSet(c.notes) = SeenRows(d, r, c.block)
HasTxs(d, r, c) ==
    r.kind = "state" =>
    IsSeq(c.txs) /\ IsInjective(c.txs) /\ ToSet(c.txs) = TxsUpTo(d, r, c.block)
HasMmr(r, c) == r.kind = "state" => c.mmr = [i \in 1 .. c.block + 1 |-> i - 1]
NullifiersTo(c) == IF c.pc = "moved" THEN c.since ELSE c.block
HasNullifiers(d, r, c) ==
    /\ c.nullifiers \subseteq d.nullifiers
    /\ \A q \in d.nullifiers :
         q.nullifier \in r.nullifiers /\ q.block <= NullifiersTo(c) => q \in c.nullifiers
HasAccounts(d, r, c) ==
    /\ DOMAIN c.accounts \subseteq r.ids
    /\ r.kind = "state" =>
         \A a \in r.ids \cap DOMAIN d.accounts :
            \/ a \in DOMAIN c.accounts /\ c.accounts[a] = d.accounts[a].commitment
            \/ d.accounts[a].block > c.block

(* An answer under way is the difference between two blocks; of the         *)
(* accounts it may since have become outdated, but then they changed after  *)
(* its header.                                                              *)
Delivers(d, r, c) ==
    LET p == c.reply IN
    /\ p.txs = TxsUpTo(d, r, p.header) \ TxsUpTo(d, r, c.block)
    /\ p.header # c.block => p.mmr = [i \in 1 .. p.header - c.block - 1 |-> c.block + i]
    /\ \A a \in r.ids \cap DOMAIN d.accounts :
         \/ d.accounts[a].block > p.header
         \/ a \in DOMAIN p.accounts /\ p.accounts[a] = d.accounts[a].commitment
         \/ a \notin DOMAIN p.accounts /\ d.accounts[a].block <= c.block
Answers(d, r, c, k) ==
    LET p == c.reply IN
    /\ Syncs(r) /\ p.header \in c.block .. k
    /\ p.notes = SeenRows(d, r, p.header) \ SeenRows(d, r, c.block)
    /\ DOMAIN p.accounts \subseteq r.ids
    /\ r.kind = "state" => Delivers(d, r, c)

InStep(d, r, c, k) ==
    /\ Position(c, k) /\ HasNotes(d, r, c) /\ HasTxs(d, r, c) /\ HasMmr(r, c)
    /\ HasNullifiers(d, r, c) /\ HasAccounts(d, r, c)
    /\ c.pc = "answered" => Answers(d, r, c, k)

ClientOK == InStep(db, reader, client, Tip)

LEMMA ClientInit == Init => ClientOK
<1> SUFFICES ASSUME Init PROVE ClientOK
  OBVIOUS
<1>1. /\ db = GenesisDb /\ memory = Load(db)
      /\ client = [pc |-> "idle", block |-> 0, since |-> 0,
                   accounts |-> Restrict(memory.accounts, reader.ids \cap DOMAIN memory.accounts),
                   notes |-> << >>, txs |-> << >>, mmr |-> <<0>>, nullifiers |-> {}, reply |-> << >>]
  BY DEF Init
<1>2. DbOK(db, 0) /\ db.notes = << >> /\ db.txs = {} /\ db.nullifiers = {}
  BY <1>1, GenesisOK
<1>3. Tip = 0
  BY <1>2, TipIs DEF Tip
<1>4. /\ DOMAIN client = ClientFields /\ client.pc = "idle" /\ client.block = 0 /\ client.since = 0
      /\ client.notes = << >> /\ client.txs = << >> /\ client.mmr = <<0>> /\ client.nullifiers = {}
      /\ client.accounts = Restrict(memory.accounts, reader.ids \cap DOMAIN memory.accounts)
  BY <1>1 DEF ClientFields
<1>5. Position(client, 0)
  BY <1>4 DEF Position
<1>6. HasNotes(db, reader, client)
  <2>1. SeenRows(db, reader, 0) = {}
    BY <1>2 DEF SeenRows
  <2>2. IsSeq(<< >>) /\ IsInjective(<< >>) /\ ToSet(<< >>) = {}
    BY DEF IsSeq, IsInjective, ToSet
  <2> QED BY <1>4, <2>1, <2>2 DEF HasNotes
<1>7. HasTxs(db, reader, client)
  <2>1. IsSeq(<< >>) /\ IsInjective(<< >>) /\ ToSet(<< >>) = {}
    BY DEF IsSeq, IsInjective, ToSet
  <2> QED BY <1>2, <1>4, <2>1 DEF HasTxs, TxsUpTo
<1>8. HasMmr(reader, client)
  <2>1. <<0>> = [i \in 1 .. 0 + 1 |-> i - 1]
    OBVIOUS
  <2> QED BY <1>4, <2>1 DEF HasMmr
<1>9. HasNullifiers(db, reader, client)
  BY <1>2, <1>4 DEF HasNullifiers
<1>10. HasAccounts(db, reader, client)
  <2>1. memory.accounts = [a \in DOMAIN db.accounts |-> db.accounts[a].commitment]
    BY <1>1 DEF Load, SelectAllAccountCommitments
  <2>2. client.accounts = [a \in reader.ids \cap DOMAIN db.accounts |-> db.accounts[a].commitment]
    BY <1>4, <2>1 DEF Restrict
  <2> QED BY <2>2 DEF HasAccounts
<1> QED BY <1>3, <1>4, <1>5, <1>6, <1>7, <1>8, <1>9, <1>10 DEF ClientOK, InStep

LEMMA ClientGrows ==
    ASSUME NEW d, NEW e, NEW k, DbOK(d, k), DbOK(e, k + 1), Grown(d, e, k + 1),
           NEW r, NEW c, InStep(d, r, c, k)
    PROVE  InStep(e, r, c, k + 1)
<1>1. k \in Nat /\ c.block \in 0 .. k /\ c.since \in 0 .. c.block
  BY DEF DbOK, InStep, Position
<1>2. Position(c, k + 1)
  BY <1>1 DEF InStep, Position
<1>3. ASSUME NEW h \in 0 .. k
      PROVE  /\ SeenRows(e, r, h) = SeenRows(d, r, h) /\ TxsUpTo(e, r, h) = TxsUpTo(d, r, h)
             /\ ~(k + 1 <= h)
  <2>1. SeenRows(e, r, h) = SeenRows(d, r, h)
    BY SeenStays
  <2>2. ~(k + 1 <= h)
    BY <1>1
  <2>3. TxsUpTo(e, r, h) = TxsUpTo(d, r, h)
    BY <2>2 DEF TxsUpTo, Grown
  <2> QED BY <2>1, <2>2, <2>3
<1>4. HasNotes(e, r, c)
  BY <1>1, <1>3 DEF InStep, HasNotes
<1>5. HasTxs(e, r, c)
  BY <1>1, <1>3 DEF InStep, HasTxs
<1>6. HasMmr(r, c)
  BY DEF InStep
<1>7. HasNullifiers(e, r, c)
  <2>1. NullifiersTo(c) \in 0 .. k
    BY <1>1 DEF NullifiersTo
  <2>2. \A q \in e.nullifiers : q \in d.nullifiers \/ ~(q.block <= NullifiersTo(c))
    BY <1>3, <2>1 DEF Grown
  <2> QED BY <2>2 DEF InStep, HasNullifiers, Grown
<1>8. ASSUME NEW a \in DOMAIN e.accounts
      PROVE  e.accounts[a].block = k + 1 \/ (a \in DOMAIN d.accounts /\ e.accounts[a] = d.accounts[a])
  BY DEF Grown
<1>9. HasAccounts(e, r, c)
  <2>1. k + 1 > c.block
    BY <1>1
  <2> QED BY <1>8, <2>1 DEF InStep, HasAccounts
<1>10. ASSUME c.pc = "answered" PROVE Answers(e, r, c, k + 1)
  <2>1. PICK p : p = c.reply
    OBVIOUS
  <2>2. Answers(d, r, c, k) /\ p.header \in c.block .. k
    BY <1>10, <2>1 DEF InStep, Answers
  <2>3. p.header \in 0 .. k /\ p.header \in c.block .. k + 1 /\ k + 1 > p.header
    BY <1>1, <2>2
  <2>4. p.notes = SeenRows(d, r, p.header) \ SeenRows(d, r, c.block)
    BY <2>1, <2>2 DEF Answers
  <2>5. p.notes = SeenRows(e, r, p.header) \ SeenRows(e, r, c.block)
    BY <1>1, <1>3, <2>3, <2>4
  <2>7. r.kind = "state" => Delivers(e, r, c)
    <3> SUFFICES ASSUME r.kind = "state" PROVE Delivers(e, r, c)
      OBVIOUS
    <3>1. Delivers(d, r, c)
      BY <2>2 DEF Answers
    <3>2. \A a \in r.ids \cap DOMAIN e.accounts :
           \/ e.accounts[a].block > p.header
           \/ a \in DOMAIN p.accounts /\ p.accounts[a] = e.accounts[a].commitment
           \/ a \notin DOMAIN p.accounts /\ e.accounts[a].block <= c.block
      BY <1>8, <2>1, <2>3, <3>1 DEF Delivers
    <3>3. p.txs = TxsUpTo(e, r, p.header) \ TxsUpTo(e, r, c.block)
      BY <1>1, <1>3, <2>1, <2>3, <3>1 DEF Delivers
    <3> QED BY <2>1, <3>1, <3>2, <3>3 DEF Delivers
  <2> QED BY <2>1, <2>2, <2>3, <2>5, <2>7 DEF Answers
<1> QED BY <1>2, <1>4, <1>5, <1>6, <1>7, <1>9, <1>10 DEF InStep

(* An answer that is lost, or whose server restarts, leaves no trace.       *)
LEMMA ClientForgets ==
    ASSUME NEW d, NEW r, NEW k, NEW c, NEW x, InStep(d, r, c, k), c.pc = "answered",
           x = [c EXCEPT !.pc = "idle", !.reply = << >>]
    PROVE  InStep(d, r, x, k)
<1>1. DOMAIN c = ClientFields
  BY DEF InStep, Position
<1>2. /\ DOMAIN x = ClientFields /\ x.pc = "idle" /\ x.block = c.block /\ x.since = c.since
      /\ x.accounts = c.accounts /\ x.notes = c.notes /\ x.txs = c.txs /\ x.mmr = c.mmr
      /\ x.nullifiers = c.nullifiers
  BY <1>1 DEF ClientFields
<1>3. NullifiersTo(x) = NullifiersTo(c)
  BY <1>2 DEF NullifiersTo
<1> QED BY <1>2, <1>3 DEF InStep, Position, HasNotes, HasTxs, HasMmr, HasNullifiers, HasAccounts

(* A request changes pc and reply only: what remains is that it answers.    *)
Replied(c, p) == [c EXCEPT !.pc = "answered", !.reply = p]

LEMMA ClientAnswered ==
    ASSUME NEW d, NEW r, NEW k, NEW c, NEW p, NEW x, InStep(d, r, c, k), c.pc = "idle",
           x = Replied(c, p), Answers(d, r, x, k)
    PROVE  InStep(d, r, x, k)
<1>1. DOMAIN c = ClientFields
  BY DEF InStep, Position
<1>2. /\ DOMAIN x = ClientFields /\ x.pc = "answered" /\ x.block = c.block /\ x.since = c.since
      /\ x.accounts = c.accounts /\ x.notes = c.notes /\ x.txs = c.txs /\ x.mmr = c.mmr
      /\ x.nullifiers = c.nullifiers
  BY <1>1 DEF ClientFields, Replied
<1>3. NullifiersTo(x) = NullifiersTo(c)
  BY <1>2 DEF NullifiersTo
<1> QED BY <1>2, <1>3 DEF InStep, Position, HasNotes, HasTxs, HasMmr, HasNullifiers, HasAccounts

LEMMA SyncNotesAnswers ==
    ASSUME ChainOK, ClientOK, SyncNotes
    PROVE  ClientOK'
<1>1. /\ UNCHANGED <<db, memory, past, reader>> /\ Tip' = Tip /\ reader.kind = "notes"
      /\ client.pc = "idle"
  BY DEF SyncNotes, store, Tip
<1>2. PICK notes, h : /\ notes = SelectNotesSinceBlock(db, reader.tags, {}, client.block)
                      /\ h = SyncHeader(db, notes)
  OBVIOUS
<1>3. PICK p : p = [notes |-> notes, header |-> h, txs |-> {}, accounts |-> NoEntries, mmr |-> << >>]
  OBVIOUS
<1>4. client' = [client EXCEPT !.pc = "answered", !.reply = p]
  <2>1. PICK s : /\ s = GetNoteSync(db, client.block, reader.tags)
                 /\ client' = [client EXCEPT
                      !.pc = "answered",
                      !.reply = [notes |-> s.notes, header |-> s.header, txs |-> {},
                                 accounts |-> NoEntries, mmr |-> << >>]]
    BY DEF SyncNotes
  <2>2. s.notes = notes /\ s.header = h
    BY <1>2, <2>1 DEF GetNoteSync
  <2> QED BY <1>3, <2>1, <2>2
<1>5. DbOK(db, Tip) /\ client.block \in 0 .. Tip
  BY DEF ChainOK, ClientOK, InStep, Position
<1>6. /\ h \in client.block .. Tip
      /\ notes = SeenRows(db, reader, h) \ SeenRows(db, reader, client.block)
  <2>1. PICK d, k, r, b : d = db /\ k = Tip /\ r = reader /\ b = client.block
    OBVIOUS
  <2>2. notes = SelectNotesSinceBlock(d, r.tags, IF r.kind = "state" THEN r.ids ELSE {}, b)
        /\ h = SyncHeader(d, notes) /\ DbOK(d, k) /\ b \in 0 .. k
    BY <1>1, <1>2, <1>5, <2>1
  <2>3. h \in b .. k /\ notes = SeenRows(d, r, h) \ SeenRows(d, r, b)
    BY <2>2, NextNotes
  <2> QED BY <2>1, <2>3
<1>7. client'.reply = p /\ client'.block = client.block
  BY <1>4 DEF ClientOK, InStep, Position, ClientFields
<1>8. p.header = h /\ p.notes = notes /\ DOMAIN p.accounts = {}
  BY <1>3 DEF NoEntries
<1>9. Answers(db, reader, client', Tip)
  BY <1>1, <1>6, <1>7, <1>8 DEF Answers, Syncs
<1>10. InStep(db, reader, client', Tip)
  <2>1. PICK c, k, x : c = client /\ k = Tip /\ x = client'
    OBVIOUS
  <2>2. InStep(db, reader, c, k) /\ c.pc = "idle" /\ Answers(db, reader, x, k)
    BY <1>1, <1>9, <2>1 DEF ClientOK
  <2>3. x = Replied(c, p)
    BY <1>4, <2>1 DEF Replied
  <2>4. InStep(db, reader, x, k)
    BY <2>2, <2>3, ClientAnswered
  <2> QED BY <2>1, <2>4
<1> QED BY <1>1, <1>10 DEF ClientOK

LEMMA SyncStateAnswers ==
    ASSUME ChainOK, ClientOK, SyncState
    PROVE  ClientOK'
<1>1. /\ UNCHANGED <<db, memory, past, reader>> /\ Tip' = Tip /\ reader.kind = "state"
      /\ client.pc = "idle"
  BY DEF SyncState, store, Tip
<1>2. PICK b : b = client.block
  OBVIOUS
<1>3. PICK notes, h : /\ notes = SelectNotesSinceBlock(db, reader.tags, reader.ids, b)
                      /\ h = SyncHeader(db, notes)
  OBVIOUS
<1>4. PICK accounts, txs : /\ accounts = SelectAccountsByBlockRange(db, b, h, reader.ids)
                           /\ txs = SelectTransactions(db, b, h, reader.ids)
  OBVIOUS
<1>5. PICK p : p = [notes |-> notes, header |-> h, txs |-> txs,
                    accounts |-> [a \in accounts |-> SelectAccount(db, a).commitment],
                    mmr |-> MmrDelta(b, h)]
  OBVIOUS
<1>6. client' = [client EXCEPT !.pc = "answered", !.reply = p]
  <2>1. PICK s : /\ s = GetStateSync(db, b, reader.ids, reader.tags)
                 /\ client' = [client EXCEPT
                      !.pc = "answered",
                      !.reply = [notes |-> s.notes, header |-> s.header, txs |-> s.txs,
                                 accounts |-> [a \in s.accounts |-> SelectAccount(db, a).commitment],
                                 mmr |-> MmrDelta(b, s.header)]]
    BY <1>2 DEF SyncState
  <2>2. s.notes = notes /\ s.header = h /\ s.txs = txs /\ s.accounts = accounts
    BY <1>3, <1>4, <2>1 DEF GetStateSync
  <2> QED BY <1>5, <2>1, <2>2
<1>7. DbOK(db, Tip) /\ b \in 0 .. Tip /\ Tip \in Nat
  BY <1>2 DEF ChainOK, ClientOK, InStep, Position, DbOK
<1>8. /\ h \in b .. Tip
      /\ notes = SeenRows(db, reader, h) \ SeenRows(db, reader, b)
  <2>1. PICK d, k, r : d = db /\ k = Tip /\ r = reader
    OBVIOUS
  <2>2. notes = SelectNotesSinceBlock(d, r.tags, IF r.kind = "state" THEN r.ids ELSE {}, b)
        /\ h = SyncHeader(d, notes) /\ DbOK(d, k) /\ b \in 0 .. k
    BY <1>1, <1>3, <1>7, <2>1
  <2>3. h \in b .. k /\ notes = SeenRows(d, r, h) \ SeenRows(d, r, b)
    BY <2>2, NextNotes
  <2> QED BY <2>1, <2>3
<1>9. client'.reply = p /\ client'.block = b
  BY <1>2, <1>6 DEF ClientOK, InStep, Position, ClientFields
<1>10. /\ p.header = h /\ p.notes = notes /\ p.txs = txs /\ p.mmr = MmrDelta(b, h)
       /\ p.accounts = [a \in accounts |-> db.accounts[a].commitment]
  BY <1>5 DEF SelectAccount
<1>11. \A t \in db.txs : t.block \in Nat
  BY <1>7 DEF DbOK
<1>12. txs = TxsUpTo(db, reader, h) \ TxsUpTo(db, reader, b)
  BY <1>4, <1>7, <1>8, <1>11 DEF SelectTransactions, InRange, TxsUpTo
<1>13. h # b => MmrDelta(b, h) = [i \in 1 .. h - b - 1 |-> b + i]
  <2> SUFFICES ASSUME h # b PROVE MmrDelta(b, h) = [i \in 1 .. h - b - 1 |-> b + i]
    OBVIOUS
  <2>1. PICK m : m = memory.mmr
    OBVIOUS
  <2>2. m = [i \in 1 .. Tip + 1 |-> i - 1]
    BY <1>7, <2>1, AscendingInterval DEF ChainOK, MemoryReloads, Load, SelectAllBlockHeaders, DbOK
  <2>3. MmrDelta(b, h) = SubSeq(m, b + 2, h)
    BY <2>1 DEF MmrDelta
  <2>4. m \in Seq(Int) /\ Len(m) = Tip + 1
    BY <1>7, <2>2
  <2>5. SubSeq(m, b + 2, h) = [i \in 1 .. h - (b + 2) + 1 |-> m[i + (b + 2) - 1]]
    BY <1>7, <1>8, <2>4
  <2>6. h - (b + 2) + 1 = h - b - 1
    BY <1>7, <1>8
  <2>7. \A i \in 1 .. h - b - 1 : i + (b + 2) - 1 \in 1 .. Tip + 1 /\ (i + (b + 2) - 1) - 1 = b + i
    BY <1>7, <1>8
  <2>8. \A i \in 1 .. h - b - 1 : m[i + (b + 2) - 1] = b + i
    BY <2>2, <2>7
  <2> QED BY <2>3, <2>5, <2>6, <2>8
<1>14. DOMAIN p.accounts = accounts /\ accounts \subseteq reader.ids
  BY <1>4, <1>10 DEF SelectAccountsByBlockRange
<1>15. ASSUME NEW a \in reader.ids \cap DOMAIN db.accounts
       PROVE  \/ db.accounts[a].block > h
              \/ a \in DOMAIN p.accounts /\ p.accounts[a] = db.accounts[a].commitment
              \/ a \notin DOMAIN p.accounts /\ db.accounts[a].block <= b
  <2>1. db.accounts[a].block \in Nat
    BY <1>7 DEF DbOK
  <2>2. a \in accounts <=> db.accounts[a].block > b /\ db.accounts[a].block <= h
    BY <1>4 DEF SelectAccountsByBlockRange, InRange
  <2> QED BY <1>7, <1>8, <1>10, <1>14, <2>1, <2>2
<1>16. Delivers(db, reader, client')
  BY <1>9, <1>10, <1>12, <1>13, <1>15 DEF Delivers
<1>17. Answers(db, reader, client', Tip)
  BY <1>1, <1>8, <1>9, <1>10, <1>14, <1>16 DEF Answers, Syncs
<1>18. InStep(db, reader, client', Tip)
  <2>1. PICK c, k, x : c = client /\ k = Tip /\ x = client'
    OBVIOUS
  <2>2. InStep(db, reader, c, k) /\ c.pc = "idle" /\ Answers(db, reader, x, k)
    BY <1>1, <1>17, <2>1 DEF ClientOK
  <2>3. x = Replied(c, p)
    BY <1>6, <2>1 DEF Replied
  <2>4. InStep(db, reader, x, k)
    BY <2>2, <2>3, ClientAnswered
  <2> QED BY <2>1, <2>4
<1> QED BY <1>1, <1>18 DEF ClientOK

LEMMA NullifiersChecked ==
    ASSUME ChainOK, ClientOK, CheckNullifiersByPrefix
    PROVE  ClientOK'
<1>1. UNCHANGED <<db, memory, past, reader>> /\ Tip' = Tip /\ client.pc = "moved"
  BY DEF CheckNullifiersByPrefix, store, Tip
<1>2. PICK x : x = client'
  OBVIOUS
<1>3. /\ DOMAIN x = ClientFields /\ x.pc = "idle" /\ x.block = client.block /\ x.since = client.since
      /\ x.accounts = client.accounts /\ x.notes = client.notes /\ x.txs = client.txs /\ x.mmr = client.mmr
      /\ x.nullifiers = client.nullifiers \cup SelectNullifiersByPrefix(db, reader.nullifiers, client.since)
  BY <1>2 DEF CheckNullifiersByPrefix, ClientOK, InStep, Position, ClientFields
<1>4. \A q \in db.nullifiers : q.block \in Nat
  BY DEF ChainOK, DbOK
<1>5. client.since \in Nat
  BY DEF ClientOK, InStep, Position
<1>6. HasNullifiers(db, reader, x)
  <2>1. x.nullifiers \subseteq db.nullifiers
    BY <1>3 DEF ClientOK, InStep, HasNullifiers, SelectNullifiersByPrefix
  <2>2. ASSUME NEW q \in db.nullifiers, q.nullifier \in reader.nullifiers PROVE q \in x.nullifiers
    <3>1. CASE q.block <= client.since
      BY <1>1, <1>3, <2>2, <3>1 DEF ClientOK, InStep, HasNullifiers, NullifiersTo
    <3>2. CASE q.block >= client.since
      BY <1>3, <2>2, <3>2 DEF SelectNullifiersByPrefix
    <3> QED BY <1>4, <1>5, <3>1, <3>2
  <2> QED BY <2>1, <2>2 DEF HasNullifiers
<1>7. InStep(db, reader, x, Tip)
  BY <1>3, <1>6 DEF ClientOK, InStep, Position, HasNotes, HasTxs, HasMmr, HasAccounts
<1> QED BY <1>1, <1>2, <1>7 DEF ClientOK

LEMMA DetailsRead ==
    ASSUME ChainOK, ClientOK, GetAccountDetails
    PROVE  ClientOK'
<1>1. UNCHANGED <<db, memory, past, reader>> /\ Tip' = Tip /\ client.pc = "idle"
  BY DEF GetAccountDetails, store, Tip
<1>2. PICK a \in reader.ids \cap DOMAIN db.accounts :
        client' = [client EXCEPT !.accounts = Overlay([y \in {a} |-> SelectAccount(db, a).commitment], @)]
  BY DEF GetAccountDetails
<1>3. PICK x : x = client'
  OBVIOUS
<1>4. /\ DOMAIN x = ClientFields /\ x.pc = client.pc /\ x.block = client.block /\ x.since = client.since
      /\ x.notes = client.notes /\ x.txs = client.txs /\ x.mmr = client.mmr
      /\ x.nullifiers = client.nullifiers
      /\ x.accounts = Overlay([y \in {a} |-> db.accounts[a].commitment], client.accounts)
  BY <1>2, <1>3 DEF ClientOK, InStep, Position, ClientFields, SelectAccount
<1>5. /\ DOMAIN x.accounts = DOMAIN client.accounts \cup {a}
      /\ \A y \in DOMAIN x.accounts :
           x.accounts[y] = IF y = a THEN db.accounts[a].commitment ELSE client.accounts[y]
  BY <1>4 DEF Overlay
<1>6. HasAccounts(db, reader, x)
  BY <1>4, <1>5 DEF ClientOK, InStep, HasAccounts
<1>7. NullifiersTo(x) = NullifiersTo(client)
  BY <1>4 DEF NullifiersTo
<1>8. InStep(db, reader, x, Tip)
  BY <1>1, <1>4, <1>6, <1>7 DEF ClientOK, InStep, Position, HasNotes, HasTxs, HasMmr, HasNullifiers
<1> QED BY <1>1, <1>3, <1>8 DEF ClientOK

(* The blocks up to b, those between b and h, and h.                        *)
LEMMA MmrConcat ==
    ASSUME NEW b \in Nat, NEW h \in Nat, b < h
    PROVE  [i \in 1 .. b + 1 |-> i - 1] \o [i \in 1 .. h - b - 1 |-> b + i] \o <<h>> =
              [i \in 1 .. h + 1 |-> i - 1]
<1>1. PICK s, t, u, v : /\ s = [i \in 1 .. b + 1 |-> i - 1] /\ t = [i \in 1 .. h - b - 1 |-> b + i]
                        /\ u = s \o t /\ v = u \o <<h>>
  OBVIOUS
<1>2. s \in Seq(Int) /\ Len(s) = b + 1 /\ \A i \in 1 .. b + 1 : s[i] = i - 1
  BY <1>1
<1>3. t \in Seq(Int) /\ Len(t) = h - b - 1 /\ \A i \in 1 .. h - b - 1 : t[i] = b + i
  BY <1>1
<1>4. u \in Seq(Int) /\ Len(u) = (b + 1) + (h - b - 1)
      /\ \A i \in 1 .. (b + 1) + (h - b - 1) : u[i] = IF i <= b + 1 THEN s[i] ELSE t[i - (b + 1)]
  BY <1>1, <1>2, <1>3
<1>5. (b + 1) + (h - b - 1) = h
  OBVIOUS
<1>6. \A i \in 1 .. h : u[i] = i - 1
  <2> SUFFICES ASSUME NEW i \in 1 .. h PROVE u[i] = i - 1
    OBVIOUS
  <2>1. CASE i <= b + 1
    <3>1. i \in 1 .. b + 1
      BY <2>1
    <3> QED BY <1>2, <1>4, <1>5, <2>1, <3>1
  <2>2. CASE ~(i <= b + 1)
    <3>1. i - (b + 1) \in 1 .. h - b - 1 /\ b + (i - (b + 1)) = i - 1
      BY <2>2
    <3> QED BY <1>3, <1>4, <1>5, <2>2, <3>1
  <2> QED BY <2>1, <2>2
<1>7. u \in Seq(Int) /\ Len(u) = h /\ <<h>> \in Seq(Int)
  BY <1>4, <1>5
<1>8. /\ v \in Seq(Int) /\ Len(v) = h + 1
      /\ \A i \in 1 .. h + 1 : v[i] = IF i <= h THEN u[i] ELSE h
  <2>1. v \in Seq(Int) /\ Len(v) = h + 1
    BY <1>1, <1>7
  <2>2. ASSUME NEW i \in 1 .. h + 1 PROVE v[i] = IF i <= h THEN u[i] ELSE <<h>>[i - h]
    BY <1>1, <1>7
  <2>3. \A i \in 1 .. h + 1 : ~(i <= h) => i - h = 1
    OBVIOUS
  <2>4. <<h>>[1] = h
    OBVIOUS
  <2> QED BY <2>1, <2>2, <2>3, <2>4
<1>9. \A i \in 1 .. h + 1 : v[i] = i - 1
  <2> SUFFICES ASSUME NEW i \in 1 .. h + 1 PROVE v[i] = i - 1
    OBVIOUS
  <2>1. CASE i <= h
    <3>1. i \in 1 .. h
      BY <2>1
    <3> QED BY <1>6, <1>8, <2>1, <3>1
  <2>2. CASE ~(i <= h)
    <3>1. i - 1 = h
      BY <2>2
    <3> QED BY <1>8, <2>2, <3>1
  <2> QED BY <2>1, <2>2
<1>10. v = [i \in 1 .. h + 1 |-> i - 1]
  BY <1>8, <1>9
<1> QED BY <1>1, <1>10

(* The client takes an answer over.                                         *)
LEMMA ClientReceives ==
    ASSUME ChainOK, ClientOK, Receive
    PROVE  ClientOK'
<1>1. UNCHANGED <<db, memory, past, reader>> /\ Tip' = Tip /\ client.pc = "answered"
  BY DEF Receive, store, Tip
<1>2. PICK p, x, b, h : p = client.reply /\ x = client' /\ b = client.block /\ h = client.reply.header
  OBVIOUS
<1>3. /\ DOMAIN x = ClientFields /\ x.pc = (IF h = b THEN "idle" ELSE "moved")
      /\ x.since = b /\ x.block = h /\ x.accounts = Overlay(p.accounts, client.accounts)
      /\ x.notes = client.notes \o SetToSeq(p.notes)
      /\ x.txs = client.txs \o SetToSeq(p.txs)
      /\ x.mmr = (IF h = b \/ reader.kind = "notes" THEN client.mmr ELSE client.mmr \o p.mmr \o <<h>>)
      /\ x.nullifiers = client.nullifiers
  BY <1>2 DEF Receive, ClientOK, InStep, Position, ClientFields
<1>4. Answers(db, reader, client, Tip) /\ DbOK(db, Tip) /\ Tip \in Nat
  BY <1>1 DEF ClientOK, InStep, ChainOK, DbOK
<1>5. h \in b .. Tip /\ b \in 0 .. Tip
  BY <1>2, <1>4 DEF Answers, ClientOK, InStep, Position
<1>6. h \in 0 .. Tip /\ b \in 0 .. h /\ b <= h /\ b \in Nat /\ h \in Nat
  BY <1>4, <1>5
<1>7. Position(x, Tip)
  BY <1>3, <1>6 DEF Position
<1>8. HasNotes(db, reader, x)
  <2>1. /\ IsSeq(client.notes) /\ IsInjective(client.notes)
        /\ ToSet(client.notes) = SeenRows(db, reader, b)
    BY <1>2, <1>4 DEF Answers, ClientOK, InStep, HasNotes
  <2>2. p.notes = SeenRows(db, reader, h) \ SeenRows(db, reader, b)
    BY <1>2, <1>4 DEF Answers
  <2>3. IsFiniteSet(p.notes)
    <3>1. IsFiniteSet(SeenRows(db, reader, h))
      BY <1>4, SeenFinite DEF DbOK
    <3> QED BY <2>2, <3>1, FS_Subset
  <2>4. PICK t : t = SetToSeq(p.notes)
    OBVIOUS
  <2>5. Len(t) \in Nat /\ t \in [1 .. Len(t) -> p.notes] /\ IsInjective(t) /\ ToSet(t) = p.notes
    BY <2>3, <2>4, SequenceOfSet
  <2>6. IsSeq(t)
    BY <2>5, FunctionIsSeq
  <2>7. ToSet(client.notes) \cap ToSet(t) = {}
    BY <2>1, <2>2, <2>5
  <2>8. IsSeq(client.notes \o t) /\ ToSet(client.notes \o t) = ToSet(client.notes) \cup ToSet(t)
    BY <2>1, <2>6, ConcatSeq
  <2>9. IsInjective(client.notes \o t)
    BY <2>1, <2>5, <2>6, <2>7, ConcatInjective
  <2>10. \A i \in 1 .. Len(db.notes) : db.notes[i].block \in Nat
    BY <1>4 DEF DbOK
  <2>11. SeenRows(db, reader, b) \subseteq SeenRows(db, reader, h)
    BY <1>6, <2>10 DEF SeenRows
  <2>12. ToSet(client.notes) \cup ToSet(t) = SeenRows(db, reader, h)
    BY <2>1, <2>2, <2>5, <2>11
  <2>13. x.notes = client.notes \o t
    BY <1>3, <2>4
  <2> QED BY <1>3, <2>8, <2>9, <2>12, <2>13 DEF HasNotes
<1>9. HasTxs(db, reader, x)
  <2> SUFFICES ASSUME reader.kind = "state"
               PROVE  IsSeq(x.txs) /\ IsInjective(x.txs) /\ ToSet(x.txs) = TxsUpTo(db, reader, h)
    BY <1>3 DEF HasTxs
  <2>1. IsSeq(client.txs) /\ IsInjective(client.txs) /\ ToSet(client.txs) = TxsUpTo(db, reader, b)
    BY <1>2 DEF ClientOK, InStep, HasTxs
  <2>2. p.txs = TxsUpTo(db, reader, h) \ TxsUpTo(db, reader, b)
    BY <1>2, <1>4 DEF Answers, Delivers
  <2>3. IsFiniteSet(p.txs)
    <3>1. p.txs \subseteq db.txs
      BY <2>2 DEF TxsUpTo
    <3> QED BY <1>4, <3>1, FS_Subset DEF DbOK
  <2>4. PICK t : t = SetToSeq(p.txs)
    OBVIOUS
  <2>5. Len(t) \in Nat /\ t \in [1 .. Len(t) -> p.txs] /\ IsInjective(t) /\ ToSet(t) = p.txs
    BY <2>3, <2>4, SequenceOfSet
  <2>6. IsSeq(t)
    BY <2>5, FunctionIsSeq
  <2>7. ToSet(client.txs) \cap ToSet(t) = {}
    BY <2>1, <2>2, <2>5
  <2>8. IsSeq(client.txs \o t) /\ ToSet(client.txs \o t) = ToSet(client.txs) \cup ToSet(t)
    BY <2>1, <2>6, ConcatSeq
  <2>9. IsInjective(client.txs \o t)
    BY <2>1, <2>5, <2>6, <2>7, ConcatInjective
  <2>10. \A q \in db.txs : q.block \in Nat
    BY <1>4 DEF DbOK
  <2>11. TxsUpTo(db, reader, b) \subseteq TxsUpTo(db, reader, h)
    BY <1>6, <2>10 DEF TxsUpTo
  <2>12. ToSet(client.txs) \cup ToSet(t) = TxsUpTo(db, reader, h)
    BY <2>1, <2>2, <2>5, <2>11
  <2>13. x.txs = client.txs \o t
    BY <1>3, <2>4
  <2> QED BY <2>8, <2>9, <2>12, <2>13
<1>10. HasMmr(reader, x)
  <2> SUFFICES ASSUME reader.kind = "state" PROVE x.mmr = [i \in 1 .. h + 1 |-> i - 1]
    BY <1>3 DEF HasMmr
  <2>1. client.mmr = [i \in 1 .. b + 1 |-> i - 1]
    BY <1>2 DEF ClientOK, InStep, HasMmr
  <2>2. CASE h = b
    BY <1>3, <2>1, <2>2
  <2>3. CASE h # b
    <3>1. p.mmr = [i \in 1 .. h - b - 1 |-> b + i]
      BY <1>2, <1>4, <2>3 DEF Answers, Delivers
    <3>2. b < h
      BY <1>6, <2>3
    <3>3. x.mmr = client.mmr \o p.mmr \o <<h>>
      BY <1>3, <2>3
    <3>4. [i \in 1 .. b + 1 |-> i - 1] \o [i \in 1 .. h - b - 1 |-> b + i] \o <<h>> =
            [i \in 1 .. h + 1 |-> i - 1]
      BY <1>6, <3>2, MmrConcat
    <3> QED BY <2>1, <3>1, <3>3, <3>4, Zenon
  <2> QED BY <2>2, <2>3
<1>11. HasNullifiers(db, reader, x)
  <2>1. NullifiersTo(client) = b /\ NullifiersTo(x) = b
    BY <1>1, <1>2, <1>3 DEF NullifiersTo
  <2> QED BY <1>3, <2>1 DEF ClientOK, InStep, HasNullifiers
<1>12. HasAccounts(db, reader, x)
  <2>1. /\ DOMAIN x.accounts = DOMAIN p.accounts \cup DOMAIN client.accounts
        /\ \A a \in DOMAIN x.accounts :
             x.accounts[a] = IF a \in DOMAIN p.accounts THEN p.accounts[a] ELSE client.accounts[a]
    BY <1>3 DEF Overlay
  <2>2. DOMAIN x.accounts \subseteq reader.ids
    BY <1>2, <1>4, <2>1 DEF Answers, ClientOK, InStep, HasAccounts
  <2>3. ASSUME reader.kind = "state", NEW a \in reader.ids \cap DOMAIN db.accounts
        PROVE  \/ a \in DOMAIN x.accounts /\ x.accounts[a] = db.accounts[a].commitment
               \/ db.accounts[a].block > h
    <3>1. \/ db.accounts[a].block > h
          \/ a \in DOMAIN p.accounts /\ p.accounts[a] = db.accounts[a].commitment
          \/ a \notin DOMAIN p.accounts /\ db.accounts[a].block <= b
      BY <1>2, <1>4, <2>3 DEF Answers, Delivers
    <3>2. \/ a \in DOMAIN client.accounts /\ client.accounts[a] = db.accounts[a].commitment
          \/ db.accounts[a].block > b
      BY <1>2, <2>3 DEF ClientOK, InStep, HasAccounts
    <3>3. db.accounts[a].block \in Nat
      BY <1>4 DEF DbOK
    <3>4. ~(db.accounts[a].block <= b /\ db.accounts[a].block > b)
      BY <1>6, <3>3
    <3> QED BY <2>1, <3>1, <3>2, <3>4
  <2> QED BY <1>3, <2>2, <2>3 DEF HasAccounts
<1>13. x.pc # "answered"
  BY <1>3
<1>14. InStep(db, reader, x, Tip)
  BY <1>7, <1>8, <1>9, <1>10, <1>11, <1>12, <1>13 DEF InStep
<1> QED BY <1>1, <1>2, <1>14 DEF ClientOK

LEMMA ClientStep == ChainOK /\ ClientOK /\ [Next]_vars => ClientOK'
<1> SUFFICES ASSUME ChainOK, ClientOK, [Next]_vars PROVE ClientOK'
  OBVIOUS
<1>1. CASE ApplyNextBlock
  <2>1. /\ ChainOK' /\ Tip' = Tip + 1 /\ Grown(db, db', Tip + 1)
        /\ UNCHANGED <<reader, client, pager, inputs>>
    BY <1>1, ChainGrows
  <2>2. PICK d, e, k, r, c : d = db /\ e = db' /\ k = Tip /\ r = reader /\ c = client
    OBVIOUS
  <2>3. DbOK(d, k) /\ DbOK(e, k + 1) /\ Grown(d, e, k + 1) /\ InStep(d, r, c, k)
    BY <2>1, <2>2 DEF ChainOK, ClientOK
  <2>4. InStep(e, r, c, k + 1)
    BY <2>3, ClientGrows
  <2> QED BY <2>1, <2>2, <2>4 DEF ClientOK
<1>2. CASE ~ApplyNextBlock /\ client' \in {client, [client EXCEPT !.pc = "idle", !.reply = << >>]}
                           /\ (client' # client => client.pc = "answered")
  <2>1. UNCHANGED <<db, reader>> /\ Tip' = Tip
    BY <1>2, ChainStays DEF Tip
  <2>2. CASE client' = client
    BY <2>1, <2>2 DEF ClientOK
  <2>3. CASE client' # client
    <3>1. PICK c, x, k : c = client /\ x = client' /\ k = Tip
      OBVIOUS
    <3>2. InStep(db, reader, c, k) /\ c.pc = "answered" /\ x = [c EXCEPT !.pc = "idle", !.reply = << >>]
      BY <1>2, <2>3, <3>1 DEF ClientOK
    <3>3. InStep(db, reader, x, k)
      BY <3>2, ClientForgets
    <3> QED BY <2>1, <3>1, <3>3 DEF ClientOK
  <2> QED BY <2>2, <2>3
<1>3. CASE SyncState
  BY <1>3, SyncStateAnswers
<1>4. CASE SyncNotes
  BY <1>4, SyncNotesAnswers
<1>5. CASE Receive
  BY <1>5, ClientReceives
<1>6. CASE CheckNullifiersByPrefix
  BY <1>6, NullifiersChecked
<1>7. CASE GetAccountDetails
  BY <1>7, DetailsRead
<1>8. RestartStore \/ LoseReply => client' \in {client, [client EXCEPT !.pc = "idle", !.reply = << >>]}
                                    /\ (client' # client => client.pc = "answered")
  BY DEF RestartStore, LoseReply
<1>9. StartPaging \/ NextPage \/ PageFails \/ SelectNoteProofs \/ OpenWitnesses \/ LoadHeaders \/ UNCHANGED vars
        => client' = client
  BY DEF StartPaging, NextPage, PageFails, SelectNoteProofs, OpenWitnesses, LoadHeaders, vars
<1> QED BY <1>1, <1>2, <1>3, <1>4, <1>5, <1>6, <1>7, <1>8, <1>9 DEF Next

LEMMA ClientFollows == ChainOK /\ PagerOK /\ InputsOK /\ ClientOK => ClientFollowsChain
<1> SUFFICES ASSUME ChainOK, PagerOK, InputsOK, ClientOK PROVE ClientFollowsChain
  OBVIOUS
<1>1. DbOK(db, Tip) /\ Tip \in Nat /\ IsSeq(db.notes) /\ db.headers = 0 .. Tip
  BY DEF ChainOK, DbOK
<1>2. Len(db.notes) \in Nat /\ DOMAIN db.notes = 1 .. Len(db.notes)
  BY <1>1, SeqIs
<1>3. TypeOK
  <2>1. /\ Tip <= MaxBlocks /\ Len(past) = Tip + 1
    BY DEF ChainOK
  <2>2. /\ client.pc \in {"idle", "answered", "moved"} /\ client.since <= client.block
        /\ client.block \in db.headers /\ DOMAIN client.accounts \subseteq reader.ids
        /\ client.nullifiers \subseteq db.nullifiers
    BY <1>1 DEF ClientOK, InStep, Position, HasAccounts, HasNullifiers
  <2>3. /\ pager.pc \in {"start", "paging", "done"} /\ ToSet(pager.rows) \subseteq DOMAIN db.notes
        /\ pager.token \in DOMAIN db.notes \cup {0}
    BY <1>2 DEF PagerOK
  <2> QED BY <1>1, <2>1, <2>2, <2>3 DEF TypeOK, InputsOK, NoToken
<1>4. SyncedExactly
  <2> SUFFICES ASSUME reader.kind \in {"state", "notes"}
               PROVE  /\ IsInjective(client.notes)
                      /\ ToSet(client.notes) =
                           {i \in DOMAIN db.notes :
                              Tracked(db.notes[i]) /\ db.notes[i].block <= client.block}
                      /\ reader.kind = "state" =>
                           /\ client.mmr = [i \in 1 .. (client.block + 1) |-> i - 1]
                           /\ IsInjective(client.txs)
                           /\ ToSet(client.txs) =
                                {t \in db.txs : t.account \in reader.ids /\ t.block <= client.block}
                      /\ client.pc # "moved" =>
                           \A r \in db.nullifiers :
                              r.nullifier \in reader.nullifiers /\ r.block <= client.block
                                => r \in client.nullifiers
    BY DEF SyncedExactly
  <2>1. PICK S : S = SeenRows(db, reader, client.block)
    OBVIOUS
  <2>2. S = {i \in DOMAIN db.notes : Tracked(db.notes[i]) /\ db.notes[i].block <= client.block}
    BY <1>2, <2>1 DEF SeenRows, Follows, Tracked
  <2>3. IsInjective(client.notes) /\ ToSet(client.notes) = S
    BY <2>1 DEF ClientOK, InStep, HasNotes, Syncs
  <2>8. reader.kind = "state" =>
           /\ client.mmr = [i \in 1 .. (client.block + 1) |-> i - 1]
           /\ IsInjective(client.txs)
           /\ ToSet(client.txs) = {t \in db.txs : t.account \in reader.ids /\ t.block <= client.block}
    BY DEF ClientOK, InStep, HasMmr, HasTxs, TxsUpTo
  <2>9. client.pc # "moved" =>
           \A r \in db.nullifiers :
              r.nullifier \in reader.nullifiers /\ r.block <= client.block => r \in client.nullifiers
    BY DEF ClientOK, InStep, HasNullifiers, NullifiersTo
  <2> QED BY <2>2, <2>3, <2>8, <2>9
<1>5. NoAccountMissed
  BY DEF NoAccountMissed, ClientOK, InStep, HasAccounts
<1> QED BY <1>3, <1>4, <1>5 DEF ClientFollowsChain

-----------------------------------------------------------------------------
(* RESULTS *)

(* For every chain, store and reader: the state in memory is always what a   *)
(* restart would read from the tables, in the same order (State::apply_block *)
(* against State::load).                                                     *)
THEOREM MemoryReloadsAlways == Spec => []MemoryReloads
<1>1. ChainOK => MemoryReloads
  BY DEF ChainOK
<1> QED BY <1>1, ChainInit, ChainStep, PTL DEF Spec

(* Whatever blocks arrive between the pages or the queries, the pages miss   *)
(* no unconsumed note and repeat none, and the inputs fit together.          *)
(* (unconsumed_network_notes, State::get_batch_inputs, get_block_inputs)     *)
THEOREM AnswersFitAlways == Spec => []AnswersFit
<1>1. ChainOK /\ PagerOK /\ InputsOK => AnswersFit
  BY DEF PagerOK, InputsOK, AnswersFit, PagesComplete, InputsProvable
<1> QED BY <1>1, ChainInit, ChainStep, PagerInit, PagerStep, InputsInit, InputsStep, PTL DEF Spec

(* A client that asks from the block of its last answer has, after any       *)
(* number of answers, lost replies and restarts, exactly what the chain up   *)
(* to its block holds: no note, transaction, header or nullifier is missed   *)
(* or repeated, and an account it is behind on changed after its block.      *)
(* (get_state_sync, get_note_sync, check_nullifiers_by_prefix)               *)
THEOREM ClientFollowsChainAlways == Spec => []ClientFollowsChain
BY ClientFollows, ChainInit, ChainStep, PagerInit, PagerStep, InputsInit, InputsStep,
   ClientInit, ClientStep, PTL DEF Spec
=============================================================================

---------------------------- MODULE BasicLemmas ----------------------------
(***************************************************************************)
(* What several of the proofs rest on: facts about numbers, sequences,     *)
(* counting and sorting, and what each method of the dependency graph does *)
(* to a graph, for every set of keys.                                      *)
(***************************************************************************)
EXTENDS Naturals, Sequences, SequencesExt, DependencyGraph, SequenceTheorems,
        FiniteSetTheorems, WellFoundedInduction, TLAPS

-----------------------------------------------------------------------------
(* NUMBERS AND SEQUENCES                                                    *)

(* Every nonempty set of naturals has a least element.                      *)
LEMMA LeastNatural ==
    ASSUME NEW T, T \subseteq Nat, T # {}
    PROVE  \E x \in T : \A y \in T : x <= y
<1>1. PICK x \in T : \A y \in T : <<y, x>> \notin OpToRel(<, Nat)
  BY NatLessThanWellFounded, WFMin
<1>2. \A y \in T : ~(y < x)
  BY <1>1 DEF OpToRel
<1> QED BY <1>2

(***************************************************************************)
(* RemoveFirst keeps s as it is, or leaves out one position that held e.   *)
(***************************************************************************)
LEMMA RemoveFirstIs ==
    ASSUME NEW S, NEW s \in Seq(S), NEW e
    PROVE  \/ e \notin ToSet(s) /\ RemoveFirst(s, e) = s
           \/ \E m \in 1 .. Len(s) :
                /\ s[m] = e
                /\ RemoveFirst(s, e) = SubSeq(s, 1, m - 1) \o SubSeq(s, m + 1, Len(s))
<1>1. CASE ~ \E i \in 1 .. Len(s) : s[i] = e
  BY <1>1 DEF RemoveFirst, ToSet
<1>2. CASE \E i \in 1 .. Len(s) : s[i] = e
  <2> DEFINE I == {i \in 1 .. Len(s) : s[i] = e}
  <2>1. I # {} /\ I \subseteq Nat
    BY <1>2
  <2>2. \E x \in I : \A y \in I : x <= y
    BY <2>1, LeastNatural
  <2>3. Min(I) \in I
    BY <2>2 DEF Min
  <2>4. RemoveFirst(s, e) = SubSeq(s, 1, Min(I) - 1) \o SubSeq(s, Min(I) + 1, Len(s))
    BY <1>2, <2>1 DEF RemoveFirst, RemoveAt, SelectInSeq
  <2> QED BY <2>3, <2>4
<1> QED BY <1>1, <1>2

(* RemoveFirst stays within the set of elements.                            *)
LEMMA RemoveFirstType ==
    ASSUME NEW S, NEW s \in Seq(S), NEW e
    PROVE  RemoveFirst(s, e) \in Seq(S)
<1>1. CASE \E m \in 1 .. Len(s) :
             RemoveFirst(s, e) = SubSeq(s, 1, m - 1) \o SubSeq(s, m + 1, Len(s))
  <2>1. PICK m \in 1 .. Len(s) :
          RemoveFirst(s, e) = SubSeq(s, 1, m - 1) \o SubSeq(s, m + 1, Len(s))
    BY <1>1
  <2>2. SubSeq(s, 1, m - 1) \in Seq(S)
    BY SubSeqProperties
  <2>3. SubSeq(s, m + 1, Len(s)) \in Seq(S)
    BY SubSeqProperties
  <2> QED BY <2>1, <2>2, <2>3
<1> QED BY <1>1, RemoveFirstIs

(* The elements of a sequence with one more.                                *)
LEMMA AppendElements ==
    ASSUME NEW S, NEW s \in Seq(S), NEW x \in S
    PROVE  Append(s, x) \in Seq(S) /\ ToSet(Append(s, x)) = ToSet(s) \cup {x}
<1> DEFINE N == Len(s)
<1> DEFINE r == Append(s, x)
<1>1. /\ N \in Nat /\ DOMAIN s = 1 .. N /\ r \in Seq(S) /\ DOMAIN r = 1 .. N + 1
      /\ r[N + 1] = x /\ \A i \in 1 .. N : r[i] = s[i]
  BY LenProperties, AppendProperties
<1> HIDE DEF r, N
<1>2. 1 .. N + 1 = (1 .. N) \cup {N + 1}
  BY <1>1
<1>3. ToSet(r) = ToSet(s) \cup {x}
  BY <1>1, <1>2 DEF ToSet
<1> QED BY <1>1, <1>3 DEF r

(* A nonempty set of positions has a last one.                              *)
LEMMA LastPosition ==
    ASSUME NEW N \in Nat, NEW P, P \subseteq 1 .. N, P # {}
    PROVE  LET k == CHOOSE i \in P : \A j \in P : j <= i
           IN  k \in P /\ \A j \in P : j <= k
<1>1. PICK T : T = {N - i : i \in P}
  OBVIOUS
<1>2. T \subseteq Nat /\ T # {}
  <2>1. \A i \in 1 .. N : N - i \in Nat
    OBVIOUS
  <2> QED BY <1>1, <2>1
<1>3. PICK x \in T : \A y \in T : x <= y
  BY <1>2, LeastNatural
<1>4. PICK i \in P : x = N - i
  BY <1>1, <1>3
<1>5. ASSUME NEW j \in P PROVE j <= i
  <2>1. N - i <= N - j
    BY <1>1, <1>3, <1>4
  <2>2. i \in 1 .. N /\ j \in 1 .. N
    OBVIOUS
  <2> QED BY <2>1, <2>2
<1> QED BY <1>5

-----------------------------------------------------------------------------
(* COUNTING                                                                 *)

(* f numbers the elements of T by those of I.                               *)
Numbers(f, I, T) ==
    /\ \A i, j \in I : f[i] = f[j] => i = j
    /\ \A i \in I : f[i] \in T
    /\ \A t \in T : \E i \in I : f[i] = t

(* An injective sequence has as many elements as positions, in every part.  *)
LEMMA ImageCardinality ==
    ASSUME NEW I, IsFiniteSet(I), NEW f, NEW T, Numbers(f, I, T)
    PROVE  IsFiniteSet(T) /\ Cardinality(T) = Cardinality(I)
<1> DEFINE h == [i \in I |-> f[i]]
<1>0. h \in [I -> T] /\ DOMAIN h = I /\ (\A i, j \in I : h[i] = h[j] => i = j) /\ \A y \in T : \E i \in I : h[i] = y
  BY DEF Numbers
<1>1. h \in Bijection(I, T)
  <2> HIDE DEF h
  <2> QED BY <1>0, Zenon DEF Bijection, Injection, Surjection, IsInjective
<1>2. ExistsBijection(I, T)
  <2> HIDE DEF h
  <2> QED BY <1>1 DEF ExistsBijection
<1> QED BY <1>2, FS_Bijection

(* A set of positions that holds the next one with each is a suffix.        *)
LEMMA UpwardClosed ==
    ASSUME NEW lo \in Nat, NEW hi \in Nat, NEW P, P \subseteq lo .. hi,
           \A i \in P : i < hi => i + 1 \in P
    PROVE  /\ IsFiniteSet(P) /\ Cardinality(P) \in Nat
           /\ P = hi - Cardinality(P) + 1 .. hi
           /\ P # {} => Cardinality(P) <= hi - lo + 1
<1>1. CASE P = {}
  BY <1>1, FS_EmptySet
<1>2. CASE P # {}
  <2>1. P \subseteq Nat /\ \A i \in P : i <= hi
    OBVIOUS
  <2>2. PICK k \in P : \A y \in P : k <= y
    BY <1>2, <2>1, LeastNatural
  <2>3. P = k .. hi
    <3>0. P \subseteq k .. hi
      BY <2>1, <2>2
    <3> SUFFICES ASSUME ~(k .. hi \subseteq P)
                 PROVE  FALSE
      BY <3>0
    <3> DEFINE Bad == {j \in k .. hi : j \notin P}
    <3>1. Bad # {} /\ Bad \subseteq Nat
      BY <2>1, <2>2
    <3>2. PICK j \in Bad : \A y \in Bad : j <= y
      BY <3>1, LeastNatural
    <3>3. j # k /\ j - 1 \in k .. hi /\ ~(j <= j - 1) /\ j - 1 < hi /\ (j - 1) + 1 = j
      BY <2>1, <2>2, <3>2
    <3>4. j - 1 \in P
      BY <3>2, <3>3
    <3> QED BY <3>2, <3>3, <3>4
  <2>4. k \in Int /\ hi \in Int /\ k <= hi /\ lo <= k
    BY <2>2
  <2>5. IsFiniteSet(k .. hi) /\ Cardinality(k .. hi) = hi - k + 1
    BY <2>4, FS_Interval
  <2> QED BY <2>3, <2>4, <2>5
<1> QED BY <1>1, <1>2

(* One that holds the one before with each is a prefix.                     *)
LEMMA DownwardClosed ==
    ASSUME NEW lo \in Nat, NEW hi \in Nat, NEW P, P \subseteq lo + 1 .. hi,
           \A i \in P : i > lo + 1 => i - 1 \in P
    PROVE  /\ IsFiniteSet(P) /\ Cardinality(P) \in Nat
           /\ P = lo + 1 .. lo + Cardinality(P)
           /\ lo <= hi => lo + Cardinality(P) <= hi
<1>0. IsFiniteSet(lo + 1 .. hi)
  BY FS_Interval
<1> DEFINE Q == {i \in lo + 1 .. hi : i \notin P}
<1>1. CASE Q = {}
  <2>1. P = lo + 1 .. hi
    BY <1>1
  <2>2. Cardinality(lo + 1 .. hi) = IF lo + 1 > hi THEN 0 ELSE hi - (lo + 1) + 1
    BY FS_Interval
  <2> QED BY <1>0, <2>1, <2>2
<1>2. CASE Q # {}
  <2>0. Q \subseteq Nat /\ P \subseteq Nat /\ \A i \in P : lo + 1 <= i /\ i <= hi
    OBVIOUS
  <2>1. PICK k \in Q : \A y \in Q : k <= y
    <3> HIDE DEF Q
    <3> QED BY <1>2, <2>0, LeastNatural
  <2>2. \A i \in lo + 1 .. hi : i < k => i \in P
    BY <2>1
  <2>3. \A i \in P : i < k
    <3> SUFFICES ASSUME NEW i \in P, ~(i < k)
                 PROVE  FALSE
      OBVIOUS
    <3> DEFINE Bad == {j \in P : k <= j}
    <3>1. Bad # {} /\ Bad \subseteq Nat
      <4>1. k \in Nat /\ i \in Nat /\ k <= i
        BY <2>0, <2>1
      <4> QED BY <2>0, <4>1
    <3>2. PICK j \in Bad : \A y \in Bad : j <= y
      <4> HIDE DEF Bad
      <4> QED BY <3>1, LeastNatural
    <3>3. j # k /\ j > lo + 1 /\ k <= j - 1 /\ ~(j <= j - 1)
      BY <2>1, <3>2
    <3>4. j - 1 \in P
      BY <3>2, <3>3
    <3> QED BY <3>2, <3>3, <3>4
  <2>4. P = lo + 1 .. k - 1
    <3>1. k \in Nat /\ lo + 1 <= k /\ k <= hi
      BY <2>1
    <3>2. P \subseteq lo + 1 .. k - 1
      BY <2>0, <2>3, <3>1
    <3>3. lo + 1 .. k - 1 \subseteq P
      BY <2>2, <3>1
    <3> QED BY <3>2, <3>3
  <2>5. k - 1 \in Int /\ lo + 1 \in Int /\ k \in lo + 1 .. hi
    BY <2>1
  <2>6. IsFiniteSet(lo + 1 .. k - 1) /\ Cardinality(lo + 1 .. k - 1) = k - 1 - lo
    <3>1. Cardinality(lo + 1 .. k - 1) = IF lo + 1 > k - 1 THEN 0 ELSE k - 1 - (lo + 1) + 1
      BY <2>5, FS_Interval
    <3> QED BY <2>5, <3>1, FS_Interval
  <2>7. Cardinality(P) = k - 1 - lo
    BY <2>4, <2>6
  <2> QED BY <2>4, <2>5, <2>6, <2>7
<1> QED BY <1>1, <1>2

(* Appending a new element to an injective sequence.                        *)
LEMMA AppendSet ==
    ASSUME NEW S, NEW s \in Seq(S), NEW x \in S, x \notin ToSet(s), IsInjective(s)
    PROVE  /\ Append(s, x) \in Seq(S)
           /\ ToSet(Append(s, x)) = ToSet(s) \cup {x}
           /\ IsInjective(Append(s, x))
<1> DEFINE N == Len(s)
<1> DEFINE r == Append(s, x)
<1>1. /\ N \in Nat /\ DOMAIN s = 1 .. N /\ r \in Seq(S) /\ DOMAIN r = 1 .. N + 1
      /\ r[N + 1] = x /\ \A i \in 1 .. N : r[i] = s[i]
  BY LenProperties, AppendProperties
<1> HIDE DEF r, N
<1>2. 1 .. N + 1 = (1 .. N) \cup {N + 1}
  BY <1>1
<1>3. ToSet(r) = ToSet(s) \cup {x}
  BY <1>1, <1>2 DEF ToSet
<1>4. IsInjective(r)
  <2> SUFFICES ASSUME NEW a \in 1 .. N + 1, NEW b \in 1 .. N + 1, r[a] = r[b], a # b
               PROVE  FALSE
    BY <1>1 DEF IsInjective
  <2>1. \A i \in 1 .. N : s[i] # x
    BY <1>1 DEF ToSet
  <2> QED BY <1>1, <1>2, <2>1 DEF IsInjective
<1> QED BY <1>1, <1>3, <1>4 DEF r

-----------------------------------------------------------------------------
(* SORTING                                                                  *)

(* The elements of U, each once, with their keys in ascending order.        *)
Sorts(o, U, key, n) ==
    /\ o \in [1 .. n -> U] /\ ToSet(o) = U
    /\ \A i, j \in 1 .. n : i < j => o[i] # o[j] /\ key[o[i]] <= key[o[j]]

Sortable(U, key) == \E o : Sorts(o, U, key, Cardinality(U))

LEMMA SortNone == ASSUME NEW key PROVE Sortable({}, key)
<1> DEFINE o == [i \in 1 .. 0 |-> 0]
<1>1. Cardinality({}) = 0 /\ 1 .. 0 = {}
  BY FS_EmptySet
<1>2. o \in [1 .. 0 -> {}] /\ ToSet(o) = {}
  BY <1>1 DEF ToSet
<1>3. Sorts(o, {}, key, 0)
  BY <1>1, <1>2 DEF Sorts
<1> QED BY <1>1, <1>3 DEF Sortable

LEMMA SortOneMore ==
    ASSUME NEW U, IsFiniteSet(U), NEW key, \A u \in U : key[u] \in Nat,
           NEW t \in U, \A u \in U : key[t] <= key[u], Sortable(U \ {t}, key)
    PROVE  Sortable(U, key)
<1>1. PICK n : n = Cardinality(U)
  OBVIOUS
<1>2. n \in Nat /\ n > 0 /\ Cardinality(U \ {t}) = n - 1 /\ n - 1 \in Nat
  <2>1. n \in Nat /\ Cardinality(U \ {t}) = n - 1 /\ IsFiniteSet(U \ {t})
    BY <1>1, FS_CardinalityType, FS_RemoveElement
  <2>2. Cardinality(U \ {t}) \in Nat
    BY <2>1, FS_CardinalityType
  <2> QED BY <2>1, <2>2
<1>3. PICK p : Sorts(p, U \ {t}, key, n - 1)
  BY <1>2 DEF Sortable
<1>4. /\ p \in [1 .. n - 1 -> U \ {t}]
      /\ \A u \in U \ {t} : \E i \in 1 .. n - 1 : p[i] = u
      /\ \A i, j \in 1 .. n - 1 : i < j => p[i] # p[j] /\ key[p[i]] <= key[p[j]]
  BY <1>3 DEF Sorts, ToSet
<1>5. PICK o : o = [i \in 1 .. n |-> IF i = 1 THEN t ELSE p[i - 1]]
  OBVIOUS
<1>6. 1 \in 1 .. n /\ \A i \in 1 .. n : i # 1 => i - 1 \in 1 .. n - 1
  BY <1>2
<1>7. o[1] = t /\ \A i \in 1 .. n : i # 1 => o[i] = p[i - 1] /\ o[i] \in U \ {t}
  BY <1>4, <1>5, <1>6
<1>8. o \in [1 .. n -> U]
  BY <1>5, <1>6, <1>7
<1>9. ASSUME NEW u \in U PROVE \E i \in 1 .. n : o[i] = u
  <2>1. CASE u = t
    BY <1>6, <1>7, <2>1
  <2>2. CASE u # t
    <3>1. PICK i \in 1 .. n - 1 : p[i] = u
      BY <1>4, <2>2
    <3>2. i + 1 \in 1 .. n /\ i + 1 # 1 /\ (i + 1) - 1 = i
      BY <1>2, <3>1
    <3> QED BY <1>7, <3>1, <3>2
  <2> QED BY <2>1, <2>2
<1>10. ToSet(o) = U
  BY <1>8, <1>9 DEF ToSet
<1>11. ASSUME NEW i \in 1 .. n, NEW j \in 1 .. n, i < j
       PROVE  o[i] # o[j] /\ key[o[i]] <= key[o[j]]
  <2>1. j # 1
    BY <1>2, <1>11
  <2>2. CASE i = 1
    BY <1>7, <2>1, <2>2
  <2>3. CASE i # 1
    <3>1. i - 1 \in 1 .. n - 1 /\ j - 1 \in 1 .. n - 1 /\ i - 1 < j - 1
      BY <1>2, <1>6, <1>11, <2>1, <2>3
    <3> QED BY <1>4, <1>7, <2>1, <2>3, <3>1
  <2> QED BY <2>2, <2>3
<1>12. Sorts(o, U, key, n)
  BY <1>8, <1>10, <1>11 DEF Sorts
<1> QED BY <1>1, <1>12 DEF Sortable

LEMMA Sorting ==
    ASSUME NEW U, IsFiniteSet(U), NEW key, \A u \in U : key[u] \in Nat
    PROVE  Sortable(U, key)
<1> SUFFICES ASSUME ~Sortable(U, key) PROVE FALSE
  OBVIOUS
<1> DEFINE Bad == {V \in SUBSET U : ~Sortable(V, key)}
<1> DEFINE K == {Cardinality(V) : V \in Bad}
<1>1. \A V \in SUBSET U : IsFiniteSet(V) /\ Cardinality(V) \in Nat
  BY FS_Subset, FS_CardinalityType
<1>2. U \in Bad
  OBVIOUS
<1>3. K \subseteq Nat /\ K # {}
  BY <1>1, <1>2
<1>4. PICK k \in K : \A l \in K : k <= l
  <2> HIDE DEF K
  <2> QED BY <1>3, LeastNatural
<1>5. PICK V \in Bad : k = Cardinality(V)
  BY <1>4
<1>6. V \in SUBSET U /\ ~Sortable(V, key) /\ V # {}
  BY <1>5, SortNone
<1>7. PICK L : L = {key[v] : v \in V}
  OBVIOUS
<1>8. L \subseteq Nat /\ L # {}
  BY <1>6, <1>7
<1>9. PICK x \in L : \A y \in L : x <= y
  BY <1>8, LeastNatural
<1>10. PICK t \in V : x = key[t]
  BY <1>7, <1>9
<1>11. \A v \in V : key[t] <= key[v]
  BY <1>7, <1>9, <1>10
<1>12. V \ {t} \in SUBSET U /\ Cardinality(V \ {t}) = Cardinality(V) - 1
  BY <1>1, <1>6, <1>10, FS_RemoveElement
<1>13. ~(Cardinality(V) <= Cardinality(V \ {t}))
  BY <1>1, <1>6, <1>12
<1>14. Sortable(V \ {t}, key)
  BY <1>4, <1>5, <1>12, <1>13
<1>15. Sortable(V, key)
  BY <1>1, <1>6, <1>10, <1>11, <1>14, SortOneMore
<1> QED BY <1>6, <1>15

-----------------------------------------------------------------------------
(* THE DEPENDENCY GRAPH                                                     *)
(*                                                                          *)
(* Each method keeps the graph WellFormed (types, mirrored edges, processed *)
(* nodes ancestor-closed, roots exact) and trips no debug_assert.  The      *)
(* proofs about the graph as a state machine and about the mempool, which   *)
(* has two graphs, rest on these.                                           *)

(***************************************************************************)
(* Reached is closed under the children it may pass through, holds its     *)
(* keys, stays within the graph, and is the least such set.                *)
(***************************************************************************)
LEMMA ReachedFacts ==
    ASSUME NEW g, NEW K, NEW keys, NEW through,
           GraphType(g, K), keys \subseteq Nodes(g)
    PROVE  /\ keys \subseteq Reached(g, keys, through)
           /\ Reached(g, keys, through) \subseteq Nodes(g)
           /\ \A p \in Reached(g, keys, through) :
                 g.children[p] \cap through \subseteq Reached(g, keys, through)
           /\ \A T \in SUBSET Nodes(g) :
                 (/\ keys \subseteq T
                  /\ \A p \in T : g.children[p] \cap through \subseteq T)
                 => Reached(g, keys, through) \subseteq T
<1>1. /\ DOMAIN g.children = Nodes(g)
      /\ \A p \in Nodes(g) : g.children[p] \subseteq Nodes(g)
      /\ \A p \in Nodes(g) : ChildrenOf(g, p) = g.children[p]
  BY DEF GraphType, ChildrenOf
<1>2. keys \subseteq Reached(g, keys, through)
  BY DEF Reached
<1>3. Reached(g, keys, through) \subseteq Nodes(g)
  BY DEF Reached
<1>4. ASSUME NEW p \in Reached(g, keys, through), NEW c \in g.children[p] \cap through
      PROVE  c \in Reached(g, keys, through)
  <2>1. c \in Nodes(g)
    BY <1>1, <1>3
  <2>2. ASSUME NEW T \in SUBSET Nodes(g), keys \subseteq T,
               \A q \in T : (ChildrenOf(g, q) \cap through) \subseteq T
        PROVE  c \in T
    <3>1. p \in T
      BY <2>2 DEF Reached
    <3>2. c \in ChildrenOf(g, p) \cap through
      BY <1>1, <1>3
    <3> QED BY <2>2, <3>1, <3>2
  <2> QED BY <2>1, <2>2 DEF Reached
<1>5. ASSUME NEW T \in SUBSET Nodes(g), keys \subseteq T,
             \A p \in T : g.children[p] \cap through \subseteq T
      PROVE  Reached(g, keys, through) \subseteq T
  <2>1. \A p \in T : (ChildrenOf(g, p) \cap through) \subseteq T
    BY <1>1, <1>5
  <2> QED BY <1>5, <2>1 DEF Reached
<1> QED BY <1>2, <1>3, <1>4, <1>5

(***************************************************************************)
(* Parents and ChildrenOf of a node of a well-typed graph are its entries. *)
(***************************************************************************)
LEMMA EdgeLookups ==
    ASSUME NEW g, NEW K, GraphType(g, K)
    PROVE  \A k \in Nodes(g) :
              /\ ParentsOf(g, k) = g.parents[k]
              /\ ChildrenOf(g, k) = g.children[k]
              /\ g.parents[k] \subseteq Nodes(g)
              /\ g.children[k] \subseteq Nodes(g)
BY DEF GraphType, ParentsOf, ChildrenOf

-----------------------------------------------------------------------------
(* Graphs as records: the methods rebuild the record field by field.        *)

Fields == {"pending", "vertices", "parents", "children", "roots", "processed"}

IsRecord(g) == g = [f \in Fields |-> g[f]]

(* A well-typed graph is a record with the six fields.                      *)
LEMMA TypedIsRecord ==
    ASSUME NEW g, NEW K, GraphType(g, K)
    PROVE  IsRecord(g)
BY DEF GraphType, IsRecord, Fields

(* A record whose fields have the right types is well-typed.                *)
LEMMA RecordIsTyped ==
    ASSUME NEW h, NEW K, IsRecord(h),
           h.pending \subseteq K, h.vertices \subseteq K,
           h.parents \in [Nodes(h) -> SUBSET Nodes(h)],
           h.children \in [Nodes(h) -> SUBSET Nodes(h)],
           h.roots \subseteq h.vertices, h.processed \subseteq h.vertices,
           h.pending \cap h.vertices = {}
    PROVE  GraphType(h, K)
<1> DEFINE N == [Nodes(h) -> SUBSET Nodes(h)]
<1>1. h.parents \in N /\ h.children \in N
  OBVIOUS
<1> HIDE DEF N
<1>2. h \in [pending : SUBSET K, vertices : SUBSET K, parents : N, children : N,
             roots : SUBSET h.vertices, processed : SUBSET h.vertices]
  BY <1>1 DEF IsRecord, Fields
<1> QED BY <1>2 DEF GraphType, N

(* try_make_root changes nothing but the roots.                             *)
LEMMA TryMakeRootFields ==
    ASSUME NEW g, NEW keys, IsRecord(g), NEW h, h = try_make_root(g, keys)
    PROVE  /\ IsRecord(h)
           /\ h.pending = g.pending
           /\ h.vertices = g.vertices
           /\ h.parents = g.parents
           /\ h.children = g.children
           /\ h.processed = g.processed
           /\ h.roots = g.roots \cup
                {k \in keys \ g.pending : ParentsOf(g, k) \subseteq g.processed}
<1>1. IsRecord(h)
  BY DEF try_make_root, IsRecord, Fields
<1>2. /\ h.pending = g.pending
      /\ h.vertices = g.vertices
      /\ h.parents = g.parents
      /\ h.children = g.children
      /\ h.processed = g.processed
  BY DEF try_make_root, IsRecord, Fields
<1>3. h.roots = g.roots \cup
                {k \in keys \ g.pending : ParentsOf(g, k) \subseteq g.processed}
  BY DEF try_make_root, IsRecord, Fields
<1> QED BY <1>1, <1>2, <1>3

-----------------------------------------------------------------------------
(* insert_pending keeps the graph well-formed.                              *)
LEMMA InsertPendingOK ==
    ASSUME NEW K, NEW g, WellFormed(g, K), NEW key \in K, NEW parents,
           insert_pending_result(g, key, parents) = "Ok"
    PROVE  LET h == insert_pending(g, key, parents) IN
           /\ WellFormed(h, K)
           /\ key \notin Nodes(g) /\ parents \subseteq Nodes(g)
           /\ h.pending = g.pending \cup {key}
           /\ h.vertices = g.vertices
           /\ h.processed = g.processed
           /\ h.parents = [k \in Nodes(g) \cup {key} |->
                            IF k = key THEN parents ELSE g.parents[k]]
<1>1. PICK h : h = insert_pending(g, key, parents)
  OBVIOUS
<1>2. key \notin Nodes(g) /\ parents \subseteq Nodes(g)
  BY DEF insert_pending_result, contains, Nodes
<1>3. IsRecord(g)
  BY TypedIsRecord DEF WellFormed
<1>4. DOMAIN g.parents = Nodes(g) /\ DOMAIN g.children = Nodes(g)
  BY DEF WellFormed, GraphType
<1>5. IsRecord(h)
  BY <1>1, <1>3 DEF insert_pending, IsRecord, Fields
<1>6. /\ h.pending = g.pending \cup {key}
      /\ h.vertices = g.vertices
      /\ h.roots = g.roots
      /\ h.processed = g.processed
  BY <1>1, <1>3 DEF insert_pending, IsRecord, Fields
<1>7. Nodes(h) = Nodes(g) \cup {key}
  BY <1>6 DEF Nodes
<1>8. h.parents = [k \in Nodes(h) |-> IF k = key THEN parents ELSE g.parents[k]]
  BY <1>1, <1>3, <1>4, <1>7 DEF insert_pending, IsRecord, Fields
<1>9. h.children = [k \in Nodes(h) |->
                      IF k = key THEN {}
                      ELSE g.children[k] \cup (IF k \in parents THEN {key} ELSE {})]
  BY <1>1, <1>3, <1>4, <1>7 DEF insert_pending, IsRecord, Fields
<1>10. GraphType(h, K)
  <2>1. h.parents \in [Nodes(h) -> SUBSET Nodes(h)]
    BY <1>2, <1>7, <1>8 DEF WellFormed, GraphType
  <2>2. h.children \in [Nodes(h) -> SUBSET Nodes(h)]
    BY <1>2, <1>7, <1>9 DEF WellFormed, GraphType
  <2>3. /\ h.pending \cap h.vertices = {}
        /\ h.pending \subseteq K /\ h.vertices \subseteq K
        /\ h.roots \subseteq h.vertices /\ h.processed \subseteq h.vertices
    BY <1>2, <1>6 DEF WellFormed, GraphType, Nodes
  <2> QED BY <1>5, <2>1, <2>2, <2>3, RecordIsTyped
<1>11. Mirrored(h)
  <2> SUFFICES ASSUME NEW p \in Nodes(h), NEW c \in Nodes(h)
               PROVE  p \in h.parents[c] <=> c \in h.children[p]
    BY DEF Mirrored
  <2>1. /\ \A k \in Nodes(g) : g.parents[k] \subseteq Nodes(g)
        /\ \A k \in Nodes(g) : g.children[k] \subseteq Nodes(g)
    BY DEF WellFormed, GraphType
  <2>2. CASE c = key
    BY <1>2, <1>7, <1>8, <1>9, <2>1, <2>2
  <2>3. CASE c # key /\ p = key
    BY <1>2, <1>7, <1>8, <1>9, <2>1, <2>3
  <2>4. CASE c # key /\ p # key
    BY <1>2, <1>7, <1>8, <1>9, <2>1, <2>4 DEF WellFormed, Mirrored
  <2> QED BY <2>2, <2>3, <2>4
<1>12. \A k \in g.vertices : k # key /\ k \in Nodes(h) /\ h.parents[k] = g.parents[k]
  BY <1>2, <1>7, <1>8 DEF Nodes
<1>13. InOrder(h)
  BY <1>6, <1>12 DEF WellFormed, GraphType, InOrder
<1>14. h.roots = RootsOf(h)
  BY <1>6, <1>12 DEF WellFormed, RootsOf
<1> QED BY <1>1, <1>2, <1>6, <1>7, <1>8, <1>10, <1>11, <1>13, <1>14 DEF WellFormed

-----------------------------------------------------------------------------
(* promote_pending keeps the graph well-formed and its root evaluation      *)
(* satisfies the debug_asserts.                                             *)
LEMMA PromotePendingOK ==
    ASSUME NEW K, NEW g, WellFormed(g, K), NEW key, key \in g.pending
    PROVE  /\ try_make_root_asserts(Promoted(g, key), {key})
           /\ WellFormed(promote_pending(g, key), K)
           /\ promote_pending(g, key).pending = g.pending \ {key}
           /\ promote_pending(g, key).vertices = g.vertices \cup {key}
           /\ promote_pending(g, key).parents = g.parents
           /\ promote_pending(g, key).processed = g.processed
<1>1. PICK m : m = Promoted(g, key)
  OBVIOUS
<1>2. PICK h : h = try_make_root(m, {key})
  OBVIOUS
<1>3. IsRecord(g)
  BY TypedIsRecord DEF WellFormed
<1>4. IsRecord(m)
  BY <1>1, <1>3 DEF Promoted, IsRecord, Fields
<1>5. /\ m.pending = g.pending \ {key}
      /\ m.vertices = g.vertices \cup {key}
      /\ m.parents = g.parents
      /\ m.children = g.children
      /\ m.roots = g.roots
      /\ m.processed = g.processed
  BY <1>1, <1>3 DEF Promoted, IsRecord, Fields
<1>6. /\ IsRecord(h)
      /\ h.pending = m.pending
      /\ h.vertices = m.vertices
      /\ h.parents = m.parents
      /\ h.children = m.children
      /\ h.processed = m.processed
      /\ h.roots = m.roots \cup
                {k \in {key} \ m.pending : ParentsOf(m, k) \subseteq m.processed}
  BY <1>2, <1>4, TryMakeRootFields
<1>7. key \notin g.vertices /\ key \notin g.processed /\ key \in Nodes(g)
  BY DEF WellFormed, GraphType, Nodes
<1>8. Nodes(h) = Nodes(g)
  BY <1>5, <1>6, <1>7 DEF Nodes
<1>9. try_make_root_asserts(m, {key})
  BY <1>5, <1>7 DEF try_make_root_asserts
<1>10. ParentsOf(m, key) = g.parents[key]
  BY <1>5, <1>7 DEF ParentsOf, WellFormed, GraphType
<1>11. h.roots = g.roots \cup (IF g.parents[key] \subseteq g.processed THEN {key} ELSE {})
  BY <1>5, <1>6, <1>10
<1>12. GraphType(h, K)
  <2>1. /\ h.parents \in [Nodes(h) -> SUBSET Nodes(h)]
        /\ h.children \in [Nodes(h) -> SUBSET Nodes(h)]
    BY <1>5, <1>6, <1>8 DEF WellFormed, GraphType
  <2>2. /\ h.pending \cap h.vertices = {}
        /\ h.pending \subseteq K /\ h.vertices \subseteq K
        /\ h.roots \subseteq h.vertices /\ h.processed \subseteq h.vertices
    BY <1>5, <1>6, <1>11 DEF WellFormed, GraphType
  <2> QED BY <1>6, <2>1, <2>2, RecordIsTyped
<1>13. Mirrored(h)
  BY <1>5, <1>6, <1>8 DEF WellFormed, Mirrored
<1>14. InOrder(h)
  BY <1>5, <1>6 DEF WellFormed, InOrder
<1>15. h.roots = RootsOf(h)
  BY <1>5, <1>6, <1>7, <1>11 DEF WellFormed, RootsOf
<1> QED
  BY <1>1, <1>2, <1>5, <1>6, <1>9, <1>12, <1>13, <1>14, <1>15 DEF WellFormed, promote_pending

-----------------------------------------------------------------------------
(* process_root keeps the graph well-formed, and none of the children it    *)
(* evaluates as roots is processed already.                                 *)
LEMMA ProcessRootOK ==
    ASSUME NEW K, NEW g, WellFormed(g, K), NEW key, key \in g.roots
    PROVE  /\ try_make_root_asserts(Processed(g, key), ChildrenOf(g, key))
           /\ WellFormed(process_root(g, key), K)
           /\ process_root(g, key).pending = g.pending
           /\ process_root(g, key).vertices = g.vertices
           /\ process_root(g, key).parents = g.parents
           /\ process_root(g, key).processed = g.processed \cup {key}
<1>1. PICK m : m = Processed(g, key)
  OBVIOUS
<1>2. PICK h : h = try_make_root(m, ChildrenOf(g, key))
  OBVIOUS
<1>3. IsRecord(g)
  BY TypedIsRecord DEF WellFormed
<1>4. IsRecord(m)
  BY <1>1, <1>3 DEF Processed, IsRecord, Fields
<1>5. /\ m.pending = g.pending
      /\ m.vertices = g.vertices
      /\ m.parents = g.parents
      /\ m.children = g.children
      /\ m.roots = g.roots \ {key}
      /\ m.processed = g.processed \cup {key}
  BY <1>1, <1>3 DEF Processed, IsRecord, Fields
<1>6. /\ IsRecord(h)
      /\ h.pending = m.pending
      /\ h.vertices = m.vertices
      /\ h.parents = m.parents
      /\ h.children = m.children
      /\ h.processed = m.processed
      /\ h.roots = m.roots \cup
           {k \in ChildrenOf(g, key) \ m.pending : ParentsOf(m, k) \subseteq m.processed}
  BY <1>2, <1>4, TryMakeRootFields
<1>7. /\ key \in g.vertices /\ key \notin g.processed /\ key \in Nodes(g)
      /\ g.parents[key] \subseteq g.processed
  BY DEF WellFormed, GraphType, RootsOf, Nodes
<1>8. Nodes(h) = Nodes(g)
  BY <1>5, <1>6 DEF Nodes
<1>9. ChildrenOf(g, key) = g.children[key] /\ g.children[key] \subseteq Nodes(g)
  BY <1>7, EdgeLookups DEF WellFormed
<1>10. \A c \in g.children[key] : key \in g.parents[c] /\ c \notin g.processed
  BY <1>7, <1>9 DEF WellFormed, Mirrored, InOrder
<1>11. try_make_root_asserts(m, ChildrenOf(g, key))
  <2>1. \A c \in g.children[key] : c # key
    BY <1>7, <1>10
  <2> QED BY <1>5, <1>9, <1>10, <2>1 DEF try_make_root_asserts, Nodes
<1>12. \A k \in Nodes(g) : ParentsOf(m, k) = g.parents[k]
  BY <1>5 DEF ParentsOf, WellFormed, GraphType
<1>13. h.roots = (g.roots \ {key}) \cup
          {k \in g.children[key] \ g.pending : g.parents[k] \subseteq g.processed \cup {key}}
  BY <1>5, <1>6, <1>9, <1>12
<1>14. GraphType(h, K)
  <2>1. /\ h.parents \in [Nodes(h) -> SUBSET Nodes(h)]
        /\ h.children \in [Nodes(h) -> SUBSET Nodes(h)]
    BY <1>5, <1>6, <1>8 DEF WellFormed, GraphType
  <2>2. /\ h.pending \cap h.vertices = {}
        /\ h.pending \subseteq K /\ h.vertices \subseteq K
        /\ h.processed \subseteq h.vertices
    BY <1>5, <1>6, <1>7 DEF WellFormed, GraphType
  <2>3. h.roots \subseteq h.vertices
    BY <1>5, <1>6, <1>9, <1>13 DEF WellFormed, GraphType, Nodes
  <2> QED BY <1>6, <2>1, <2>2, <2>3, RecordIsTyped
<1>15. Mirrored(h)
  BY <1>5, <1>6, <1>8 DEF WellFormed, Mirrored
<1>16. InOrder(h)
  BY <1>5, <1>6, <1>7 DEF WellFormed, InOrder
<1>17. h.roots = RootsOf(h)
  <2>1. ASSUME NEW k \in h.roots
        PROVE  k \in RootsOf(h)
    <3>1. CASE k \in g.roots \ {key}
      BY <1>5, <1>6, <3>1 DEF WellFormed, RootsOf
    <3>2. CASE /\ k \in g.children[key] \ g.pending
               /\ g.parents[k] \subseteq g.processed \cup {key}
      <4>1. k \in g.vertices /\ k # key /\ k \notin g.processed
        BY <1>7, <1>9, <1>10, <3>2 DEF Nodes
      <4> QED BY <1>5, <1>6, <3>2, <4>1 DEF RootsOf
    <3> QED BY <1>13, <3>1, <3>2
  <2>2. ASSUME NEW k \in RootsOf(h)
        PROVE  k \in h.roots
    <3>1. /\ k \in g.vertices /\ k \notin g.processed /\ k # key
          /\ g.parents[k] \subseteq g.processed \cup {key}
      BY <1>5, <1>6 DEF RootsOf
    <3>2. CASE key \in g.parents[k]
      <4>1. k \in g.children[key] /\ k \notin g.pending
        BY <1>7, <3>1, <3>2 DEF WellFormed, Mirrored, GraphType, Nodes
      <4> QED BY <1>13, <3>1, <4>1
    <3>3. CASE key \notin g.parents[k]
      <4>1. k \in g.roots
        BY <3>1, <3>3 DEF WellFormed, RootsOf
      <4> QED BY <1>13, <3>1, <4>1
    <3> QED BY <3>2, <3>3
  <2> QED BY <2>1, <2>2
<1> QED
  BY <1>1, <1>2, <1>5, <1>6, <1>11, <1>14, <1>15, <1>16, <1>17
     DEF WellFormed, process_root

-----------------------------------------------------------------------------
(* prune_processed keeps the graph well-formed.                             *)
LEMMA PruneProcessedOK ==
    ASSUME NEW K, NEW g, WellFormed(g, K), NEW keys,
           prune_processed_result(g, keys) = "Ok"
    PROVE  LET h == prune_processed(g, keys) IN
           /\ WellFormed(h, K)
           /\ keys \subseteq g.processed
           /\ \A k \in keys : g.parents[k] \subseteq keys
           /\ h.pending = g.pending
           /\ h.vertices = g.vertices \ keys
           /\ h.processed = g.processed \ keys
           /\ h.parents = [k \in Nodes(g) \ keys |-> g.parents[k] \ keys]
<1>1. PICK h : h = prune_processed(g, keys)
  OBVIOUS
<1>2. IsRecord(g)
  BY TypedIsRecord DEF WellFormed
<1>3. /\ keys \subseteq g.processed
      /\ g.processed \subseteq g.vertices
      /\ g.pending \cap g.vertices = {}
      /\ keys \subseteq Nodes(g)
  BY DEF prune_processed_result, WellFormed, GraphType, Nodes
<1>4. \A k \in keys : g.parents[k] \subseteq keys
  BY <1>3, EdgeLookups DEF prune_processed_result, WellFormed
<1>5. IsRecord(h)
  BY <1>1, <1>2 DEF prune_processed, IsRecord, Fields
<1>6. /\ h.pending = g.pending
      /\ h.vertices = g.vertices \ keys
      /\ h.processed = g.processed \ keys
      /\ h.roots = g.roots
  BY <1>1, <1>2 DEF prune_processed, IsRecord, Fields
<1>7. Nodes(h) = Nodes(g) \ keys
  BY <1>3, <1>6 DEF Nodes
<1>8. DOMAIN g.parents = Nodes(g) /\ DOMAIN g.children = Nodes(g)
  BY DEF WellFormed, GraphType
<1>9. h.children = [k \in Nodes(h) |-> g.children[k]]
  BY <1>1, <1>2, <1>7, <1>8 DEF prune_processed, IsRecord, Fields
<1>10. h.parents = [k \in Nodes(h) |-> g.parents[k] \ keys]
  <2>1. h.parents = [k \in DOMAIN g.parents \ keys |->
                       g.parents[k] \ {p \in keys : k \in ChildrenOf(g, p)}]
    BY <1>1, <1>2 DEF prune_processed, IsRecord, Fields
  <2>2. ASSUME NEW k \in Nodes(h)
        PROVE  g.parents[k] \ {p \in keys : k \in ChildrenOf(g, p)} = g.parents[k] \ keys
    <3>1. \A p \in keys : p \in g.parents[k] => k \in ChildrenOf(g, p)
      BY <1>3, <1>7, EdgeLookups DEF WellFormed, Mirrored
    <3> QED BY <3>1
  <2> QED BY <1>7, <1>8, <2>1, <2>2
<1>11. \A k \in Nodes(h) : g.children[k] \subseteq Nodes(h)
  <2> SUFFICES ASSUME NEW k \in Nodes(h), NEW c \in g.children[k]
               PROVE  c \in Nodes(h)
    OBVIOUS
  <2>1. k \in Nodes(g) /\ c \in Nodes(g)
    BY <1>7, EdgeLookups DEF WellFormed
  <2>2. k \in g.parents[c]
    BY <2>1 DEF WellFormed, Mirrored
  <2>3. c \notin keys
    BY <1>4, <1>7, <2>2
  <2> QED BY <1>7, <2>1, <2>3
<1>12. GraphType(h, K)
  <2>1. h.parents \in [Nodes(h) -> SUBSET Nodes(h)]
    BY <1>7, <1>10, EdgeLookups DEF WellFormed
  <2>2. h.children \in [Nodes(h) -> SUBSET Nodes(h)]
    BY <1>9, <1>11
  <2>3. /\ h.pending \cap h.vertices = {}
        /\ h.pending \subseteq K /\ h.vertices \subseteq K
        /\ h.processed \subseteq h.vertices
    BY <1>6 DEF WellFormed, GraphType
  <2>4. h.roots \subseteq h.vertices
    BY <1>3, <1>6 DEF WellFormed, RootsOf
  <2> QED BY <1>5, <2>1, <2>2, <2>3, <2>4, RecordIsTyped
<1>13. Mirrored(h)
  BY <1>7, <1>9, <1>10 DEF WellFormed, Mirrored
<1>14. \A k \in h.vertices : k \in Nodes(h) /\ h.parents[k] = g.parents[k] \ keys
  BY <1>6, <1>7, <1>10 DEF Nodes
<1>15. InOrder(h)
  BY <1>3, <1>6, <1>14 DEF WellFormed, InOrder
<1>16. h.roots = RootsOf(h)
  <2>1. \A k \in h.vertices : h.parents[k] \subseteq h.processed
                              <=> g.parents[k] \subseteq g.processed
    BY <1>3, <1>6, <1>14
  <2>2. h.vertices \ h.processed = g.vertices \ g.processed
    BY <1>3, <1>6
  <2> QED BY <1>6, <2>1, <2>2 DEF WellFormed, RootsOf
<1> QED BY <1>1, <1>3, <1>4, <1>6, <1>7, <1>10, <1>12, <1>13, <1>15, <1>16 DEF WellFormed

-----------------------------------------------------------------------------
(* revert_subgraphs keeps the graph well-formed.  The subtle part is that   *)
(* no new root is missed: a reverted node that was not asked for has a      *)
(* reverted parent, so it cannot be a root.                                 *)
LEMMA RevertSubgraphsOK ==
    ASSUME NEW K, NEW g, WellFormed(g, K), NEW keys, keys \subseteq g.processed
    PROVE  /\ try_make_root_asserts(Unprocessed(g, keys), g.roots \cup keys)
           /\ WellFormed(revert_subgraphs(g, keys), K)
           /\ revert_subgraphs(g, keys).parents = g.parents
           /\ revert_subgraphs(g, keys).pending = g.pending
           /\ revert_subgraphs(g, keys).vertices = g.vertices
           /\ revert_subgraphs(g, keys).processed =
                 g.processed \ Reached(g, keys, g.vertices)
<1>1. PICK m : m = Unprocessed(g, keys)
  OBVIOUS
<1>2. PICK h : h = try_make_root(m, g.roots \cup keys)
  OBVIOUS
<1>3. PICK R : R = Reached(g, keys, g.vertices)
  OBVIOUS
<1>4. IsRecord(g)
  BY TypedIsRecord DEF WellFormed
<1>5. IsRecord(m)
  BY <1>1, <1>4 DEF Unprocessed, IsRecord, Fields
<1>6. /\ m.pending = g.pending
      /\ m.vertices = g.vertices
      /\ m.parents = g.parents
      /\ m.children = g.children
      /\ m.roots = {}
      /\ m.processed = g.processed \ R
  BY <1>1, <1>3, <1>4 DEF Unprocessed, IsRecord, Fields
<1>7. /\ IsRecord(h)
      /\ h.pending = g.pending
      /\ h.vertices = g.vertices
      /\ h.parents = g.parents
      /\ h.children = g.children
      /\ h.processed = g.processed \ R
      /\ h.roots = {k \in (g.roots \cup keys) \ g.pending :
                       ParentsOf(m, k) \subseteq g.processed \ R}
  BY <1>2, <1>5, <1>6, TryMakeRootFields
<1>8. Nodes(h) = Nodes(g)
  BY <1>7 DEF Nodes
<1>9. /\ keys \subseteq g.vertices /\ keys \subseteq Nodes(g)
      /\ g.roots \subseteq g.vertices /\ g.processed \subseteq g.vertices
      /\ g.roots \cap g.processed = {}
      /\ g.pending \cap g.vertices = {}
      /\ g.vertices \subseteq Nodes(g)
  BY DEF WellFormed, GraphType, RootsOf, Nodes
<1>10. /\ keys \subseteq R
       /\ R \subseteq Nodes(g)
       /\ \A p \in R : g.children[p] \cap g.vertices \subseteq R
       /\ \A T \in SUBSET Nodes(g) :
             (/\ keys \subseteq T
              /\ \A p \in T : g.children[p] \cap g.vertices \subseteq T)
             => R \subseteq T
  BY <1>3, <1>9, ReachedFacts DEF WellFormed
<1>11. R \subseteq g.vertices
  <2>1. R \cap g.vertices \in SUBSET Nodes(g)
    BY <1>10
  <2>2. keys \subseteq R \cap g.vertices
    BY <1>9, <1>10
  <2>3. \A p \in R \cap g.vertices : g.children[p] \cap g.vertices \subseteq R \cap g.vertices
    BY <1>10
  <2>4. R \subseteq R \cap g.vertices
    BY <1>10, <2>1, <2>2, <2>3
  <2> QED BY <2>4
<1>12. ASSUME NEW k \in R \ keys
       PROVE  g.parents[k] \cap R # {}
  <2> SUFFICES ASSUME g.parents[k] \cap R = {}
               PROVE  FALSE
    OBVIOUS
  <2>1. R \ {k} \in SUBSET Nodes(g) /\ keys \subseteq R \ {k}
    BY <1>10
  <2>2. \A p \in R \ {k} : g.children[p] \cap g.vertices \subseteq R \ {k}
    <3> SUFFICES ASSUME NEW p \in R \ {k}, NEW c \in g.children[p] \cap g.vertices
                 PROVE  c \in R \ {k}
      OBVIOUS
    <3>1. c \in R
      BY <1>10
    <3>2. p \in g.parents[c]
      BY <1>10, <3>1 DEF WellFormed, Mirrored
    <3> QED BY <3>1, <3>2
  <2>3. R \subseteq R \ {k}
    BY <1>10, <2>1, <2>2
  <2> QED BY <2>3
<1>13. try_make_root_asserts(m, g.roots \cup keys)
  BY <1>6, <1>9, <1>10 DEF try_make_root_asserts
<1>14. \A k \in Nodes(g) : ParentsOf(m, k) = g.parents[k]
  BY <1>6 DEF ParentsOf, WellFormed, GraphType
<1>15. h.roots = {k \in g.roots \cup keys : g.parents[k] \subseteq g.processed \ R}
  BY <1>7, <1>9, <1>14
<1>16. GraphType(h, K)
  <2>1. /\ h.parents \in [Nodes(h) -> SUBSET Nodes(h)]
        /\ h.children \in [Nodes(h) -> SUBSET Nodes(h)]
    BY <1>7, <1>8 DEF WellFormed, GraphType
  <2>2. /\ h.pending \cap h.vertices = {}
        /\ h.pending \subseteq K /\ h.vertices \subseteq K
        /\ h.processed \subseteq h.vertices
        /\ h.roots \subseteq h.vertices
    BY <1>7, <1>9, <1>15 DEF WellFormed, GraphType
  <2> QED BY <1>7, <2>1, <2>2, RecordIsTyped
<1>17. Mirrored(h)
  BY <1>7, <1>8 DEF WellFormed, Mirrored
<1>18. InOrder(h)
  <2> SUFFICES ASSUME NEW k \in g.processed \ R, NEW p \in g.parents[k]
               PROVE  p \in g.processed \ R
    BY <1>7 DEF InOrder
  <2>1. p \in g.processed
    BY DEF WellFormed, InOrder
  <2>2. k \in Nodes(g) /\ p \in Nodes(g) /\ k \in g.vertices
    BY <1>9, <2>1
  <2>3. k \in g.children[p]
    BY <2>2 DEF WellFormed, Mirrored
  <2>4. p \notin R
    BY <1>10, <2>2, <2>3
  <2> QED BY <2>1, <2>4
<1>19. h.roots = RootsOf(h)
  <2>1. ASSUME NEW k \in h.roots
        PROVE  k \in RootsOf(h)
    <3>1. k \in g.vertices /\ k \notin g.processed \ R
      BY <1>9, <1>10, <1>15
    <3> QED BY <1>7, <1>15, <3>1 DEF RootsOf
  <2>2. ASSUME NEW k \in RootsOf(h)
        PROVE  k \in h.roots
    <3>1. /\ k \in g.vertices /\ k \notin g.processed \ R
          /\ g.parents[k] \subseteq g.processed \ R
      BY <1>7 DEF RootsOf
    <3>2. CASE k \in g.processed
      <4>1. k \in R
        BY <3>1, <3>2
      <4>2. k \in keys
        BY <1>12, <3>1, <4>1
      <4> QED BY <1>15, <3>1, <4>2
    <3>3. CASE k \notin g.processed
      <4>1. k \in g.roots
        BY <3>1, <3>3 DEF WellFormed, RootsOf
      <4> QED BY <1>15, <3>1, <4>1
    <3> QED BY <3>2, <3>3
  <2> QED BY <2>1, <2>2
<1>20. WellFormed(h, K)
  BY <1>16, <1>17, <1>18, <1>19 DEF WellFormed
<1>21. h = revert_subgraphs(g, keys)
  BY <1>1, <1>2 DEF revert_subgraphs
<1> QED
  BY <1>1, <1>3, <1>7, <1>13, <1>20, <1>21

-----------------------------------------------------------------------------
(* purge_subgraphs keeps the graph well-formed: with a node go all its      *)
(* descendants, so no remaining node loses a parent.                        *)
LEMMA PurgeSubgraphsOK ==
    ASSUME NEW K, NEW g, WellFormed(g, K), NEW keys, keys \subseteq Nodes(g)
    PROVE  LET h == purge_subgraphs(g, keys)
               R == purge_subgraphs_removed(g, keys)
           IN  /\ WellFormed(h, K)
               /\ h.pending = g.pending \ R
               /\ h.vertices = g.vertices \ R
               /\ h.processed = g.processed \ R
               /\ h.parents = [k \in Nodes(g) \ R |-> g.parents[k]]
               /\ \A k \in Nodes(g) \ R : g.parents[k] \cap R = {}
<1>1. PICK h : h = purge_subgraphs(g, keys)
  OBVIOUS
<1>2. PICK R : R = Reached(g, keys, Nodes(g))
  OBVIOUS
<1>3. IsRecord(g)
  BY TypedIsRecord DEF WellFormed
<1>4. IsRecord(h)
  BY <1>1, <1>3 DEF purge_subgraphs, IsRecord, Fields
<1>5. /\ h.pending = g.pending \ R
      /\ h.vertices = g.vertices \ R
      /\ h.processed = g.processed \ R
      /\ h.roots = g.roots \ R
  BY <1>1, <1>2, <1>3 DEF purge_subgraphs, purge_subgraphs_removed, IsRecord, Fields
<1>6. Nodes(h) = Nodes(g) \ R
  BY <1>5 DEF Nodes
<1>7. DOMAIN g.parents = Nodes(g) /\ DOMAIN g.children = Nodes(g)
  BY DEF WellFormed, GraphType
<1>8. h.parents = [k \in Nodes(h) |-> g.parents[k]]
  BY <1>1, <1>2, <1>3, <1>6, <1>7
     DEF purge_subgraphs, purge_subgraphs_removed, IsRecord, Fields
<1>9. h.children = [k \in Nodes(h) |-> g.children[k] \ {c \in R : k \in ParentsOf(g, c)}]
  BY <1>1, <1>2, <1>3, <1>6, <1>7
     DEF purge_subgraphs, purge_subgraphs_removed, IsRecord, Fields
<1>10. /\ keys \subseteq R
       /\ R \subseteq Nodes(g)
       /\ \A p \in R : g.children[p] \cap Nodes(g) \subseteq R
  BY <1>2, ReachedFacts DEF WellFormed
<1>11. \A k \in Nodes(h) : g.parents[k] \subseteq Nodes(h)
  <2> SUFFICES ASSUME NEW k \in Nodes(h), NEW p \in g.parents[k]
               PROVE  p \in Nodes(h)
    OBVIOUS
  <2>1. k \in Nodes(g) /\ p \in Nodes(g)
    BY <1>6, EdgeLookups DEF WellFormed
  <2>2. k \in g.children[p]
    BY <2>1 DEF WellFormed, Mirrored
  <2> QED BY <1>6, <1>10, <2>1, <2>2
<1>12. \A k \in Nodes(h) : h.children[k] = g.children[k] \ R
  <2> SUFFICES ASSUME NEW k \in Nodes(h), NEW c \in R \cap g.children[k]
               PROVE  k \in ParentsOf(g, c)
    BY <1>9
  <2> QED BY <1>6, <1>10, EdgeLookups DEF WellFormed, Mirrored
<1>13. GraphType(h, K)
  <2>1. h.parents \in [Nodes(h) -> SUBSET Nodes(h)]
    BY <1>8, <1>11
  <2>2. h.children \in [Nodes(h) -> SUBSET Nodes(h)]
    <3>1. \A k \in Nodes(h) : g.children[k] \ R \subseteq Nodes(h)
      BY <1>6, EdgeLookups DEF WellFormed
    <3>2. \A k \in Nodes(h) : h.children[k] \subseteq Nodes(h)
      BY <1>12, <3>1
    <3> QED BY <1>9, <3>2
  <2>3. /\ h.pending \cap h.vertices = {}
        /\ h.pending \subseteq K /\ h.vertices \subseteq K
        /\ h.processed \subseteq h.vertices
        /\ h.roots \subseteq h.vertices
    BY <1>5 DEF WellFormed, GraphType
  <2> QED BY <1>4, <2>1, <2>2, <2>3, RecordIsTyped
<1>14. Mirrored(h)
  <2> SUFFICES ASSUME NEW p \in Nodes(h), NEW c \in Nodes(h)
               PROVE  p \in h.parents[c] <=> c \in h.children[p]
    BY DEF Mirrored
  <2>1. p \in g.parents[c] <=> c \in g.children[p]
    BY <1>6 DEF WellFormed, Mirrored
  <2> QED BY <1>6, <1>8, <1>12, <2>1
<1>15. \A k \in h.vertices : /\ k \in Nodes(h)
                             /\ h.parents[k] = g.parents[k]
                             /\ g.parents[k] \cap R = {}
  BY <1>5, <1>6, <1>8, <1>11 DEF Nodes
<1>16. InOrder(h)
  BY <1>5, <1>13, <1>15 DEF WellFormed, InOrder, GraphType
<1>17. h.roots = RootsOf(h)
  BY <1>5, <1>15 DEF WellFormed, RootsOf
<1>18. \A k \in Nodes(g) \ R : g.parents[k] \cap R = {}
  BY <1>6, <1>11
<1>19. WellFormed(h, K)
  BY <1>13, <1>14, <1>16, <1>17 DEF WellFormed
<1> QED BY <1>1, <1>2, <1>5, <1>6, <1>8, <1>18, <1>19 DEF purge_subgraphs_removed

-----------------------------------------------------------------------------
(***************************************************************************)
(* Reached, seen from the parents: a node it may pass through is in it if  *)
(* one of its parents is, and it is the least such set.                    *)
(***************************************************************************)
LEMMA ReachedByParents ==
    ASSUME NEW g, NEW K, WellFormed(g, K), NEW keys, keys \subseteq Nodes(g),
           NEW through, through \subseteq Nodes(g)
    PROVE  LET R == Reached(g, keys, through) IN
           /\ keys \subseteq R
           /\ R \subseteq Nodes(g)
           /\ \A c \in through : g.parents[c] \cap R # {} => c \in R
           /\ \A T \in SUBSET Nodes(g) :
                 (/\ keys \subseteq T
                  /\ \A c \in through : g.parents[c] \cap T # {} => c \in T)
                 => R \subseteq T
<1> DEFINE R == Reached(g, keys, through)
<1>1. /\ keys \subseteq R /\ R \subseteq Nodes(g)
      /\ \A p \in R : g.children[p] \cap through \subseteq R
      /\ \A T \in SUBSET Nodes(g) :
            (keys \subseteq T /\ \A p \in T : g.children[p] \cap through \subseteq T)
            => R \subseteq T
  BY ReachedFacts DEF WellFormed
<1>2. \A p, c \in Nodes(g) : p \in g.parents[c] <=> c \in g.children[p]
  BY DEF WellFormed, Mirrored
<1>3. ASSUME NEW c \in through, NEW p \in g.parents[c] \cap R
      PROVE  c \in R
  <2>1. p \in Nodes(g) /\ c \in Nodes(g)
    BY <1>1
  <2> QED BY <1>1, <1>2, <2>1
<1>4. ASSUME NEW T \in SUBSET Nodes(g), keys \subseteq T,
             \A c \in through : g.parents[c] \cap T # {} => c \in T
      PROVE  R \subseteq T
  <2>1. \A p \in T : g.children[p] \cap through \subseteq T
    BY <1>2, <1>4
  <2> QED BY <1>1, <1>4, <2>1
<1> QED BY <1>1, <1>3, <1>4

-----------------------------------------------------------------------------
(* No cycles: every nonempty set of nodes holds one with no parent in it.   *)
Acyclic(g) ==
    \A T \in SUBSET Nodes(g) : T # {} => \E k \in T : g.parents[k] \cap T = {}

(* Keeping or dropping nodes and edges closes no cycle.                     *)
LEMMA FewerEdges ==
    ASSUME NEW g, NEW h, Acyclic(g), Nodes(h) \subseteq Nodes(g),
           \A k \in Nodes(h) : h.parents[k] \subseteq g.parents[k]
    PROVE  Acyclic(h)
<1> SUFFICES ASSUME NEW T \in SUBSET Nodes(h), T # {}
             PROVE  \E k \in T : h.parents[k] \cap T = {}
  BY DEF Acyclic
<1>1. PICK k \in T : g.parents[k] \cap T = {}
  BY DEF Acyclic
<1> QED BY <1>1

(* Nor does a new node whose parents are old ones.                          *)
LEMMA NewNode ==
    ASSUME NEW g, NEW h, NEW key, NEW parents, Acyclic(g), key \notin Nodes(g),
           \A k \in Nodes(g) : g.parents[k] \subseteq Nodes(g),
           parents \subseteq Nodes(g), Nodes(h) = Nodes(g) \cup {key},
           h.parents = [k \in Nodes(g) \cup {key} |->
                          IF k = key THEN parents ELSE g.parents[k]]
    PROVE  Acyclic(h)
<1> SUFFICES ASSUME NEW T \in SUBSET Nodes(h), T # {}
             PROVE  \E k \in T : h.parents[k] \cap T = {}
  BY DEF Acyclic
<1>1. CASE T \ {key} = {}
  BY <1>1
<1>2. CASE T \ {key} # {}
  <2>1. PICK k \in T \ {key} : g.parents[k] \cap (T \ {key}) = {}
    BY <1>2 DEF Acyclic
  <2> QED BY <2>1
<1> QED BY <1>1, <1>2

(* What depends on fewer nodes in a graph with fewer edges.                 *)
LEMMA ReachedLess ==
    ASSUME NEW K, NEW g, WellFormed(g, K), NEW h, WellFormed(h, K),
           Nodes(h) \subseteq Nodes(g), \A k \in Nodes(h) : h.parents[k] \subseteq g.parents[k],
           NEW D, D \subseteq Nodes(g), NEW E, E \subseteq Nodes(h) \cap D
    PROVE  Reached(h, E, Nodes(h)) \subseteq Reached(g, D, Nodes(g))
<1>1. PICK M, N : M = Nodes(h) /\ N = Nodes(g)
  OBVIOUS
<1>2. PICK R, Q : R = Reached(g, D, N) /\ Q = Reached(h, E, M)
  OBVIOUS
<1>3. D \subseteq R /\ \A c \in N : g.parents[c] \cap R # {} => c \in R
  BY <1>1, <1>2, ReachedByParents
<1>4. PICK T : T = R \cap M
  OBVIOUS
<1>5. T \in SUBSET Nodes(h) /\ E \subseteq T
  BY <1>1, <1>3, <1>4
<1>6. \A c \in M : h.parents[c] \cap T # {} => c \in T
  BY <1>1, <1>3, <1>4
<1>7. E \subseteq Nodes(h) /\ M \subseteq Nodes(h)
  BY <1>1
<1>8. Q \subseteq T
  BY <1>2, <1>5, <1>6, <1>7, ReachedByParents
<1> QED BY <1>1, <1>2, <1>4, <1>8
=============================================================================

--------------------------- MODULE FaucetProofs ---------------------------
(***************************************************************************)
(* Proofs about the faucet, for every number of clients, limit and fault:  *)
(* the minter follows its account on the node, the cache of challenges     *)
(* counts right, and no challenge buys two requests.                       *)
(***************************************************************************)
EXTENDS Faucet, BasicLemmas

(* s is a beginning of t.                                                   *)
PrefixOf(s, t) == Len(s) <= Len(t) /\ \A i \in 1 .. Len(s) : s[i] = t[i]

(* The reply of the node while the minter has one.                          *)
ReplyType ==
    pc = "submitted" =>
        \/ \E n \in Nat : reply = [accepted |-> TRUE, tx |-> n]
        \/ \E s \in Seq(Nat) : reply = [accepted |-> FALSE, onchain |-> s]

(* The oldest state the minter can go back to.                              *)
Oldest == IF prior = << >> THEN local ELSE prior[1]

(* The prior states are beginnings of the local one, each one shorter than  *)
(* the next.                                                                *)
Steps ==
    \A i \in 1 .. Len(prior) :
        /\ Len(prior[i]) + (Len(prior) + 1 - i) = Len(local)
        /\ PrefixOf(prior[i], local)

(* A process that is down has no history.                                   *)
NothingKept == pc = "down" => prior = << >>

(* The node's state is a beginning of the minter's, and of the one in a     *)
(* reply the minter has not seen yet; and it does not go back further than  *)
(* the minter can, unless states were dropped because of the limit.         *)
Behind ==
    pc # "down" /\ ~behind =>
        /\ PrefixOf(NodeState, Current)
        /\ pc = "submitted" /\ ~reply.accepted => PrefixOf(NodeState, reply.onchain)
        /\ forgotten \/ Len(Oldest) <= Len(committed)

(* The inductive invariant of the minter.                                   *)
MinterInv ==
    /\ MinterType /\ NodeType /\ ReplyType
    /\ Steps /\ NothingKept /\ Behind /\ InStep

-----------------------------------------------------------------------------
(* Beginnings of sequences. *)

(* Two prefixes of one sequence with the same length are the same.          *)
LEMMA PrefixEqual ==
    ASSUME NEW S, NEW s \in Seq(S), NEW t \in Seq(S), NEW u,
           PrefixOf(s, u), PrefixOf(t, u), Len(s) = Len(t)
    PROVE  s = t
<1>1. Len(s) \in Nat /\ \A i \in 1 .. Len(s) : s[i] = t[i]
  BY LenProperties DEF PrefixOf
<1> QED BY <1>1, SeqEqual

(* A prefix of a prefix is a prefix.                                        *)
LEMMA PrefixTransitive ==
    ASSUME NEW s \in Seq(Nat), NEW t \in Seq(Nat), NEW u \in Seq(Nat),
           PrefixOf(s, t), PrefixOf(t, u)
    PROVE  PrefixOf(s, u)
  BY LenProperties DEF PrefixOf

(* Two beginnings of one sequence, the shorter first.                       *)
LEMMA PrefixLinear ==
    ASSUME NEW s \in Seq(Nat), NEW t \in Seq(Nat), NEW u \in Seq(Nat),
           PrefixOf(s, u), PrefixOf(t, u), Len(s) <= Len(t)
    PROVE  PrefixOf(s, t)
  BY LenProperties DEF PrefixOf

(* A sequence is a prefix of what is appended to it, and of itself.         *)
LEMMA PrefixAppend ==
    ASSUME NEW s \in Seq(Nat), NEW x \in Nat
    PROVE  PrefixOf(s, Append(s, x)) /\ PrefixOf(s, s)
  BY LenProperties, AppendProperties DEF PrefixOf

(* Prefixes stay prefixes behind a common beginning.                        *)
LEMMA PrefixConcat ==
    ASSUME NEW c \in Seq(Nat), NEW m \in Seq(Nat), NEW n \in Seq(Nat), PrefixOf(m, n)
    PROVE  PrefixOf(c \o m, c \o n)
<1>1. Len(c) \in Nat /\ Len(m) \in Nat /\ Len(n) \in Nat /\ Len(m) <= Len(n)
  BY LenProperties DEF PrefixOf
<1>2. /\ Len(c \o m) = Len(c) + Len(m)
      /\ \A i \in 1 .. Len(c) + Len(m) :
           (c \o m)[i] = IF i <= Len(c) THEN c[i] ELSE m[i - Len(c)]
  BY ConcatProperties
<1>3. /\ Len(c \o n) = Len(c) + Len(n)
      /\ \A i \in 1 .. Len(c) + Len(n) :
           (c \o n)[i] = IF i <= Len(c) THEN c[i] ELSE n[i - Len(c)]
  BY ConcatProperties
<1>4. ASSUME NEW i \in 1 .. Len(c) + Len(m) PROVE (c \o m)[i] = (c \o n)[i]
  <2>1. i \in 1 .. Len(c) + Len(n) /\ (~(i <= Len(c)) => i - Len(c) \in 1 .. Len(m))
    BY <1>1
  <2>2. ~(i <= Len(c)) => m[i - Len(c)] = n[i - Len(c)]
    BY <2>1 DEF PrefixOf
  <2> QED BY <2>1, <2>2, <1>2, <1>3
<1> QED BY <1>1, <1>2, <1>3, <1>4 DEF PrefixOf

(* A commit moves a transaction from one part of the node's state to the    *)
(* other.                                                                   *)
LEMMA CommitKeepsState ==
    ASSUME NodeType, CommitTransaction
    PROVE  NodeState' = NodeState /\ NodeType' /\ Len(committed') = Len(committed) + 1
<1> DEFINE c == committed
           n == inflight
<1>1. c \in Seq(Nat) /\ n \in Seq(Nat) /\ n # << >>
  BY DEF NodeType, CommitTransaction
<1>2. Head(n) \in Nat /\ Tail(n) \in Seq(Nat) /\ n = <<Head(n)>> \o Tail(n)
  BY <1>1, HeadTailProperties, ConcatProperties
<1>3. committed' = Append(c, Head(n)) /\ inflight' = Tail(n)
  BY DEF CommitTransaction
<1>4. Append(c, Head(n)) = c \o <<Head(n)>>
  BY <1>1, <1>2, AppendIsConcat
<1>5. (c \o <<Head(n)>>) \o Tail(n) = c \o (<<Head(n)>> \o Tail(n))
  BY <1>1, <1>2, ConcatAssociative
<1>6. NodeType'
  BY <1>1, <1>2, <1>3, AppendProperties DEF NodeType, CommitTransaction
<1> QED BY <1>1, <1>2, <1>3, <1>4, <1>5, <1>6, AppendProperties DEF NodeState

(* The node loses transactions from the end.                                *)
LEMMA DropGoesBack ==
    ASSUME NodeType, DropTransactions
    PROVE  PrefixOf(NodeState', NodeState) /\ NodeType' /\ committed' = committed
<1>1. PICK n \in 0 .. (Len(inflight) - 1) : inflight' = SubSeq(inflight, 1, n)
  BY DEF DropTransactions
<1>2. /\ committed \in Seq(Nat) /\ inflight \in Seq(Nat)
      /\ Len(committed) \in Nat /\ Len(inflight) \in Nat
      /\ committed' = committed
  BY LenProperties DEF NodeType, DropTransactions
<1>3. /\ inflight' \in Seq(Nat) /\ Len(inflight') = n
      /\ \A i \in 1 .. n : inflight'[i] = inflight[i]
  BY <1>1, <1>2, SubSeqProperties
<1>4. PrefixOf(inflight', inflight)
  BY <1>1, <1>2, <1>3 DEF PrefixOf
<1>5. NodeState' = committed \o inflight' /\ NodeState = committed \o inflight
  BY <1>2 DEF NodeState
<1>6. PrefixOf(NodeState', NodeState)
  BY <1>2, <1>3, <1>4, <1>5, PrefixConcat
<1>7. NodeType'
  BY <1>2, <1>3, FaucetAssumption DEF NodeType, DropTransactions, Fault
<1> QED BY <1>2, <1>6, <1>7

(* What the node's state is made of.                                        *)
LEMMA ConcatType ==
    ASSUME NEW c \in Seq(Nat), NEW n \in Seq(Nat)
    PROVE  /\ c \o n \in Seq(Nat) /\ Len(c \o n) \in Nat
           /\ Len(c) \in Nat /\ Len(c) <= Len(c \o n)
<1>1. Len(c) \in Nat /\ Len(n) \in Nat
  BY LenProperties
<1> QED BY <1>1, ConcatProperties

(* The account state the minter works on is a sequence of transactions.     *)
LEMMA CurrentType ==
    ASSUME MinterType, ReplyType
    PROVE  Current \in Seq(Nat)
<1>1. CASE pc = "submitted" /\ reply.accepted
  <2>1. PICK n \in Nat : reply = [accepted |-> TRUE, tx |-> n]
    BY <1>1 DEF ReplyType
  <2> QED BY <1>1, <2>1, AppendProperties DEF Current, MinterType
<1>2. CASE ~(pc = "submitted" /\ reply.accepted)
  BY <1>2 DEF Current, MinterType
<1> QED BY <1>1, <1>2

(* The node's own steps.                                                    *)
LEMMA MinterNodeStep ==
    ASSUME MinterInv, NodeType',
           UNCHANGED <<pc, local, prior, requests, batch, reply, behind, forgotten>>,
           PrefixOf(NodeState', NodeState), Len(committed) <= Len(committed'),
           \/ dropped' = dropped /\ NodeState' = NodeState
           \/ dropped' = TRUE
    PROVE  MinterInv'
<1>1. UNCHANGED <<pc, local, prior, requests, batch, reply, behind, forgotten>>
  OBVIOUS
<1>2. MinterType' /\ ReplyType' /\ Steps' /\ NothingKept'
  BY <1>1 DEF MinterInv, MinterType, ReplyType, Steps, NothingKept
<1>3. NodeState \in Seq(Nat) /\ NodeState' \in Seq(Nat) /\ Current \in Seq(Nat)
  BY ConcatType, CurrentType DEF MinterInv, NodeType, NodeState
<1>4. Current' = Current /\ Oldest' = Oldest
  BY <1>1 DEF Current, Oldest
<1>5. ASSUME pc # "down", ~behind, pc = "submitted", ~reply.accepted
      PROVE  PrefixOf(NodeState', reply.onchain)
  <2>1. PICK s \in Seq(Nat) : reply = [accepted |-> FALSE, onchain |-> s]
    BY <1>5 DEF MinterInv, ReplyType
  <2>2. reply.onchain \in Seq(Nat)
    BY <2>1
  <2> QED BY <1>3, <1>5, <2>2, PrefixTransitive DEF MinterInv, Behind
<1>6. Len(Oldest) \in Nat /\ Len(committed) \in Nat /\ Len(committed') \in Nat
  <2>1. Len(committed) \in Nat /\ Len(committed') \in Nat
    BY LenProperties DEF MinterInv, NodeType
  <2>2. Oldest \in Seq(Nat)
    BY ElementOfSeq, EmptySeq, LenProperties DEF Oldest, MinterInv, MinterType
  <2> QED BY <2>1, <2>2, LenProperties
<1>7. ASSUME pc # "down", ~behind
      PROVE  PrefixOf(NodeState', Current) /\ (forgotten \/ Len(Oldest) <= Len(committed'))
  BY <1>3, <1>6, <1>7, PrefixTransitive DEF MinterInv, Behind
<1>8. Behind'
  BY <1>1, <1>4, <1>5, <1>7 DEF Behind
<1>9. InStep'
  BY <1>1, <1>4 DEF MinterInv, InStep
<1> QED BY <1>2, <1>8, <1>9 DEF MinterInv

(* A step that does not change what the history is about.                   *)
LEMMA MinterKeeps ==
    ASSUME MinterInv, MinterType', NodeType',
           UNCHANGED <<local, prior, reply, behind, dropped, forgotten, committed,
                       inflight>>,
           pc' = pc \/ {pc, pc'} \cap {"down", "submitted"} = {}
    PROVE  MinterInv'
<1>1. ReplyType' /\ Steps' /\ NothingKept'
  BY DEF MinterInv, ReplyType, Steps, NothingKept
<1>2. NodeState' = NodeState /\ Current' = Current /\ Oldest' = Oldest
  BY DEF NodeState, Current, Oldest
<1>3. Behind' /\ InStep'
  BY <1>2 DEF MinterInv, Behind, InStep
<1> QED BY <1>1, <1>3 DEF MinterInv

(* The node answers.                                                        *)
LEMMA MinterSubmit ==
    ASSUME MinterInv, SubmitTransaction
    PROVE  MinterInv'
<1>1. /\ pc = "proven" /\ pc' = "submitted"
      /\ UNCHANGED <<local, prior, requests, batch, behind, dropped, forgotten,
                     committed, faults>>
  BY DEF SubmitTransaction, serverVars
<1>2. MinterType' /\ Steps' /\ NothingKept' /\ Oldest' = Oldest
  BY <1>1 DEF MinterInv, MinterType, Steps, NothingKept, Oldest
<1>3. Current = local /\ NodeState \in Seq(Nat) /\ local \in Seq(Nat)
  BY <1>1, ConcatType DEF Current, MinterInv, MinterType, NodeType, NodeState
<1>4. CASE local = NodeState
  <2> DEFINE n == txs + 1
  <2>1. /\ txs' = n /\ inflight' = Append(inflight, n)
        /\ reply' = [accepted |-> TRUE, tx |-> n] /\ n \in Nat
    BY <1>4 DEF SubmitTransaction, MinterInv, NodeType
  <2> HIDE DEF n
  <2>2. NodeType' /\ ReplyType'
    BY <1>1, <2>1, AppendProperties DEF MinterInv, NodeType, ReplyType
  <2>3. NodeState' = Append(local, n)
    <3>1. committed \in Seq(Nat) /\ inflight \in Seq(Nat) /\ <<n>> \in Seq(Nat)
      BY <2>1 DEF MinterInv, NodeType
    <3>2. committed \o (inflight \o <<n>>) = (committed \o inflight) \o <<n>>
      BY <3>1, ConcatAssociative
    <3>3. /\ Append(inflight, n) = inflight \o <<n>>
          /\ Append(NodeState, n) = NodeState \o <<n>>
      BY <3>1, <1>3, <2>1, AppendIsConcat
    <3> QED BY <1>1, <1>4, <2>1, <3>2, <3>3 DEF NodeState
  <2>4. Current' = Append(local, n)
    BY <1>1, <2>1 DEF Current
  <2>5. PrefixOf(NodeState', Current')
    <3>1. Append(local, n) \in Seq(Nat)
      BY <1>3, <2>1, AppendProperties
    <3> QED BY <2>1, <2>3, <2>4, <3>1, PrefixAppend
  <2>6. Behind'
    BY <1>1, <1>2, <2>1, <2>5 DEF Behind, MinterInv
  <2>7. InStep'
    BY <2>1, <2>3, <2>4 DEF InStep
  <2> QED BY <1>2, <2>2, <2>6, <2>7 DEF MinterInv
<1>5. CASE local # NodeState
  <2>1. /\ reply' = [accepted |-> FALSE, onchain |-> NodeState]
        /\ UNCHANGED <<txs, inflight>>
    BY <1>5 DEF SubmitTransaction
  <2>2. NodeType' /\ ReplyType'
    BY <1>1, <1>3, <2>1 DEF MinterInv, NodeType, ReplyType
  <2>3. NodeState' = NodeState /\ Current' = local
    BY <1>1, <2>1 DEF NodeState, Current
  <2>4. PrefixOf(NodeState, NodeState)
    BY <1>3, PrefixAppend
  <2>5. Behind'
    BY <1>1, <1>2, <1>3, <2>1, <2>3, <2>4 DEF Behind, MinterInv
  <2>6. InStep'
    BY <1>1, <1>3, <1>5 DEF MinterInv, InStep
  <2> QED BY <1>2, <2>2, <2>5, <2>6 DEF MinterInv
<1> QED BY <1>4, <1>5

(* The process is down.                                                     *)
LEMMA MinterStop ==
    ASSUME MinterInv, Stop, NodeType'
    PROVE  MinterInv'
<1>1. /\ pc' = "down" /\ local' = << >> /\ prior' = << >> /\ requests' = << >>
      /\ batch' = {} /\ behind' = FALSE /\ dropped' = FALSE /\ forgotten' = FALSE
  BY DEF Stop
<1>2. MinterType'
  <2>1. QueueSize \in Nat
    BY FaucetAssumption
  <2>2. local' \in Seq(Nat) /\ prior' \in Seq(Seq(Nat))
    BY <1>1
  <2>3. requests' \in Seq(Clients) /\ Len(requests') = 0
    BY <1>1
  <2>4. pc' \in {"down", "idle", "proven", "submitted"} /\ batch' \subseteq Clients
    BY <1>1
  <2>5. behind' \in BOOLEAN /\ dropped' \in BOOLEAN /\ forgotten' \in BOOLEAN
    BY <1>1
  <2>6. Len(requests') <= QueueSize
    BY <2>1, <2>3
  <2> QED BY <2>2, <2>3, <2>4, <2>5, <2>6 DEF MinterType
<1>3. ReplyType' /\ Steps' /\ NothingKept' /\ Behind' /\ InStep'
  BY <1>1 DEF ReplyType, Steps, NothingKept, Behind, InStep
<1> QED BY <1>2, <1>3 DEF MinterInv

(* The process starts again.                                                *)
LEMMA MinterLoad ==
    ASSUME MinterInv, Load
    PROVE  MinterInv'
<1>1. /\ pc = "down" /\ pc' = "idle" /\ local' = committed
      /\ behind' = (inflight # << >>) /\ dropped' = FALSE
      /\ UNCHANGED <<prior, requests, batch, reply, forgotten, committed, inflight, txs,
                     faults>>
  BY DEF Load, GetFaucetAccount, nodeVars
<1>2. prior = << >> /\ committed \in Seq(Nat)
  BY <1>1 DEF MinterInv, NothingKept, NodeType
<1>3. MinterType'
  BY <1>1, <1>2 DEF MinterInv, MinterType
<1>4. NodeType' /\ ReplyType' /\ Steps' /\ NothingKept'
  BY <1>1, <1>2 DEF MinterInv, NodeType, ReplyType, Steps, NothingKept
<1>5. Oldest' = committed /\ Current' = committed
  BY <1>1, <1>2 DEF Oldest, Current
<1>6. inflight = << >> => NodeState' = committed
  BY <1>1, <1>2, ConcatEmptySeq DEF NodeState
<1>7. PrefixOf(committed, committed) /\ Len(committed) \in Nat
  BY <1>2, PrefixAppend, LenProperties
<1>8. Behind'
  <2> SUFFICES ASSUME ~behind'
               PROVE  PrefixOf(NodeState', Current') /\ Len(Oldest') <= Len(committed')
    BY <1>1 DEF Behind
  <2>1. inflight = << >>
    BY <1>1
  <2> QED BY <1>1, <1>5, <1>6, <1>7, <2>1
<1>9. InStep'
  BY <1>1, <1>5, <1>6 DEF InStep
<1> QED BY <1>3, <1>4, <1>8, <1>9 DEF MinterInv

(* The transaction was accepted.                                            *)
LEMMA MinterMinted ==
    ASSUME MinterInv, Minted
    PROVE  MinterInv'
<1> DEFINE L == Len(local)
           P == Len(prior)
           kept == IF P > MaxPriorStates THEN Tail(prior) ELSE prior
           K == Len(kept)
<1>1. PICK n \in Nat : reply.tx = n /\ reply.accepted
  BY DEF Minted, MinterInv, ReplyType
<1>2. /\ pc = "submitted" /\ pc' = "idle"
      /\ local' = Append(local, n) /\ prior' = Append(kept, local)
      /\ forgotten' = (forgotten \/ P > MaxPriorStates)
      /\ batch' = {}
      /\ UNCHANGED <<requests, behind, dropped, committed, inflight, txs, faults>>
  BY <1>1 DEF Minted, UpdateState, nodeVars
<1>3. local \in Seq(Nat) /\ prior \in Seq(Seq(Nat)) /\ L \in Nat /\ P \in Nat
  BY LenProperties DEF MinterInv, MinterType
<1>4. MaxPriorStates \in Nat
  BY FaucetAssumption
<1>5. /\ kept \in Seq(Seq(Nat)) /\ K \in Nat /\ K <= P
      /\ \A i \in 1 .. K : i + (P - K) \in 1 .. P /\ kept[i] = prior[i + (P - K)]
      /\ P > MaxPriorStates \/ kept = prior
  <2>1. CASE P > MaxPriorStates
    <3>1. prior # << >> /\ kept = Tail(prior)
      BY <1>3, <1>4, <2>1
    <3>2. /\ Tail(prior) \in Seq(Seq(Nat)) /\ Len(Tail(prior)) = P - 1
          /\ \A i \in 1 .. P - 1 : Tail(prior)[i] = prior[i + 1]
      BY <1>3, <3>1, HeadTailProperties
    <3>3. P - 1 \in Nat /\ P - (P - 1) = 1
      BY <1>3, <1>4, <2>1
    <3> HIDE DEF P, kept
    <3> QED BY <1>3, <2>1, <3>1, <3>2, <3>3
  <2>2. CASE ~(P > MaxPriorStates)
    BY <1>3, <2>2
  <2> QED BY <2>1, <2>2
<1> HIDE DEF kept, P, L, K
<1>6. /\ local' \in Seq(Nat) /\ Len(local') = L + 1 /\ PrefixOf(local, local')
  BY <1>2, <1>3, AppendProperties, PrefixAppend DEF L
<1>7. /\ prior' \in Seq(Seq(Nat)) /\ Len(prior') = K + 1
      /\ \A i \in 1 .. K : prior'[i] = kept[i]
      /\ prior'[K + 1] = local
  BY <1>2, <1>3, <1>5, AppendProperties DEF K
<1>8. ASSUME NEW i \in 1 .. Len(prior')
      PROVE  /\ Len(prior'[i]) + (Len(prior') + 1 - i) = Len(local')
             /\ PrefixOf(prior'[i], local')
  <2>1. CASE i = K + 1
    BY <2>1, <1>3, <1>5, <1>6, <1>7 DEF L
  <2>2. CASE i \in 1 .. K
    <3> DEFINE j == i + (P - K)
    <3>1. j \in 1 .. P /\ prior'[i] = prior[j]
      BY <2>2, <1>5, <1>7
    <3>2. /\ Len(prior[j]) + (P + 1 - j) = L
          /\ PrefixOf(prior[j], local) /\ prior[j] \in Seq(Nat)
      BY <3>1, <1>3, ElementOfSeq DEF MinterInv, Steps, P, L
    <3>3. PrefixOf(prior[j], local')
      BY <3>2, <1>3, <1>6, PrefixTransitive
    <3>4. Len(prior[j]) \in Nat
      BY <3>2, LenProperties
    <3>5. Len(prior[j]) + (K + 1 + 1 - i) = L + 1
      <4>1. P + 1 - j = K + 1 - i /\ i \in Nat
        BY <1>3, <1>5, <2>2
      <4> HIDE DEF j
      <4>2. Len(prior[j]) + (K + 1 - i) = L
        BY <3>2, <4>1
      <4>3. \A x \in Nat : x + (K + 1 - i) = L => x + (K + 1 + 1 - i) = L + 1
        BY <4>1, <1>3, <1>5
      <4> QED BY <4>2, <4>3, <3>4
    <3> QED BY <3>1, <3>3, <3>5, <1>6, <1>7
  <2> QED BY <2>1, <2>2, <1>5, <1>7
<1>9. Steps'
  BY <1>8 DEF Steps
<1>10. MinterType' /\ NodeType' /\ ReplyType' /\ NothingKept'
  BY <1>2, <1>6, <1>7 DEF MinterInv, MinterType, NodeType, ReplyType, NothingKept
<1>11. NodeState' = NodeState /\ Current' = Current
  BY <1>1, <1>2 DEF NodeState, Current
<1>12. forgotten' \/ (~forgotten /\ Oldest' = Oldest)
  <2> SUFFICES ASSUME ~forgotten' PROVE Oldest' = Oldest /\ ~forgotten
    OBVIOUS
  <2>1. kept = prior /\ ~forgotten /\ K = P
    BY <1>2, <1>5 DEF K, P
  <2>2. CASE prior = << >>
    <3>1. prior'[1] = local /\ prior' # << >>
      BY <2>1, <2>2, <1>7 DEF P
    <3> QED BY <2>1, <2>2, <3>1 DEF Oldest
  <2>3. CASE prior # << >>
    <3>1. 1 \in 1 .. P
      BY <2>3, <1>3, EmptySeq DEF P
    <3>2. prior'[1] = prior[1] /\ prior' # << >>
      BY <2>1, <3>1, <1>7, <1>5
    <3> QED BY <2>1, <2>3, <3>2 DEF Oldest
  <2> QED BY <2>2, <2>3
<1>13. Behind'
  <2> SUFFICES ASSUME ~behind'
               PROVE  /\ PrefixOf(NodeState', Current')
                      /\ forgotten' \/ Len(Oldest') <= Len(committed')
    BY <1>2 DEF Behind
  <2>1. pc # "down" /\ ~behind
    BY <1>2
  <2> QED BY <1>2, <1>11, <1>12, <2>1 DEF MinterInv, Behind
<1>14. InStep'
  BY <1>2, <1>11 DEF MinterInv, InStep
<1> QED BY <1>9, <1>10, <1>13, <1>14 DEF MinterInv

(* A rollback, whether or not error_recovery's guard ever lets it happen.   *)
LEMMA MinterDesync ==
    ASSUME MinterInv, pc = "submitted", ~reply.accepted, Rollback,
           UNCHANGED <<nodeVars, faults>>
    PROVE  MinterInv'
<1> DEFINE P == Len(prior)
<1>1. PICK s \in Seq(Nat) : reply.onchain = s /\ ~reply.accepted
  BY DEF MinterInv, ReplyType
<1>2. local \in Seq(Nat) /\ prior \in Seq(Seq(Nat)) /\ P \in Nat /\ DOMAIN prior = 1 .. P
  BY LenProperties DEF MinterInv, MinterType
<1>3. PICK k \in 1 .. P :
        prior[k] = s /\ local' = prior[k] /\ prior' = SubSeq(prior, 1, k - 1)
  BY <1>1, <1>2 DEF Rollback, RollbackPositions
<1>4. /\ pc = "submitted" /\ pc' = "idle" /\ batch' = {}
      /\ local' = s /\ prior' = SubSeq(prior, 1, k - 1)
      /\ UNCHANGED <<requests, behind, dropped, forgotten, committed, inflight, txs,
                     faults>>
  BY <1>3 DEF Rollback, nodeVars
<1> HIDE DEF P
<1>5. /\ prior' \in Seq(Seq(Nat)) /\ Len(prior') = k - 1
      /\ \A i \in 1 .. k - 1 : prior'[i] = prior[i]
  BY <1>2, <1>4, SubSeqProperties DEF P
<1>6. \A i \in 1 .. P :
        /\ prior[i] \in Seq(Nat) /\ Len(prior[i]) \in Nat
        /\ Len(prior[i]) + (P + 1 - i) = Len(local)
        /\ PrefixOf(prior[i], local)
  BY <1>2, ElementOfSeq, LenProperties DEF MinterInv, Steps, P
<1>7. ASSUME NEW i \in 1 .. Len(prior')
      PROVE  /\ Len(prior'[i]) + (Len(prior') + 1 - i) = Len(local')
             /\ PrefixOf(prior'[i], local')
  <2>1. i \in 1 .. P /\ k \in Nat /\ i < k /\ prior'[i] = prior[i]
    BY <1>2, <1>5
  <2>2. /\ Len(prior[i]) + (P + 1 - i) = Len(prior[k]) + (P + 1 - k)
        /\ Len(prior[i]) \in Nat /\ Len(prior[k]) \in Nat
    BY <1>6, <2>1
  <2>3. \A x, y \in Nat : x + (P + 1 - i) = y + (P + 1 - k) => x + (k - i) = y /\ x <= y
    BY <1>2, <2>1
  <2>4. Len(prior[i]) + (k - i) = Len(prior[k]) /\ Len(prior[i]) <= Len(prior[k])
    BY <2>2, <2>3
  <2>5. PrefixOf(prior[i], prior[k])
    BY <1>2, <1>6, <2>1, <2>4, PrefixLinear
  <2>6. Len(prior') + 1 - i = k - i
    BY <1>5, <2>1
  <2> QED BY <1>3, <1>4, <2>1, <2>4, <2>5, <2>6
<1>8. Steps'
  BY <1>7 DEF Steps
<1>9. MinterType' /\ NodeType' /\ ReplyType' /\ NothingKept'
  BY <1>4, <1>5 DEF MinterInv, MinterType, NodeType, ReplyType, NothingKept
<1>10. NodeState' = NodeState /\ Current' = s
  BY <1>4 DEF NodeState, Current
<1>11. Oldest' = Oldest
  <2>1. prior # << >> /\ Oldest = prior[1]
    BY <1>2, <1>3, EmptySeq DEF Oldest, P
  <2>2. CASE k = 1
    <3>1. prior' = << >>
      BY <2>2, <1>5, EmptySeq
    <3> QED BY <2>1, <2>2, <3>1, <1>3, <1>4 DEF Oldest
  <2>3. CASE k # 1
    <3>1. 1 \in 1 .. k - 1
      BY <2>3, <1>2
    <3>2. prior'[1] = prior[1] /\ prior' # << >>
      BY <3>1, <1>5
    <3> QED BY <2>1, <3>2 DEF Oldest
  <2> QED BY <2>2, <2>3
<1>12. Behind'
  <2> SUFFICES ASSUME ~behind'
               PROVE  /\ PrefixOf(NodeState', Current')
                      /\ forgotten' \/ Len(Oldest') <= Len(committed')
    BY <1>4 DEF Behind
  <2>1. pc # "down" /\ ~behind
    BY <1>4
  <2> QED BY <1>1, <1>4, <1>10, <1>11, <2>1 DEF MinterInv, Behind
<1>13. InStep'
  BY <1>1, <1>4 DEF MinterInv, InStep
<1> QED BY <1>8, <1>9, <1>12, <1>13 DEF MinterInv

(* The invariant gives what the runs check of the minter.                   *)
LEMMA HistoryFromInv ==
    ASSUME MinterInv
    PROVE  InStep /\ StateKept /\ PriorStatesAreSteps
<1> DEFINE L == Len(local)
           P == Len(prior)
           N == Len(NodeState)
<1>1. /\ local \in Seq(Nat) /\ prior \in Seq(Seq(Nat)) /\ NodeState \in Seq(Nat)
      /\ L \in Nat /\ P \in Nat /\ N \in Nat /\ DOMAIN prior = 1 .. P
  BY ConcatType, LenProperties DEF MinterInv, MinterType, NodeType, NodeState
<1>2. \A i \in 1 .. P :
        /\ prior[i] \in Seq(Nat) /\ Len(prior[i]) \in Nat
        /\ Len(prior[i]) + (P + 1 - i) = L
        /\ PrefixOf(prior[i], local)
  BY <1>1, ElementOfSeq, LenProperties DEF MinterInv, Steps
<1>3. Len(committed) \in Nat /\ Len(committed) <= N
  BY ConcatType DEF MinterInv, NodeType, NodeState
<1>4. Head(Append(prior, local)) = Oldest
  <2>1. CASE prior = << >>
    <3>1. Append(prior, local) = <<local>>
      BY <2>1
    <3> QED BY <2>1, <3>1 DEF Oldest
  <2>2. CASE prior # << >>
    <3>1. Head(Append(prior, local)) = Head(prior) /\ Head(prior) = prior[1]
      <4>1. Append(prior, local) \in Seq(Seq(Nat)) /\ Append(prior, local) # << >>
            /\ Append(prior, local)[1] = prior[1]
        <5>1. P > 0
          BY <1>1, <2>2, EmptySeq
        <5>2. /\ Append(prior, local) \in Seq(Seq(Nat))
              /\ Append(prior, local) # << >>
              /\ \A i \in 1 .. Len(prior) : Append(prior, local)[i] = prior[i]
          <6> HIDE DEF P
          <6>1. prior \in Seq(Seq(Nat)) /\ local \in Seq(Nat)
            BY <1>1
          <6> QED BY <6>1, AppendProperties
        <5>3. 1 \in 1 .. Len(prior)
          BY <5>1, <1>1
        <5> QED BY <5>2, <5>3
      <4> QED BY <1>1, <2>2, <4>1, HeadTailProperties
    <3> QED BY <2>2, <3>1 DEF Oldest
  <2> QED BY <2>1, <2>2
<1> HIDE DEF L, P, N
<1>5. StateKept
  <2> SUFFICES ASSUME pc # "down", ~(pc = "submitted" /\ reply.accepted), ~behind,
                      ~(forgotten /\ N < Len(Oldest))
               PROVE  NodeState \in ToSet(prior) \cup {local}
    BY <1>4 DEF StateKept, N
  <2>1. PrefixOf(NodeState, local) /\ (forgotten \/ Len(Oldest) <= Len(committed))
    BY DEF MinterInv, Behind, Current
  <2>2. N <= L
    BY <2>1 DEF PrefixOf, N, L
  <2>3. CASE N = L
    <3>1. PrefixOf(local, local)
      BY <1>1, PrefixAppend
    <3> QED BY <2>1, <2>3, <3>1, <1>1, PrefixEqual DEF N, L
  <2>4. CASE N < L /\ L - N <= P
    <3> DEFINE i == P + 1 - (L - N)
    <3>1. i \in 1 .. P /\ P + 1 - i = L - N
      BY <2>4, <1>1
    <3> HIDE DEF i
    <3>2. prior[i] \in Seq(Nat) /\ Len(prior[i]) = N /\ PrefixOf(prior[i], local)
      <4>1. Len(prior[i]) \in Nat /\ Len(prior[i]) + (L - N) = L
        BY <1>2, <3>1
      <4>2. \A x \in Nat : x + (L - N) = L => x = N
        BY <1>1
      <4> QED BY <4>1, <4>2, <1>2, <3>1
    <3>3. NodeState = prior[i]
      BY <1>1, <2>1, <3>2, PrefixEqual DEF N
    <3> QED BY <3>1, <3>3, <1>1 DEF ToSet
  <2>5. CASE N < L /\ L - N > P
    <3>1. Len(Oldest) \in Nat /\ Len(Oldest) = L - P
      <4>1. CASE prior = << >>
        BY <4>1, <1>1, EmptySeq DEF Oldest, L, P
      <4>2. CASE prior # << >>
        <5>1. 1 \in 1 .. P /\ Oldest = prior[1]
          BY <4>2, <1>1, EmptySeq DEF Oldest, P
        <5>2. Len(prior[1]) \in Nat /\ Len(prior[1]) + (P + 1 - 1) = L
          BY <1>2, <5>1
        <5>3. \A x \in Nat : x + (P + 1 - 1) = L => x = L - P
          BY <1>1
        <5> QED BY <5>1, <5>2, <5>3
      <4> QED BY <4>1, <4>2
    <3>2. N < Len(Oldest)
      BY <3>1, <2>5, <1>1
    <3> QED BY <3>1, <3>2, <2>1, <1>1, <1>3
  <2> QED BY <2>2, <2>3, <2>4, <2>5, <1>1
<1>6. PriorStatesAreSteps
  <2> DEFINE st == Append(prior, local)
  <2>1. /\ Len(st) = P + 1
        /\ \A i \in 1 .. P : st[i] = prior[i]
        /\ st[P + 1] = local
    BY <1>1, AppendProperties DEF P
  <2> HIDE DEF st
  <2>2. ASSUME NEW i \in 1 .. P
        PROVE  st[i + 1] # << >> /\ Front(st[i + 1]) = st[i]
    <3> DEFINE t == st[i + 1]
               u == prior[i]
    <3>1. /\ t \in Seq(Nat) /\ Len(t) \in Nat /\ PrefixOf(t, local)
          /\ Len(t) + (P - i) = L
      <4>1. CASE i = P
        BY <4>1, <2>1, <1>1, PrefixAppend DEF L
      <4>2. CASE i # P
        <5>1. i + 1 \in 1 .. P /\ P + 1 - (i + 1) = P - i
          BY <4>2, <1>1
        <5> QED BY <5>1, <2>1, <1>2
      <4> QED BY <4>1, <4>2
    <3>2. /\ u \in Seq(Nat) /\ Len(u) \in Nat /\ PrefixOf(u, local)
          /\ Len(u) + (P + 1 - i) = L /\ st[i] = u
      BY <1>2, <2>1
    <3> HIDE DEF t, u
    <3>3. Len(t) = Len(u) + 1
      BY <3>1, <3>2, <1>1
    <3>4. /\ SubSeq(t, 1, Len(t) - 1) \in Seq(Nat)
          /\ Len(SubSeq(t, 1, Len(t) - 1)) = Len(u)
          /\ PrefixOf(SubSeq(t, 1, Len(t) - 1), t)
      <4>1. /\ SubSeq(t, 1, Len(u)) \in Seq(Nat)
            /\ Len(SubSeq(t, 1, Len(u))) = Len(u)
            /\ \A j \in 1 .. Len(u) : SubSeq(t, 1, Len(u))[j] = t[j]
        BY <3>1, <3>2, <3>3, SubSeqProperties
      <4>2. Len(t) - 1 = Len(u)
        BY <3>2, <3>3
      <4> QED BY <3>1, <3>2, <3>3, <4>1, <4>2 DEF PrefixOf
    <3>5. SubSeq(t, 1, Len(t) - 1) = u
      <4>1. PrefixOf(SubSeq(t, 1, Len(t) - 1), local)
        BY <3>1, <3>4, <1>1, PrefixTransitive
      <4> QED BY <4>1, <3>2, <3>4, PrefixEqual
    <3>6. Front(t) = u /\ t # << >>
      BY <3>1, <3>2, <3>3, <3>5 DEF Front
    <3> QED BY <3>2, <3>6 DEF t
  <2>3. \A i \in 1 .. (Len(st) - 1) : i \in 1 .. P
    BY <2>1, <1>1
  <2> QED BY <2>2, <2>3 DEF PriorStatesAreSteps, st
<1> QED BY <1>5, <1>6 DEF MinterInv

-----------------------------------------------------------------------------
(* The cache of challenges. *)

Accounts == {AccountOf[c] : c \in Clients}
Keys == {KeyOf[c] : c \in Clients}
Challenge == [account : Accounts, key : Keys, age : Nat]

(* What a challenge is counted by.                                          *)
KeyOfChallenge == [ch \in Challenge |-> ch.key]
AccountOfChallenge == [ch \in Challenge |-> ch.account]

(* The challenges of S that p takes to v.                                   *)
Of(S, p, v) == {o \in S : p[o] = v}

(* A counter of a set of challenges by p.                                   *)
Counted(S, p, counter) ==
    /\ DOMAIN counter = {p[ch] : ch \in S}
    /\ \A v \in DOMAIN counter : counter[v] = Cardinality(Of(S, p, v))

(* No account has two challenges that count.                                *)
OnePerAccount(S) == \A x, y \in S : x.account = y.account => x = y

(* A cache that is as it should be.                                         *)
Sound(c) ==
    /\ c = [challenges |-> c.challenges, challenges_per_key |-> c.challenges_per_key,
            account_ids |-> c.account_ids]
    /\ IsFiniteSet(c.challenges) /\ c.challenges \subseteq Challenge
    /\ OnePerAccount(c.challenges)
    /\ Counted(c.challenges, KeyOfChallenge, c.challenges_per_key)
    /\ Counted(c.challenges, AccountOfChallenge, c.account_ids)

(* A cache that was just created is sound.                                  *)
LEMMA EmptySound == Sound(EmptyCache)
<1>1. \A f : f = << >> => DOMAIN f = {}
  OBVIOUS
<1>2. IsFiniteSet({})
  BY FS_EmptySet
<1> QED BY <1>1, <1>2 DEF Sound, EmptyCache, OnePerAccount, Counted

(* An insertion counts one more challenge.                                  *)
LEMMA InsertCounts ==
    ASSUME NEW S, IsFiniteSet(S), NEW p, NEW ch, ch \notin S, NEW f, Counted(S, p, f)
    PROVE  Counted(S \cup {ch}, p, Increment(f, p[ch]))
<1> DEFINE T == S \cup {ch}
           g == Increment(f, p[ch])
<1>1. /\ DOMAIN g = DOMAIN f \cup {p[ch]}
      /\ \A v \in DOMAIN g : g[v] = IF v = p[ch] THEN Count(f, v) + 1 ELSE f[v]
  BY DEF Increment
<1>2. DOMAIN g = {p[o] : o \in T}
  BY <1>1 DEF Counted
<1>3. ASSUME NEW v \in DOMAIN g PROVE g[v] = Cardinality(Of(T, p, v))
  <2>1. IsFiniteSet(Of(S, p, v))
    BY FS_Subset DEF Of
  <2>2. CASE v = p[ch]
    <3>1. Of(T, p, v) = Of(S, p, v) \cup {ch} /\ ch \notin Of(S, p, v)
      BY <2>2 DEF Of
    <3>2. Cardinality(Of(T, p, v)) = Cardinality(Of(S, p, v)) + 1
      BY <2>1, <3>1, FS_AddElement
    <3>3. Count(f, v) = Cardinality(Of(S, p, v))
      <4>1. CASE v \in DOMAIN f
        BY <4>1 DEF Count, Counted
      <4>2. CASE v \notin DOMAIN f
        <5>1. Of(S, p, v) = {}
          BY <4>2 DEF Of, Counted
        <5> QED BY <4>2, <5>1, FS_EmptySet DEF Count
      <4> QED BY <4>1, <4>2
    <3> QED BY <1>1, <2>2, <3>2, <3>3
  <2>3. CASE v # p[ch]
    <3>1. Of(T, p, v) = Of(S, p, v) /\ v \in DOMAIN f
      BY <2>3, <1>1 DEF Of
    <3> QED BY <1>1, <2>3, <3>1 DEF Counted
  <2> QED BY <2>2, <2>3
<1> QED BY <1>2, <1>3 DEF Counted

(* A clean-up takes away as many as it removes.                             *)
LEMMA CleanupCounts ==
    ASSUME NEW S, IsFiniteSet(S), NEW E \in SUBSET S, NEW p, NEW f, Counted(S, p, f),
           NEW n, n = [v \in DOMAIN f |-> Cardinality(Of(E, p, v))]
    PROVE  Counted(S \ E, p, Decrement(f, n))
<1> DEFINE T == S \ E
           g == Decrement(f, n)
<1>1. ASSUME NEW v \in DOMAIN f
      PROVE  /\ f[v] - n[v] = Cardinality(Of(T, p, v))
             /\ f[v] > n[v] <=> Of(T, p, v) # {}
  <2>1. IsFiniteSet(Of(S, p, v)) /\ IsFiniteSet(Of(E, p, v)) /\ IsFiniteSet(Of(T, p, v))
    BY FS_Subset DEF Of
  <2>2. /\ Of(T, p, v) = Of(S, p, v) \ Of(E, p, v)
        /\ Of(S, p, v) \cap Of(E, p, v) = Of(E, p, v)
    BY DEF Of
  <2>3. Cardinality(Of(T, p, v)) =
          Cardinality(Of(S, p, v)) - Cardinality(Of(S, p, v) \cap Of(E, p, v))
    BY <2>1, <2>2, FS_Difference
  <2>4. /\ Cardinality(Of(S, p, v)) \in Nat /\ Cardinality(Of(E, p, v)) \in Nat
        /\ Cardinality(Of(T, p, v)) \in Nat
        /\ Cardinality(Of(T, p, v)) = 0 <=> Of(T, p, v) = {}
    BY <2>1, FS_CardinalityType, FS_EmptySet
  <2>5. f[v] = Cardinality(Of(S, p, v)) /\ n[v] = Cardinality(Of(E, p, v))
    BY DEF Counted
  <2>6. f[v] - n[v] = Cardinality(Of(T, p, v))
    BY <2>2, <2>3, <2>5
  <2>7. f[v] > n[v] <=> Cardinality(Of(T, p, v)) # 0
    BY <2>4, <2>5, <2>6
  <2> QED BY <2>4, <2>6, <2>7
<1>2. /\ DOMAIN g = {v \in DOMAIN f : f[v] > n[v]}
      /\ \A v \in DOMAIN g : g[v] = f[v] - n[v]
  BY DEF Decrement
<1>3. DOMAIN g = {p[o] : o \in T}
  <2>1. ASSUME NEW v \in DOMAIN g PROVE v \in {p[o] : o \in T}
    BY <1>1, <1>2 DEF Of
  <2>2. ASSUME NEW o \in T PROVE p[o] \in DOMAIN g
    <3>1. p[o] \in DOMAIN f /\ o \in Of(T, p, p[o])
      BY DEF Counted, Of
    <3> QED BY <3>1, <1>1, <1>2
  <2> QED BY <2>1, <2>2
<1>4. \A v \in DOMAIN g : g[v] = Cardinality(Of(T, p, v))
  BY <1>1, <1>2
<1> QED BY <1>3, <1>4 DEF Counted

(* A change that keeps the challenges apart and what they count for.        *)
LEMMA AgedCounts ==
    ASSUME NEW S, IsFiniteSet(S), NEW T, NEW p, NEW f, Counted(S, p, f),
           NEW h \in [S -> T],
           \A y \in T : \E x \in S : h[x] = y,
           \A x, y \in S : h[x] = h[y] => x = y,
           \A x \in S : p[h[x]] = p[x]
    PROVE  Counted(T, p, f) /\ IsFiniteSet(T)
<1>1. IsFiniteSet(T)
  BY FS_Surjection DEF Surjection
<1>2. DOMAIN f = {p[o] : o \in T}
  BY DEF Counted
<1>3. ASSUME NEW v \in DOMAIN f PROVE f[v] = Cardinality(Of(T, p, v))
  <2> DEFINE A == Of(S, p, v)
             B == Of(T, p, v)
             k == [x \in A |-> h[x]]
  <2>1. IsFiniteSet(A)
    BY FS_Subset DEF Of
  <2>2. k \in [A -> B]
    BY DEF Of
  <2>3. ExistsBijection(A, B)
    <3>1. \A x, y \in A : k[x] = k[y] => x = y
      BY DEF Of
    <3>2. \A y \in B : \E x \in A : k[x] = y
      <4> TAKE y \in B
      <4>1. PICK x \in S : h[x] = y
        BY DEF Of
      <4>2. x \in A
        BY <4>1 DEF Of
      <4> QED BY <4>1, <4>2
    <3> HIDE DEF A, B, k
    <3>3. k \in Injection(A, B) /\ k \in Surjection(A, B)
      BY <2>2, <3>1, <3>2 DEF Injection, Surjection, IsInjective
    <3> QED BY <3>3 DEF ExistsBijection, Bijection
  <2>4. Cardinality(B) = Cardinality(A)
    BY <2>1, <2>3, FS_Bijection
  <2> QED BY <2>4 DEF Counted
<1> QED BY <1>1, <1>2, <1>3 DEF Counted

(* submit_challenge adds a challenge for an account that has none.          *)
LEMMA InsertSound ==
    ASSUME NEW c, Sound(c), NEW ch \in Challenge,
           ~HasChallengeForAccount(c, ch.account)
    PROVE  /\ Sound(InsertChallenge(c, ch))
           /\ InsertChallenge(c, ch).challenges = c.challenges \cup {ch}
<1> DEFINE S == c.challenges
<1>1. \A x \in S : x \in Challenge /\ AccountOfChallenge[x] = x.account
  BY DEF Sound, AccountOfChallenge
<1>2. \A x \in S : x.account # ch.account
  BY <1>1 DEF Sound, Counted, HasChallengeForAccount
<1>3. ch \notin S
  BY <1>2
<1>4. InsertChallenge(c, ch) =
        [challenges |-> S \cup {ch},
         challenges_per_key |-> Increment(c.challenges_per_key, ch.key),
         account_ids |-> Increment(c.account_ids, ch.account)]
  BY <1>3 DEF InsertChallenge, IsNewChallenge
<1>5. KeyOfChallenge[ch] = ch.key /\ AccountOfChallenge[ch] = ch.account
  BY DEF KeyOfChallenge, AccountOfChallenge
<1>6. Counted(S \cup {ch}, KeyOfChallenge, Increment(c.challenges_per_key, ch.key))
  BY <1>3, <1>5, InsertCounts DEF Sound
<1>7. Counted(S \cup {ch}, AccountOfChallenge, Increment(c.account_ids, ch.account))
  BY <1>3, <1>5, InsertCounts DEF Sound
<1>8. IsFiniteSet(S \cup {ch})
  BY FS_AddElement DEF Sound
<1>9. OnePerAccount(S \cup {ch})
  BY <1>2 DEF Sound, OnePerAccount
<1>10. S \cup {ch} \subseteq Challenge
  BY DEF Sound
<1> QED BY <1>4, <1>6, <1>7, <1>8, <1>9, <1>10 DEF Sound

(* The clean-up.                                                            *)
LEMMA CleanupSound ==
    ASSUME NEW c, Sound(c)
    PROVE  /\ Sound(CleanupExpiredChallenges(c))
           /\ CleanupExpiredChallenges(c).challenges = c.challenges \ Expired(c)
<1> DEFINE S == c.challenges
           E == Expired(c)
           n == [k \in DOMAIN c.challenges_per_key |-> ExpiredOfKey(c, k)]
           m == [a \in DOMAIN c.account_ids |-> ExpiredOfAccount(c, a)]
<1>1. CleanupExpiredChallenges(c) =
        [challenges |-> S \ E,
         challenges_per_key |-> Decrement(c.challenges_per_key, n),
         account_ids |-> Decrement(c.account_ids, m)]
  BY DEF CleanupExpiredChallenges
<1>2. E \subseteq S
  BY DEF Expired
<1>3. \A x \in E : KeyOfChallenge[x] = x.key /\ AccountOfChallenge[x] = x.account
  BY <1>2 DEF Sound, KeyOfChallenge, AccountOfChallenge
<1>4. /\ \A k : ExpiredOfKey(c, k) = Cardinality(Of(E, KeyOfChallenge, k))
      /\ \A a : ExpiredOfAccount(c, a) = Cardinality(Of(E, AccountOfChallenge, a))
  <2>1. \A k : {ch \in E : ch.key = k} = Of(E, KeyOfChallenge, k)
    BY <1>3 DEF Of
  <2>2. \A a : {ch \in E : ch.account = a} = Of(E, AccountOfChallenge, a)
    BY <1>3 DEF Of
  <2> QED BY <2>1, <2>2 DEF ExpiredOfKey, ExpiredOfAccount
<1>5. /\ n = [k \in DOMAIN c.challenges_per_key |-> Cardinality(Of(E, KeyOfChallenge, k))]
      /\ m = [a \in DOMAIN c.account_ids |-> Cardinality(Of(E, AccountOfChallenge, a))]
  BY <1>4
<1> HIDE DEF n, m, E
<1>6. Counted(S \ E, KeyOfChallenge, Decrement(c.challenges_per_key, n))
  BY <1>2, <1>5, CleanupCounts DEF Sound
<1>7. Counted(S \ E, AccountOfChallenge, Decrement(c.account_ids, m))
  BY <1>2, <1>5, CleanupCounts DEF Sound
<1>8. IsFiniteSet(S \ E) /\ S \ E \subseteq Challenge /\ OnePerAccount(S \ E)
  BY FS_Subset DEF Sound, OnePerAccount
<1> QED BY <1>1, <1>6, <1>7, <1>8 DEF Sound, E

(* The challenges age, and stay apart since no account has two.             *)
LEMMA AgedSound ==
    ASSUME NEW c, Sound(c)
    PROVE  /\ Sound(Aged(c))
           /\ Aged(c).challenges = {[ch EXCEPT !.age = Older(@)] : ch \in c.challenges}
<1> DEFINE S == c.challenges
           T == {[ch EXCEPT !.age = Older(@)] : ch \in S}
           h == [ch \in S |-> [ch EXCEPT !.age = Older(@)]]
<1>1. ASSUME NEW ch \in S
      PROVE  /\ h[ch] \in Challenge
             /\ h[ch].account = ch.account /\ h[ch].key = ch.key
  <2>1. ch \in Challenge
    BY DEF Sound
  <2>2. Older(ch.age) \in Nat
    BY <2>1 DEF Challenge, Older
  <2> QED BY <2>1, <2>2 DEF Challenge
<1>2. h \in [S -> T] /\ \A y \in T : \E x \in S : h[x] = y
  OBVIOUS
<1>3. /\ Aged(c).challenges = T
      /\ Aged(c) = [challenges |-> T, challenges_per_key |-> c.challenges_per_key,
                    account_ids |-> c.account_ids]
  <2>1. Aged(c) = [c EXCEPT !.challenges = T]
    BY DEF Aged
  <2>2. c = [challenges |-> c.challenges, challenges_per_key |-> c.challenges_per_key,
             account_ids |-> c.account_ids]
    BY DEF Sound
  <2> HIDE DEF T
  <2> QED BY <2>1, <2>2
<1> HIDE DEF h, T
<1>4. T \subseteq Challenge
  BY <1>1, <1>2
<1>5. \A x, y \in S : h[x] = h[y] => x = y
  BY <1>1 DEF Sound, OnePerAccount
<1>6. OnePerAccount(T)
  BY <1>1, <1>2 DEF Sound, OnePerAccount
<1>7. \A x \in S : /\ KeyOfChallenge[h[x]] = KeyOfChallenge[x]
                   /\ AccountOfChallenge[h[x]] = AccountOfChallenge[x]
  BY <1>1 DEF Sound, KeyOfChallenge, AccountOfChallenge
<1>8. IsFiniteSet(S)
  BY DEF Sound
<1>9. Counted(T, KeyOfChallenge, c.challenges_per_key) /\ IsFiniteSet(T)
  BY <1>2, <1>5, <1>7, <1>8, AgedCounts DEF Sound
<1>10. Counted(T, AccountOfChallenge, c.account_ids)
  BY <1>2, <1>5, <1>7, <1>8, AgedCounts DEF Sound
<1> QED BY <1>3, <1>4, <1>6, <1>9, <1>10 DEF Sound, T

(* A sound cache is what the runs check.                                    *)
LEMMA SoundExact ==
    ASSUME NEW c, Sound(c)
    PROVE  /\ CacheConsistent(c)
           /\ \A x, y \in c.challenges : x.account = y.account => x = y
<1> DEFINE S == c.challenges
<1>1. \A x \in S : KeyOfChallenge[x] = x.key /\ AccountOfChallenge[x] = x.account
  BY DEF Sound, KeyOfChallenge, AccountOfChallenge
<1>2. /\ \A k : {o \in S : o.key = k} = Of(S, KeyOfChallenge, k)
      /\ \A a : {o \in S : o.account = a} = Of(S, AccountOfChallenge, a)
  BY <1>1 DEF Of
<1>3. /\ DOMAIN c.challenges_per_key = {ch.key : ch \in S}
      /\ DOMAIN c.account_ids = {ch.account : ch \in S}
  BY <1>1 DEF Sound, Counted
<1>4. ASSUME NEW ch \in S
      PROVE  /\ Count(c.challenges_per_key, ch.key) = Cardinality({o \in S : o.key = ch.key})
             /\ Count(c.account_ids, ch.account) =
                   Cardinality({o \in S : o.account = ch.account})
  BY <1>2, <1>3 DEF Sound, Counted, Count
<1>5. ~CleanupPanics(c)
  <2> SUFFICES ASSUME NEW ch \in Expired(c)
               PROVE  /\ ~(ExpiredOfKey(c, ch.key) > Count(c.challenges_per_key, ch.key))
                      /\ ~(ExpiredOfAccount(c, ch.account) > Count(c.account_ids, ch.account))
    BY DEF CleanupPanics
  <2> DEFINE k == ch.key
             a == ch.account
             K == {o \in S : o.key = k}
             A == {o \in S : o.account = a}
             J == {o \in Expired(c) : o.key = k}
             B == {o \in Expired(c) : o.account = a}
  <2>1. J \subseteq K /\ B \subseteq A /\ ch \in S
    BY DEF Expired
  <2>2. IsFiniteSet(K) /\ IsFiniteSet(A)
    BY FS_Subset DEF Sound
  <2>3. /\ Cardinality(J) <= Cardinality(K) /\ Cardinality(B) <= Cardinality(A)
        /\ Cardinality(J) \in Nat /\ Cardinality(K) \in Nat
        /\ Cardinality(B) \in Nat /\ Cardinality(A) \in Nat
    BY <2>1, <2>2, FS_Subset, FS_CardinalityType
  <2>4. /\ Count(c.challenges_per_key, k) = Cardinality(K)
        /\ Count(c.account_ids, a) = Cardinality(A)
    BY <2>1, <1>4
  <2>5. ExpiredOfKey(c, k) = Cardinality(J) /\ ExpiredOfAccount(c, a) = Cardinality(B)
    BY DEF ExpiredOfKey, ExpiredOfAccount
  <2> HIDE DEF K, A, J, B
  <2> QED BY <2>3, <2>4, <2>5
<1>6. \A x, y \in S : x.account = y.account => x = y
  BY DEF Sound, OnePerAccount
<1> QED BY <1>3, <1>4, <1>5, <1>6 DEF CacheConsistent

-----------------------------------------------------------------------------
(* The web server. *)

(* While a challenge is valid, one that was used is in the cache.           *)
UsedIsCached ==
    \A h \in Holders :
        /\ used[h] # "twice"
        /\ used[h] # "no" /\ ~IsExpired(challenge[h]) =>
              \E ch \in cache.challenges :
                 ch.account = h[1] /\ ch.key = h[2] /\ ch.age = challenge[h]

(* The inductive invariant of the server.                                   *)
ServerInv == ServerType /\ Sound(cache) /\ UsedIsCached

(* A new challenge has not been used.                                       *)
LEMMA ServerGetPow ==
    ASSUME ServerInv, NEW c \in Clients, GetPow(c)
    PROVE  ServerInv'
<1>1. PICK h \in Holders : h = Holder(c)
  BY DEF Holders
<1>2. /\ challenge' = [challenge EXCEPT ![h] = 0]
      /\ used' = [used EXCEPT ![h] = "no"]
      /\ UNCHANGED <<cache, client>>
  BY <1>1 DEF GetPow
<1>3. 0 \in Ages
  BY LifetimeAssumption DEF Ages
<1>4. ServerType'
  BY <1>2, <1>3 DEF ServerInv, ServerType
<1>5. UsedIsCached'
  BY <1>2 DEF ServerInv, ServerType, UsedIsCached
<1> QED BY <1>2, <1>4, <1>5 DEF ServerInv

(* A challenge is accepted only if the cache has none for its account.      *)
LEMMA ServerSubmit ==
    ASSUME ServerInv, NEW c \in Clients, SubmitChallenge(c)
    PROVE  ServerInv'
<1>1. PICK h \in Holders : h = Holder(c)
  BY DEF Holders
<1> DEFINE ch == [account |-> AccountOf[c], key |-> KeyOf[c], age |-> challenge[h]]
           accepted == ~HasChallengeForAccount(cache, AccountOf[c]) /\ IsNewChallenge(cache, ch)
<1>2. /\ cache' = IF accepted THEN InsertChallenge(cache, ch) ELSE cache
      /\ used' = IF accepted THEN [used EXCEPT ![h] = UsedAgain(h)] ELSE used
      /\ challenge' = challenge
      /\ \E v \in {"queued", "none"} : client' = [client EXCEPT ![c] = v]
  BY <1>1 DEF SubmitChallenge
<1>3. client' \in [Clients -> {"none", "checked", "queued", "cancelled", "minting", "minted"}]
  BY <1>2 DEF ServerInv, ServerType
<1>4. CASE ~accepted
  <2>1. UNCHANGED <<cache, used, challenge>>
    BY <1>2, <1>4
  <2> QED BY <1>3, <2>1 DEF ServerInv, ServerType, UsedIsCached
<1>5. CASE accepted
  <2>1. cache' = InsertChallenge(cache, ch) /\ used' = [used EXCEPT ![h] = UsedAgain(h)]
    BY <1>2, <1>5
  <2>2. challenge[h] \in Nat
    BY LifetimeAssumption DEF ServerInv, ServerType, Ages, NoChallenge
  <2>3. ch \in Challenge /\ ch.account = AccountOf[c] /\ ch.key = KeyOf[c]
        /\ ch.age = challenge[h]
    BY <2>2 DEF Challenge, Accounts, Keys
  <2>4. h[1] = AccountOf[c] /\ h[2] = KeyOf[c]
    BY <1>1 DEF Holder
  <2>5. ~HasChallengeForAccount(cache, ch.account)
    BY <1>5, <2>3
  <2> HIDE DEF ch
  <2>6. Sound(cache') /\ cache'.challenges = cache.challenges \cup {ch}
    BY <2>1, <2>3, <2>5, InsertSound DEF ServerInv
  <2>7. \A x \in cache.challenges : x.account # h[1]
    <3>1. \A x \in cache.challenges : AccountOfChallenge[x] = x.account
      BY DEF ServerInv, Sound, AccountOfChallenge
    <3> QED BY <3>1, <2>3, <2>4, <2>5 DEF ServerInv, Sound, Counted, HasChallengeForAccount
  <2>8. used[h] = "no" \/ IsExpired(challenge[h])
    BY <2>7 DEF ServerInv, UsedIsCached
  <2>9. UsedAgain(h) \in {"late", "once"}
    BY <2>8 DEF UsedAgain
  <2>10. used' \in [Holders -> {"no", "once", "late", "twice"}]
    BY <2>1, <2>9 DEF ServerInv, ServerType
  <2>11. /\ used'[h] = UsedAgain(h)
         /\ \A g \in Holders : g # h => used'[g] = used[g]
    BY <2>1 DEF ServerInv, ServerType
  <2>12. UsedIsCached'
    <3> SUFFICES ASSUME NEW g \in Holders
                 PROVE  /\ used'[g] # "twice"
                        /\ used'[g] # "no" /\ ~IsExpired(challenge[g]) =>
                             \E o \in cache'.challenges :
                                o.account = g[1] /\ o.key = g[2] /\ o.age = challenge[g]
      BY <1>2 DEF UsedIsCached
    <3>1. CASE g = h
      BY <3>1, <2>3, <2>4, <2>6, <2>9, <2>11
    <3>2. CASE g # h
      BY <3>2, <2>6, <2>11 DEF ServerInv, UsedIsCached
    <3> QED BY <3>1, <3>2
  <2> QED BY <1>2, <1>3, <2>6, <2>10, <2>12 DEF ServerInv, ServerType
<1> QED BY <1>4, <1>5

(* The clean-up keeps the challenges that are valid.                        *)
LEMMA ServerCleanup ==
    ASSUME ServerInv, RunCleanup
    PROVE  ServerInv'
<1>1. cache' = CleanupExpiredChallenges(cache) /\ UNCHANGED <<challenge, used, client>>
  BY DEF RunCleanup
<1>2. Sound(cache') /\ cache'.challenges = cache.challenges \ Expired(cache)
  BY <1>1, CleanupSound DEF ServerInv
<1>3. UsedIsCached'
  BY <1>1, <1>2 DEF ServerInv, UsedIsCached, Expired
<1> QED BY <1>1, <1>2, <1>3 DEF ServerInv, ServerType

(* A challenge and its entry in the cache age together.                     *)
LEMMA ServerTick ==
    ASSUME ServerInv, Tick
    PROVE  ServerInv'
<1>1. /\ cache' = Aged(cache) /\ UNCHANGED <<used, client>>
      /\ challenge' = [h \in Holders |-> IF challenge[h] = NoChallenge THEN NoChallenge
                                         ELSE Older(challenge[h])]
  BY DEF Tick
<1>2. /\ Sound(cache')
      /\ cache'.challenges = {[ch EXCEPT !.age = Older(@)] : ch \in cache.challenges}
  BY <1>1, AgedSound DEF ServerInv
<1>3. \A h \in Holders : /\ challenge[h] \in Ages \cup {NoChallenge}
                         /\ challenge'[h] \in Ages \cup {NoChallenge}
                         /\ ~IsExpired(challenge'[h]) =>
                               /\ ~IsExpired(challenge[h])
                               /\ challenge'[h] = Older(challenge[h])
  BY <1>1, LifetimeAssumption
     DEF ServerInv, ServerType, Ages, NoChallenge, Older, IsExpired
<1>4. ServerType'
  BY <1>1, <1>3 DEF ServerInv, ServerType
<1>5. UsedIsCached'
  <2> SUFFICES ASSUME NEW h \in Holders, used[h] # "no", ~IsExpired(challenge'[h])
               PROVE  \E o \in cache'.challenges :
                         o.account = h[1] /\ o.key = h[2] /\ o.age = challenge'[h]
    BY <1>1 DEF ServerInv, UsedIsCached
  <2>1. PICK ch \in cache.challenges :
          ch.account = h[1] /\ ch.key = h[2] /\ ch.age = challenge[h]
    BY <1>3 DEF ServerInv, UsedIsCached
  <2> DEFINE o == [ch EXCEPT !.age = Older(@)]
  <2>2. ch \in Challenge
    BY DEF ServerInv, Sound
  <2>3. o.account = ch.account /\ o.key = ch.key /\ o.age = Older(ch.age)
    BY <2>2 DEF Challenge
  <2>4. o \in cache'.challenges
    BY <1>2
  <2> HIDE DEF o
  <2> QED BY <1>3, <2>1, <2>3, <2>4
<1> QED BY <1>2, <1>4, <1>5 DEF ServerInv

(* Steps that do not touch the challenges.                                  *)
LEMMA ServerKeeps ==
    ASSUME ServerInv, UNCHANGED serverVars,
           client' \in [Clients -> {"none", "checked", "queued", "cancelled",
                                    "minting", "minted"}]
    PROVE  ServerInv'
  BY DEF ServerInv, ServerType, UsedIsCached, serverVars

(* After the process has stopped nothing counts as used.                    *)
LEMMA ServerStop ==
    ASSUME ServerInv, Stop, UNCHANGED challenge
    PROVE  ServerInv'
<1>1. /\ cache' = EmptyCache /\ used' = [h \in Holders |-> "no"]
      /\ client' = [c \in Clients |-> IF client[c] = "minted" THEN "minted" ELSE "none"]
  BY DEF Stop
<1>2. ServerType' /\ UsedIsCached'
  BY <1>1 DEF ServerInv, ServerType, UsedIsCached
<1> QED BY <1>1, <1>2, EmptySound DEF ServerInv

-----------------------------------------------------------------------------
(* The invariant of the faucet. *)

ClientStates == {"none", "checked", "queued", "cancelled", "minting", "minted"}

Inv == MinterInv /\ ServerInv

(* The minter takes a batch from the queue.                                 *)
LEMMA BatchTypes ==
    ASSUME Inv, HandleRequestBatch
    PROVE  MinterType' /\ client' \in [Clients -> ClientStates]
<1> DEFINE n == IF Len(requests) < BatchLimit THEN Len(requests) ELSE BatchLimit
           taken == SubSeq(requests, 1, n)
           rest == SubSeq(requests, n + 1, Len(requests))
           open == {c \in ToSet(taken) : client[c] = "queued"}
<1>1. requests \in Seq(Clients) /\ Len(requests) \in Nat /\ Len(requests) <= QueueSize
  BY LenProperties DEF Inv, MinterInv, MinterType
<1>2. QueueSize \in Nat /\ BatchLimit \in Nat
  BY FaucetAssumption
<1>3. n \in Nat /\ n <= Len(requests) /\ n > 0
  BY <1>1, <1>2 DEF HandleRequestBatch
<1>4. /\ pc' = "proven" /\ batch' = open /\ requests' = rest
      /\ client' = [c \in Clients |-> IF c \in open THEN "minting"
                                      ELSE IF c \in ToSet(taken) THEN "none" ELSE client[c]]
      /\ UNCHANGED <<local, prior, reply, behind, dropped, forgotten>>
  BY DEF HandleRequestBatch
<1> HIDE DEF n
<1>5. taken \in Seq(Clients)
  BY <1>1, <1>3, SubSeqProperties
<1>6. \A i \in DOMAIN taken : taken[i] \in Clients
  BY <1>5, ElementOfSeq, LenProperties
<1>7. open \subseteq Clients
  BY <1>6 DEF ToSet
<1>8. rest \in Seq(Clients) /\ Len(rest) = Len(requests) - n
  BY <1>1, <1>3, SubSeqProperties
<1> HIDE DEF taken, rest, open
<1>9. MinterType'
  BY <1>1, <1>2, <1>3, <1>4, <1>7, <1>8 DEF Inv, MinterInv, MinterType
<1> QED BY <1>4, <1>9 DEF Inv, ServerInv, ServerType, ClientStates

(* The invariant holds when the faucet starts.                              *)
LEMMA InvInit == Init => Inv
<1> SUFFICES ASSUME Init PROVE Inv
  OBVIOUS
<1>1. /\ pc = "idle" /\ committed \in Seq(Nat) /\ local = committed
      /\ prior = << >> /\ requests = << >> /\ batch = {} /\ inflight = << >>
      /\ txs = 0 /\ faults = 0
      /\ behind = FALSE /\ dropped = FALSE /\ forgotten = FALSE
  BY FaucetAssumption DEF Init
<1>2. QueueSize \in Nat /\ MaxFaults \in Nat
  BY FaucetAssumption
<1>3. prior \in Seq(Seq(Nat)) /\ requests \in Seq(Clients) /\ inflight \in Seq(Nat)
      /\ Len(requests) = 0 /\ Len(prior) = 0
  BY <1>1
<1>4. MinterType /\ NodeType
  <2>1. Len(requests) <= QueueSize /\ txs \in Nat /\ faults \in 0 .. MaxFaults
    BY <1>1, <1>2, <1>3
  <2>2. behind \in BOOLEAN /\ dropped \in BOOLEAN /\ forgotten \in BOOLEAN
        /\ local \in Seq(Nat)
    BY <1>1
  <2>3. pc \in {"down", "idle", "proven", "submitted"} /\ batch \subseteq Clients
    BY <1>1
  <2> QED BY <1>1, <1>3, <2>1, <2>2, <2>3 DEF MinterType, NodeType
<1>5. ReplyType /\ Steps /\ NothingKept
  BY <1>1, <1>3 DEF ReplyType, Steps, NothingKept
<1>6. NodeState = committed /\ Current = committed /\ Oldest = committed
  BY <1>1, ConcatEmptySeq DEF NodeState, Current, Oldest
<1>7. PrefixOf(committed, committed) /\ Len(committed) \in Nat
  BY <1>1, PrefixAppend, LenProperties
<1>8. Behind /\ InStep
  BY <1>1, <1>6, <1>7 DEF Behind, InStep
<1>9. ServerInv
  BY EmptySound DEF Init, ServerInv, ServerType, UsedIsCached
<1> QED BY <1>4, <1>5, <1>8, <1>9 DEF Inv, MinterInv

(* Every step of the minter, the node, the clock and the web server         *)
(* preserves the invariant.                                                 *)
LEMMA InvStep == Inv /\ [Next]_vars => Inv'
<1> SUFFICES ASSUME Inv, [Next]_vars PROVE Inv'
  OBVIOUS
<1>m. ASSUME UNCHANGED <<pc, local, prior, requests, batch, reply, behind, dropped,
                         forgotten, committed, inflight, txs>>,
             faults' \in 0 .. MaxFaults
      PROVE  MinterInv'
  <2>1. MinterType' /\ NodeType'
    BY <1>m DEF Inv, MinterInv, MinterType, NodeType
  <2> QED BY <1>m, <2>1, MinterKeeps DEF Inv
<1>f. /\ MaxFaults \in Nat /\ faults \in 0 .. MaxFaults
      /\ Fault => faults' \in 0 .. MaxFaults
  BY FaucetAssumption DEF Inv, MinterInv, NodeType, Fault
<1>1. ASSUME NEW c \in Clients, GetPow(c) PROVE Inv'
  <2>1. ServerInv'
    BY <1>1, ServerGetPow DEF Inv
  <2> QED BY <1>1, <1>m, <1>f, <2>1 DEF Inv, GetPow, minterVars, nodeVars
<1>2. ASSUME NEW c \in Clients, CheckChallenge(c) PROVE Inv'
  <2>1. ServerInv'
    BY <1>2, ServerKeeps DEF Inv, ServerInv, ServerType, CheckChallenge
  <2> QED BY <1>2, <1>m, <1>f, <2>1 DEF Inv, CheckChallenge, minterVars, nodeVars
<1>3. ASSUME NEW c \in Clients, SubmitChallenge(c) PROVE Inv'
  <2>1. ServerInv'
    BY <1>3, ServerSubmit DEF Inv
  <2>2. /\ UNCHANGED <<pc, local, prior, batch, reply, behind, dropped, forgotten,
                       committed, inflight, txs, faults>>
        /\ \/ requests' = requests
           \/ requests' = Append(requests, c) /\ Len(requests) < QueueSize
    BY <1>3 DEF SubmitChallenge, nodeVars
  <2>3. requests' \in Seq(Clients) /\ Len(requests') <= QueueSize
    <3>1. requests \in Seq(Clients) /\ Len(requests) \in Nat /\ Len(requests) <= QueueSize
      BY LenProperties DEF Inv, MinterInv, MinterType
    <3>2. QueueSize \in Nat
      BY FaucetAssumption
    <3> QED BY <2>2, <3>1, <3>2, AppendProperties
  <2>4. MinterType' /\ NodeType'
    BY <2>2, <2>3 DEF Inv, MinterInv, MinterType, NodeType
  <2> QED BY <2>1, <2>2, <2>4, MinterKeeps DEF Inv
<1>4. ASSUME NEW c \in Clients, Cancel(c) PROVE Inv'
  <2>1. ServerInv'
    BY <1>4, ServerKeeps DEF Inv, ServerInv, ServerType, Cancel
  <2> QED BY <1>4, <1>m, <1>f, <2>1 DEF Inv, Cancel, minterVars, nodeVars
<1>5. ASSUME RunCleanup PROVE Inv'
  <2>1. ServerInv'
    BY <1>5, ServerCleanup DEF Inv
  <2> QED BY <1>5, <1>m, <1>f, <2>1 DEF Inv, RunCleanup, minterVars, nodeVars
<1>6. ASSUME Tick PROVE Inv'
  <2>1. ServerInv'
    BY <1>6, ServerTick DEF Inv
  <2> QED BY <1>6, <1>m, <1>f, <2>1 DEF Inv, Tick, minterVars, nodeVars
<1>7. ASSUME HandleRequestBatch PROVE Inv'
  <2>1. MinterType' /\ client' \in [Clients -> ClientStates]
    BY <1>7, BatchTypes
  <2>2. /\ pc = "idle" /\ pc' = "proven"
        /\ UNCHANGED <<local, prior, reply, behind, dropped, forgotten, committed>>
        /\ UNCHANGED <<inflight, txs, faults, serverVars>>
    BY <1>7 DEF HandleRequestBatch, nodeVars
  <2>3. NodeType'
    BY <2>2 DEF Inv, MinterInv, NodeType
  <2>4. MinterInv'
    BY <2>1, <2>2, <2>3, MinterKeeps DEF Inv
  <2>5. ServerInv'
    BY <2>1, <2>2, ServerKeeps DEF Inv, ClientStates
  <2> QED BY <2>4, <2>5 DEF Inv
<1>8. ASSUME SubmitTransaction PROVE Inv'
  <2>1. ServerInv'
    BY <1>8, ServerKeeps DEF Inv, ServerInv, ServerType, SubmitTransaction
  <2> QED BY <1>8, <2>1, MinterSubmit DEF Inv
<1>9. ASSUME Minted PROVE Inv'
  <2>1. ServerInv'
    BY <1>9, ServerKeeps DEF Inv, ServerInv, ServerType, Minted
  <2> QED BY <1>9, <2>1, MinterMinted DEF Inv
<1>10. ASSUME ErrorRecovery, Rollback PROVE Inv'
  <2>1. /\ pc = "submitted" /\ ~reply.accepted
        /\ UNCHANGED <<challenge, cache, used, nodeVars, faults>>
        /\ client' = [c \in Clients |-> IF c \in batch THEN "none" ELSE client[c]]
    BY <1>10 DEF ErrorRecovery, Rollback
  <2>2. ServerInv'
    BY <2>1, ServerKeeps DEF Inv, ServerInv, ServerType, serverVars
  <2> QED BY <1>10, <2>1, <2>2, MinterDesync DEF Inv
<1>11. ASSUME ErrorRecovery, Stop PROVE Inv'
  <2>1. Stop /\ UNCHANGED challenge /\ NodeType'
    BY <1>11 DEF ErrorRecovery, nodeVars, Inv, MinterInv, NodeType
  <2> QED BY <2>1, MinterStop, ServerStop DEF Inv
<1>12. ASSUME Load PROVE Inv'
  <2>1. ServerInv'
    BY <1>12, ServerKeeps DEF Inv, ServerInv, ServerType, Load
  <2> QED BY <1>12, <2>1, MinterLoad DEF Inv
<1>13. ASSUME Crash PROVE Inv'
  <2>1. Stop /\ UNCHANGED challenge /\ NodeType'
    BY <1>13, <1>f DEF Crash, nodeVars, Inv, MinterInv, NodeType
  <2> QED BY <2>1, MinterStop, ServerStop DEF Inv
<1>14. ASSUME CommitTransaction PROVE Inv'
  <2>1. NodeState' = NodeState /\ NodeType' /\ Len(committed') = Len(committed) + 1
    BY <1>14, CommitKeepsState DEF Inv, MinterInv
  <2>2. NodeState \in Seq(Nat) /\ Len(committed) \in Nat
    BY ConcatType DEF Inv, MinterInv, NodeType, NodeState
  <2>3. PrefixOf(NodeState', NodeState) /\ Len(committed) <= Len(committed')
    BY <2>1, <2>2, PrefixAppend
  <2>4. UNCHANGED minterVars /\ UNCHANGED serverVars /\ UNCHANGED client
    BY <1>14 DEF CommitTransaction
  <2>5. MinterInv'
    BY <2>1, <2>3, <2>4, MinterNodeStep DEF Inv, minterVars
  <2>6. ServerInv'
    BY <2>4, ServerKeeps DEF Inv, ServerInv, ServerType
  <2> QED BY <2>5, <2>6 DEF Inv
<1>15. ASSUME DropTransactions PROVE Inv'
  <2>1. PrefixOf(NodeState', NodeState) /\ NodeType' /\ committed' = committed
    BY <1>15, DropGoesBack DEF Inv, MinterInv
  <2>2. Len(committed) <= Len(committed')
    BY <2>1, LenProperties DEF Inv, MinterInv, NodeType
  <2>3. /\ UNCHANGED <<pc, local, prior, requests, batch, reply, behind, forgotten>>
        /\ dropped' = TRUE /\ UNCHANGED serverVars /\ UNCHANGED client
    BY <1>15 DEF DropTransactions
  <2>4. MinterInv'
    BY <2>1, <2>2, <2>3, MinterNodeStep DEF Inv
  <2>5. ServerInv'
    BY <2>3, ServerKeeps DEF Inv, ServerInv, ServerType
  <2> QED BY <2>4, <2>5 DEF Inv
<1>16. ASSUME UNCHANGED vars PROVE Inv'
  <2>1. UNCHANGED minterVars /\ UNCHANGED serverVars /\ UNCHANGED client
        /\ UNCHANGED nodeVars /\ UNCHANGED faults
    BY <1>16 DEF vars
  <2>2. ServerInv'
    BY <2>1, ServerKeeps DEF Inv, ServerInv, ServerType
  <2> QED BY <1>m, <1>f, <2>1, <2>2 DEF Inv, minterVars, nodeVars
<1> QED BY <1>1, <1>2, <1>3, <1>4, <1>5, <1>6, <1>7, <1>8, <1>9, <1>10, <1>11, <1>12,
           <1>13, <1>14, <1>15, <1>16 DEF Next, Mint, ErrorRecovery

(***************************************************************************)
(* The invariant holds in every reachable state.                           *)
(***************************************************************************)
THEOREM Invariance == Spec => []Inv
  BY InvInit, InvStep, PTL DEF Spec

(***************************************************************************)
(* The minter follows its account on the node: its state is the node's,    *)
(* and no submission is refused, as long as the node drops no transaction; *)
(* when the node does, its state is still among those the minter keeps,    *)
(* unless it was started behind the mempool or has dropped that state      *)
(* because of the limit; and the states it keeps are steps of one history. *)
(***************************************************************************)
THEOREM MinterAlwaysFollows == Spec => []MinterFollowsNode
<1>1. Inv => MinterFollowsNode
  BY HistoryFromInv DEF Inv, MinterInv, ServerInv, MinterFollowsNode, TypeOK
<1> QED BY <1>1, Invariance, PTL

(***************************************************************************)
(* The cache of challenges counts right for every key and account, its     *)
(* clean-up never panics, no account has two challenges in it, and no      *)
(* challenge is accepted twice while it is valid.                          *)
(***************************************************************************)
THEOREM ChallengesAlwaysExact == Spec => []ChallengesExact
<1>1. Inv => ChallengesExact
  <2> SUFFICES ASSUME Inv PROVE ChallengesExact
    OBVIOUS
  <2>1. CacheExact
    BY SoundExact DEF Inv, ServerInv, CacheExact
  <2>2. ChallengeUsedOnce
    BY DEF Inv, ServerInv, UsedIsCached, ChallengeUsedOnce
  <2> QED BY <2>1, <2>2 DEF ChallengesExact
<1> QED BY <1>1, Invariance, PTL

=============================================================================

----------------------------- MODULE NodeProofs -----------------------------
(***************************************************************************)
(* Proofs about a node on its data directory, for every set of genesis     *)
(* configurations, account directories and transactions and every bound on *)
(* faults.                                                                 *)
(***************************************************************************)
EXTENDS Node, BasicLemmas

-----------------------------------------------------------------------------
(* GENESIS: folds and recursive functions along a sequence.                 *)

(* A nonempty set of positions has a largest one.                           *)
LEMMA LargestPosition ==
    ASSUME NEW N \in Nat, NEW T \in SUBSET (1 .. N), T # {}
    PROVE  Max(T) \in T /\ \A y \in T : Max(T) >= y
<1> DEFINE U == {k \in 0 .. N : N - k \in T}
<1>1. U # {} /\ U \subseteq Nat
  <2>1. PICK t \in T : TRUE
    OBVIOUS
  <2>2. N - (N - t) = t /\ N - t \in 0 .. N
    BY <2>1
  <2>3. N - t \in U
    BY <2>1, <2>2
  <2>4. U \subseteq Nat
    OBVIOUS
  <2> HIDE DEF U
  <2> QED BY <2>3, <2>4
<1>2. PICK k \in U : \A y \in U : k <= y
  BY <1>1, LeastNatural
<1>3. \A y \in T : N - y \in U
  <2>1. \A y \in 1 .. N : N - (N - y) = y /\ N - y \in 0 .. N
    OBVIOUS
  <2> QED BY <2>1
<1>4. N - k \in T /\ \A y \in T : N - k >= y
  <2>1. \A y \in T : k <= N - y
    BY <1>2, <1>3
  <2> QED BY <1>2, <2>1
<1> QED BY <1>4 DEF Max

(* The largest of the first n positions is n.                               *)
LEMMA LastOfFirst ==
    ASSUME NEW n \in Nat, n # 0
    PROVE  1 .. n # {} /\ Max(1 .. n) = n /\ (1 .. n) \ {n} = 1 .. n - 1
<1>1. n \in 1 .. n /\ (1 .. n) \ {n} = 1 .. n - 1
  OBVIOUS
<1>2. Max(1 .. n) \in 1 .. n /\ Max(1 .. n) >= n
  BY <1>1, LargestPosition
<1> QED BY <1>1, <1>2

(* s holds the partial sums of h, f the iterations of a fold that adds up h.*)
IsSums(s, h, N) == s = [n \in 0 .. N |-> IF n = 0 THEN 0 ELSE s[n - 1] + h[n]]

IsFold(f, h, N) ==
    f = [T \in SUBSET (1 .. N) |-> IF T = {} THEN 0 ELSE f[T \ {Max(T)}] + h[Max(T)]]

(* The partial sums of h exist as a function.                               *)
LEMMA PartialSums ==
    ASSUME NEW N \in Nat, NEW h \in [1 .. N -> Nat]
    PROVE  \E s : IsSums(s, h, N)
<1> USE DEF IsSums
<1> DEFINE Sums(M) == \E f : f = [n \in 0 .. M |-> IF n = 0 THEN 0 ELSE f[n - 1] + h[n]]
<1> DEFINE Bad == {M \in 0 .. N : ~Sums(M)}
<1> SUFFICES ASSUME ~Sums(N)
             PROVE  FALSE
  OBVIOUS
<1> HIDE DEF Sums
<1>0. N \in Bad /\ Bad \subseteq Nat
  OBVIOUS
<1>1. PICK M \in Bad : \A y \in Bad : M <= y
  BY <1>0, LeastNatural
<1>2. M # 0
  <2>1. [n \in {0} |-> 0] = [n \in 0 .. 0 |-> IF n = 0 THEN 0 ELSE [k \in {0} |-> 0][n - 1] + h[n]]
    OBVIOUS
  <2> QED BY <1>1, <2>1 DEF Sums
<1>3. Sums(M - 1)
  <2>1. M - 1 \in 0 .. N /\ ~(M <= M - 1)
    BY <1>1, <1>2
  <2> QED BY <1>1, <2>1
<1>4. PICK f : f = [n \in 0 .. M - 1 |-> IF n = 0 THEN 0 ELSE f[n - 1] + h[n]]
  BY <1>3 DEF Sums
<1> DEFINE g == [n \in 0 .. M |-> IF n = M THEN f[M - 1] + h[M] ELSE f[n]]
<1>5. g = [n \in 0 .. M |-> IF n = 0 THEN 0 ELSE g[n - 1] + h[n]]
  <2> SUFFICES ASSUME NEW n \in 0 .. M
               PROVE  g[n] = IF n = 0 THEN 0 ELSE g[n - 1] + h[n]
    OBVIOUS
  <2>1. CASE n = M
    BY <1>1, <1>2, <2>1
  <2>2. CASE n # M
    <3>1. n \in 0 .. M - 1 /\ g[n] = f[n]
      BY <1>1, <2>2
    <3>2. f[n] = IF n = 0 THEN 0 ELSE f[n - 1] + h[n]
      BY <1>4, <3>1
    <3>3. n # 0 => g[n - 1] = f[n - 1]
      BY <1>1, <2>2
    <3> QED BY <3>1, <3>2, <3>3
  <2> QED BY <2>1, <2>2
<1> QED BY <1>1, <1>5 DEF Sums

(* The iterations of a fold that adds h along the positions exist.          *)
LEMMA FoldedSums ==
    ASSUME NEW N \in Nat, NEW h \in [1 .. N -> Nat]
    PROVE  \E f \in [SUBSET (1 .. N) -> Nat] : IsFold(f, h, N)
<1> USE DEF IsFold
<1> DEFINE Sums(M) == \E f \in [SUBSET (1 .. M) -> Nat] :
                         f = [T \in SUBSET (1 .. M) |->
                                IF T = {} THEN 0 ELSE f[T \ {Max(T)}] + h[Max(T)]]
<1> DEFINE Bad == {M \in 0 .. N : ~Sums(M)}
<1> SUFFICES ASSUME ~Sums(N)
             PROVE  FALSE
  OBVIOUS
<1> HIDE DEF Sums
<1>0. N \in Bad /\ Bad \subseteq Nat
  OBVIOUS
<1>1. PICK M \in Bad : \A y \in Bad : M <= y
  BY <1>0, LeastNatural
<1>2. M # 0
  <2>1. SUBSET (1 .. 0) = {{}}
    OBVIOUS
  <2> DEFINE z == [T \in SUBSET (1 .. 0) |-> 0]
  <2>2. z = [T \in SUBSET (1 .. 0) |-> IF T = {} THEN 0 ELSE z[T \ {Max(T)}] + h[Max(T)]]
    BY <2>1
  <2> QED BY <1>1, <2>2 DEF Sums
<1>3. Sums(M - 1)
  <2>1. M - 1 \in 0 .. N /\ ~(M <= M - 1)
    BY <1>1, <1>2
  <2> QED BY <1>1, <2>1
<1>4. PICK f \in [SUBSET (1 .. M - 1) -> Nat] :
        f = [T \in SUBSET (1 .. M - 1) |->
                      IF T = {} THEN 0 ELSE f[T \ {Max(T)}] + h[Max(T)]]
  BY <1>3 DEF Sums
<1> DEFINE g == [T \in SUBSET (1 .. M) |-> IF M \in T THEN f[T \ {M}] + h[M] ELSE f[T]]
<1>4a. g \in [SUBSET (1 .. M) -> Nat]
  <2>1. \A T \in SUBSET (1 .. M) : IF M \in T THEN T \ {M} \in SUBSET (1 .. M - 1)
                                              ELSE T \in SUBSET (1 .. M - 1)
    BY <1>1
  <2>2. h[M] \in Nat
    BY <1>1, <1>2
  <2>3. \A T \in SUBSET (1 .. M) : (IF M \in T THEN f[T \ {M}] + h[M] ELSE f[T]) \in Nat
    <3> SUFFICES ASSUME NEW T \in SUBSET (1 .. M)
                 PROVE  (IF M \in T THEN f[T \ {M}] + h[M] ELSE f[T]) \in Nat
      OBVIOUS
    <3>1. M \in T => f[T \ {M}] \in Nat
      BY <2>1
    <3>2. M \notin T => f[T] \in Nat
      BY <2>1
    <3> QED BY <2>2, <3>1, <3>2
  <2> QED BY <2>3
<1>5. g = [T \in SUBSET (1 .. M) |-> IF T = {} THEN 0 ELSE g[T \ {Max(T)}] + h[Max(T)]]
  <2> SUFFICES ASSUME NEW T \in SUBSET (1 .. M)
               PROVE  g[T] = IF T = {} THEN 0 ELSE g[T \ {Max(T)}] + h[Max(T)]
    OBVIOUS
  <2>1. CASE M \in T
    <3>1. Max(T) = M
      <4>1. T # {} /\ M \in Nat
        BY <1>1, <2>1
      <4>2. Max(T) \in T /\ Max(T) >= M
        BY <2>1, <4>1, LargestPosition
      <4>3. Max(T) \in 1 .. M
        BY <4>2
      <4>4. \A k \in 1 .. M : k >= M => k = M
        BY <4>1
      <4> HIDE DEF g
      <4> QED BY <4>2, <4>3, <4>4
    <3>2. g[T \ {M}] = f[T \ {M}]
      OBVIOUS
    <3> QED BY <2>1, <3>1, <3>2
  <2>2. CASE M \notin T
    <3>1. T \in SUBSET (1 .. M - 1) /\ g[T] = f[T]
      BY <1>1, <2>2
    <3>2. f[T] = IF T = {} THEN 0 ELSE f[T \ {Max(T)}] + h[Max(T)]
      BY <1>4, <3>1
    <3>3. g[T \ {Max(T)}] = f[T \ {Max(T)}]
      BY <2>2
    <3> QED BY <3>1, <3>2, <3>3
  <2> QED BY <2>1, <2>2
<1> QED BY <1>1, <1>5, <1>4a DEF Sums

(* Adding h up along the positions gives the last partial sum.              *)
LEMMA FoldIsSum ==
    ASSUME NEW N \in Nat, NEW h \in [1 .. N -> Nat], NEW f, NEW s,
           IsFold(f, h, N), IsSums(s, h, N)
    PROVE  f[1 .. N] = s[N]
<1> USE DEF IsFold, IsSums
<1> DEFINE Same(n) == f[1 .. n] = s[n]
<1> DEFINE Bad == {n \in 0 .. N : ~Same(n)}
<1> SUFFICES ASSUME ~Same(N)
             PROVE  FALSE
  OBVIOUS
<1> HIDE DEF Same
<1>0. N \in Bad /\ Bad \subseteq Nat
  OBVIOUS
<1>1. PICK n \in Bad : \A y \in Bad : n <= y
  BY <1>0, LeastNatural
<1>2. CASE n = 0
  <2>1. f[{}] = 0 /\ s[0] = 0 /\ 1 .. 0 = {}
    OBVIOUS
  <2> QED BY <1>1, <1>2, <2>1 DEF Same
<1>3. CASE n # 0
  <2>0. n - 1 \in 0 .. N /\ ~(n <= n - 1) /\ n \in 1 .. N /\ n \in Nat /\ n # 0
    BY <1>1, <1>3
  <2>1. Same(n - 1)
    BY <1>1, <2>0
  <2>4. f[1 .. n] = f[1 .. n - 1] + h[n]
    <3>1. PICK T : T = 1 .. n
      OBVIOUS
    <3>2. T \in SUBSET (1 .. N)
      BY <2>0, <3>1
    <3>3. f[T] = IF T = {} THEN 0 ELSE f[T \ {Max(T)}] + h[Max(T)]
      BY <3>2
    <3>4. T # {} /\ Max(T) = n /\ T \ {n} = 1 .. n - 1
      BY <2>0, <3>1, LastOfFirst
    <3> QED BY <3>1, <3>3, <3>4
  <2>5. s[n] = s[n - 1] + h[n]
    BY <2>0
  <2> QED BY <1>1, <2>1, <2>4, <2>5 DEF Same
<1> QED BY <1>2, <1>3

-----------------------------------------------------------------------------
Assets == Seq([symbol : STRING, amount : Nat])

(* What a wallet of a configuration is given is a number.                   *)
LEMMA HoldingType ==
    ASSUME NEW wallet \in Assets, NEW symbol
    PROVE  Holding(wallet, symbol) \in Nat
<1> DEFINE N == Len(wallet)
<1> DEFINE Adds(f) == f = [T \in SUBSET (1 .. N) |->
                               IF T = {} THEN 0
                               ELSE IF wallet[Max(T)].symbol = symbol
                                    THEN f[T \ {Max(T)}] + wallet[Max(T)].amount
                                    ELSE f[T \ {Max(T)}]]
<1> DEFINE h == [i \in 1 .. N |-> IF wallet[i].symbol = symbol THEN wallet[i].amount ELSE 0]
<1>1. N \in Nat /\ DOMAIN wallet = 1 .. N /\ \A i \in 1 .. N : wallet[i].amount \in Nat
  <2>1. \A i \in 1 .. N : wallet[i] \in [symbol : STRING, amount : Nat]
    BY ElementOfSeq DEF Assets
  <2> QED BY <2>1 DEF Assets
<1>2. h \in [1 .. N -> Nat]
  BY <1>1
<1>3. \E f : Adds(f)
  <2> HIDE DEF h
  <2>1. PICK f \in [SUBSET (1 .. N) -> Nat] :
          f = [T \in SUBSET (1 .. N) |-> IF T = {} THEN 0 ELSE f[T \ {Max(T)}] + h[Max(T)]]
    BY <1>1, <1>2, FoldedSums DEF IsFold
  <2>2. ASSUME NEW T \in SUBSET (1 .. N), T # {}
        PROVE  f[T \ {Max(T)}] + h[Max(T)] =
                 IF wallet[Max(T)].symbol = symbol
                 THEN f[T \ {Max(T)}] + wallet[Max(T)].amount
                 ELSE f[T \ {Max(T)}]
    <3>1. Max(T) \in 1 .. N
      BY <1>1, <2>2, LargestPosition
    <3>2. f[T \ {Max(T)}] \in Nat
      BY <2>1
    <3>3. h[Max(T)] = IF wallet[Max(T)].symbol = symbol THEN wallet[Max(T)].amount ELSE 0
      BY <3>1 DEF h
    <3> QED BY <3>2, <3>3
  <2>3. ASSUME NEW T \in SUBSET (1 .. N)
        PROVE  f[T] = IF T = {} THEN 0
                      ELSE IF wallet[Max(T)].symbol = symbol
                           THEN f[T \ {Max(T)}] + wallet[Max(T)].amount
                           ELSE f[T \ {Max(T)}]
    <3>1. f[T] = IF T = {} THEN 0 ELSE f[T \ {Max(T)}] + h[Max(T)]
      BY <2>1
    <3> QED BY <2>2, <3>1
  <2>4. Adds(f)
    BY <2>1, <2>3
  <2> QED BY <2>4
<1> DEFINE fold == CHOOSE f : Adds(f)
<1>4. Holding(wallet, symbol) = fold[1 .. N]
  <2>1. Holding(wallet, symbol) =
          (CHOOSE f : f = [T \in SUBSET (DOMAIN wallet) |->
                             IF T = {} THEN 0
                             ELSE IF wallet[Max(T)].symbol = symbol
                                  THEN f[T \ {Max(T)}] + wallet[Max(T)].amount
                                  ELSE f[T \ {Max(T)}]])[DOMAIN wallet]
    BY Zenon DEF Holding, FoldLeft, MapThenFoldSet
  <2> QED BY <1>1, <2>1, Zenon
<1>5. Adds(fold)
  BY <1>3
<1> HIDE DEF fold
<1> DEFINE Bad == {n \in 0 .. N : fold[1 .. n] \notin Nat}
<1> SUFFICES ASSUME N \in Bad
             PROVE  FALSE
  BY <1>1, <1>4
<1>6. Bad \subseteq Nat
  OBVIOUS
<1>7. PICK n \in Bad : \A y \in Bad : n <= y
  BY <1>6, LeastNatural
<1>8. n \in 0 .. N /\ fold[1 .. n] \notin Nat
  BY <1>7
<1>9. CASE n = 0
  <2>1. fold[{}] = 0 /\ 1 .. 0 = {}
    BY <1>5
  <2> QED BY <1>8, <1>9, <2>1
<1>10. CASE n # 0
  <2>1. n - 1 \in 0 .. N /\ ~(n <= n - 1) /\ n \in 1 .. N /\ n \in Nat
    BY <1>1, <1>8, <1>10
  <2>2. fold[1 .. n - 1] \in Nat
    BY <1>7, <2>1
  <2>3. PICK T : T = 1 .. n
    OBVIOUS
  <2>4. T \in SUBSET (1 .. N) /\ T # {} /\ Max(T) = n /\ T \ {n} = 1 .. n - 1
    BY <1>1, <2>1, <2>3, LastOfFirst
  <2>5. fold[T] = IF wallet[n].symbol = symbol THEN fold[1 .. n - 1] + wallet[n].amount
                  ELSE fold[1 .. n - 1]
    BY <1>5, <2>4
  <2> QED BY <1>1, <1>8, <2>1, <2>2, <2>3, <2>5
<1> QED BY <1>8, <1>9, <1>10


(***************************************************************************)
(* faucet_issuance, the fold over the wallets of a configuration, is the   *)
(* sum of what the wallets are given.                                      *)
(***************************************************************************)
LEMMA IssuedIsSum ==
    ASSUME NEW wallets \in Seq(Assets), NEW symbol, NEW N, N = Len(wallets),
           NEW h, h = [i \in 1 .. N |-> Holding(wallets[i], symbol)]
    PROVE  /\ h \in [1 .. N -> Nat]
           /\ Issued(wallets, symbol) \in Nat
           /\ \A s : IsSums(s, h, N) => Issued(wallets, symbol) = s[N]
<1>1. N \in Nat /\ DOMAIN wallets = 1 .. N /\ \A i \in 1 .. N : wallets[i] \in Assets
  BY ElementOfSeq
<1>2. h \in [1 .. N -> Nat]
  BY <1>1, HoldingType
<1> DEFINE Adds(f) == f = [T \in SUBSET (1 .. N) |->
                               IF T = {} THEN 0
                               ELSE f[T \ {Max(T)}] + Holding(wallets[Max(T)], symbol)]
<1>3. \A f : Adds(f) <=> IsFold(f, h, N)
  <2>1. \A T \in SUBSET (1 .. N) : T # {} => Max(T) \in 1 .. N
    BY <1>1, LargestPosition
  <2>2. \A T \in SUBSET (1 .. N) : T # {} => h[Max(T)] = Holding(wallets[Max(T)], symbol)
    BY <2>1
  <2>3. ASSUME NEW f
        PROVE  [T \in SUBSET (1 .. N) |->
                  IF T = {} THEN 0 ELSE f[T \ {Max(T)}] + Holding(wallets[Max(T)], symbol)]
               = [T \in SUBSET (1 .. N) |-> IF T = {} THEN 0 ELSE f[T \ {Max(T)}] + h[Max(T)]]
    BY <2>2
  <2> QED BY <2>3 DEF IsFold
<1>3a. \A f, s : IsFold(f, h, N) /\ IsSums(s, h, N) => f[1 .. N] = s[N]
  BY <1>1, <1>2, FoldIsSum
<1>4. PICK f \in [SUBSET (1 .. N) -> Nat] : IsFold(f, h, N)
  BY <1>1, <1>2, FoldedSums
<1> DEFINE fold == CHOOSE g : Adds(g)
<1>5. Issued(wallets, symbol) = fold[1 .. N]
  <2>1. Issued(wallets, symbol) =
          (CHOOSE g : g = [T \in SUBSET (DOMAIN wallets) |->
                             IF T = {} THEN 0
                             ELSE g[T \ {Max(T)}] + Holding(wallets[Max(T)], symbol)])
          [DOMAIN wallets]
    BY Zenon DEF Issued, FoldLeft, MapThenFoldSet
  <2> QED BY <1>1, <2>1, Zenon
<1>6. IsFold(fold, h, N)
  <2>1. \E g : Adds(g)
    BY <1>3, <1>4
  <2>2. Adds(fold)
    BY <2>1
  <2> HIDE DEF IsFold, fold
  <2> QED BY <1>3, <2>2
<1> HIDE DEF fold
<1>7. ASSUME NEW s, IsSums(s, h, N)
      PROVE  fold[1 .. N] = s[N] /\ f[1 .. N] = s[N]
  <2>1. fold[1 .. N] = s[N]
    BY <1>6, <1>7, <1>3a
  <2>2. f[1 .. N] = s[N]
    BY <1>4, <1>7, <1>3a
  <2> QED BY <2>1, <2>2
<1>8. \E s : IsSums(s, h, N)
  BY <1>1, <1>2, PartialSums
<1>9. fold[1 .. N] \in Nat
  <2>1. f[1 .. N] \in Nat
    BY <1>4
  <2> QED BY <1>7, <1>8, <2>1
<1> QED BY <1>2, <1>5, <1>7, <1>9

(***************************************************************************)
(* An accepted configuration makes a balanced genesis state.               *)
(***************************************************************************)
LEMMA AcceptedIsBalanced ==
    ASSUME NEW config \in Config, Accepted(config)
    PROVE  Balanced(IntoState(config))
<1>1. /\ config.wallets \in Seq(Assets)
      /\ config.faucets \in Seq([symbol : STRING, max_supply : Nat])
  BY NodeAssumption DEF Assets
<1> SUFFICES ASSUME NEW s \in Symbols(config)
             PROVE  LET g == IntoState(config) IN
                    /\ g.faucets[s].issued = Held(g.wallets, s)[Len(g.wallets)]
                    /\ g.faucets[s].issued <= g.faucets[s].max_supply
  BY Zenon DEF Balanced, IntoState
<1> DEFINE N == Len(config.wallets)
<1>2. N \in Nat /\ DOMAIN config.wallets = 1 .. N
  BY <1>1
<1> DEFINE h == [i \in 1 .. N |-> Holding(config.wallets[i], s)]
<1>3. /\ h \in [1 .. N -> Nat]
      /\ Issued(config.wallets, s) \in Nat
      /\ \A f : IsSums(f, h, N) => Issued(config.wallets, s) = f[N]
  <2>1. PICK ws \in Seq(Assets) : ws = config.wallets
    BY <1>1
  <2>2. N = Len(ws) /\ h = [i \in 1 .. N |-> Holding(ws[i], s)]
    BY <2>1
  <2> HIDE DEF N, h
  <2>3. /\ h \in [1 .. N -> Nat]
        /\ Issued(ws, s) \in Nat
        /\ \A f : IsSums(f, h, N) => Issued(ws, s) = f[N]
    BY <2>2, IssuedIsSum
  <2> QED BY <2>1, <2>3
<1>4. /\ IntoState(config).faucets[s].issued = Issued(config.wallets, s)
      /\ IntoState(config).faucets[s].max_supply = MaxSupply(config, s)
  BY DEF IntoState
<1> DEFINE W == IntoState(config).wallets
<1>5. /\ W = [i \in 1 .. N |->
                [balance |-> [t \in Symbols(config) |-> Holding(config.wallets[i], t)],
                 nonce |-> 1]]
  BY <1>2 DEF IntoState
<1>6. \A i \in 1 .. N : W[i].balance[s] = h[i]
  BY <1>5
<1>7. Len(W) = N
  <2>1. W \in [1 .. N -> {W[i] : i \in 1 .. N}]
    BY <1>5
  <2>2. W \in Seq({W[i] : i \in 1 .. N}) /\ DOMAIN W = 1 .. N
    BY <1>2, <2>1
  <2> QED BY <1>2, <2>2, LenProperties
<1>8. Issued(config.wallets, s) = Held(W, s)[N]
  <2> DEFINE IsHeld(f) == f = [n \in 0 .. N |-> IF n = 0 THEN 0 ELSE f[n - 1] + W[n].balance[s]]
  <2>1. Held(W, s) = CHOOSE f : IsHeld(f)
    <3>1. Held(W, s) = CHOOSE f : f = [n \in 0 .. Len(W) |->
                                        IF n = 0 THEN 0 ELSE f[n - 1] + W[n].balance[s]]
      BY Zenon DEF Held
    <3> HIDE DEF W, N
    <3> QED BY <1>7, <3>1
  <2>2. \A f : IsHeld(f) <=> IsSums(f, h, N)
    <3> HIDE DEF W, h
    <3>1. ASSUME NEW f
          PROVE  [n \in 0 .. N |-> IF n = 0 THEN 0 ELSE f[n - 1] + W[n].balance[s]]
                 = [n \in 0 .. N |-> IF n = 0 THEN 0 ELSE f[n - 1] + h[n]]
      <4>1. \A n \in 0 .. N : n # 0 => W[n].balance[s] = h[n]
        BY <1>2, <1>6
      <4> QED BY <4>1
    <3> QED BY <3>1 DEF IsSums
  <2>3. \E f : IsHeld(f)
    <3>1. \E f : IsSums(f, h, N)
      BY <1>2, <1>3, PartialSums
    <3> HIDE DEF IsHeld
    <3> QED BY <2>2, <3>1
  <2>4. IsHeld(Held(W, s))
    <3> HIDE DEF W
    <3>1. IsHeld(CHOOSE f : IsHeld(f))
      BY <2>3
    <3> HIDE DEF IsHeld
    <3> QED BY <2>1, <3>1
  <2>5. IsSums(Held(W, s), h, N)
    <3> HIDE DEF IsHeld
    <3> QED BY <2>2, <2>4
  <2> QED BY <1>3, <2>5
<1>9. Issued(config.wallets, s) <= MaxSupply(config, s)
  <2>1. ~(MaxSupply(config, s) < Issued(config.wallets, s))
    BY DEF Accepted, MaxIssuanceExceeded
  <2>2. PICK f \in ToSet(config.faucets) : f.symbol = s
    BY DEF Symbols
  <2>3. (CHOOSE g \in ToSet(config.faucets) : g.symbol = s) \in ToSet(config.faucets)
    BY <2>2
  <2>4. \A g \in ToSet(config.faucets) : g.max_supply \in Nat
    <3>1. \A i \in 1 .. Len(config.faucets) :
            config.faucets[i] \in [symbol : STRING, max_supply : Nat]
      BY <1>1, ElementOfSeq
    <3>2. DOMAIN config.faucets = 1 .. Len(config.faucets)
      BY <1>1
    <3> QED BY <3>1, <3>2 DEF ToSet
  <2>5. MaxSupply(config, s) \in Nat
    BY <2>3, <2>4 DEF MaxSupply
  <2> QED BY <1>3, <2>1, <2>5
<1> QED BY <1>4, <1>7, <1>8, <1>9

-----------------------------------------------------------------------------
(* EVENTS: what the builder will know once it has received what is on its   *)
(* way.                                                                     *)

Event == ({"added"} \X Tx) \cup ({"committed"} \X SUBSET Tx)

Builder ==
    [step : {"off", "genesis", "load", "chain tip", "subscribe", "checkpoint", "running"},
     loaded : Int, tip : Int, txs : SUBSET Tx, events : Seq(Event),
     retries : 0 .. ShiftBits - 1]

(* An event changes only which block and which transactions are known.      *)
LEMMA SeenType ==
    ASSUME NEW b \in Builder, NEW e \in Event
    PROVE  Seen(b, e) \in Builder
<1>0. b.loaded \in Int /\ b.txs \subseteq Tx
  BY DEF Builder
<1>1. b.loaded + 1 \in Int /\ b.txs \subseteq Tx
  BY <1>0
<1>2. CASE e[1] = "added"
  <2>1. e[2] \in Tx
    BY <1>2 DEF Event
  <2>2. b.txs \cup {e[2]} \in SUBSET Tx
    BY <1>1, <2>1
  <2>3. Seen(b, e) = [b EXCEPT !.txs = b.txs \cup {e[2]}]
    BY <1>2 DEF Seen
  <2> QED BY <2>2, <2>3 DEF Builder
<1>3. CASE e[1] # "added"
  <2>1. b.txs \ e[2] \in SUBSET Tx
    BY <1>1
  <2>2. Seen(b, e) = [[b EXCEPT !.txs = b.txs \ e[2]] EXCEPT !.loaded = b.loaded + 1]
    BY <1>3 DEF Seen, Builder
  <2>3. [b EXCEPT !.txs = b.txs \ e[2]] \in Builder
    BY <2>1 DEF Builder
  <2> QED BY <1>1, <2>2, <2>3 DEF Builder
<1> QED BY <1>2, <1>3

IsViews(k, b) ==
    k = [n \in 0 .. Len(b.events) |-> IF n = 0 THEN b ELSE Seen(k[n - 1], b.events[n])]

(* The views of a builder are well-defined.                                 *)
LEMMA ViewsDefined ==
    ASSUME NEW b \in Builder
    PROVE  /\ IsViews(Views(b), b)
           /\ Len(b.events) \in Nat
           /\ \A n \in 0 .. Len(b.events) : Views(b)[n] \in Builder
<1> DEFINE N == Len(b.events)
<1> DEFINE Runs(k, M) == k = [n \in 0 .. M |-> IF n = 0 THEN b ELSE Seen(k[n - 1], b.events[n])]
<1> DEFINE Defined(M) == \E k \in [0 .. M -> Builder] : Runs(k, M)
<1> DEFINE Bad == {M \in 0 .. N : ~Defined(M)}
<1>0. N \in Nat /\ \A n \in 1 .. N : b.events[n] \in Event
  <2>1. b.events \in Seq(Event)
    BY DEF Builder
  <2> QED BY <2>1, ElementOfSeq
<1>1. Defined(N)
  <2> SUFFICES ASSUME ~Defined(N)
               PROVE  FALSE
    OBVIOUS
  <2> HIDE DEF Defined
  <2>0. N \in Bad /\ Bad \subseteq Nat
    BY <1>0
  <2>1. PICK M \in Bad : \A y \in Bad : M <= y
    BY <2>0, LeastNatural
  <2>2. M # 0
    <3> DEFINE z == [n \in 0 .. 0 |-> b]
    <3>1. z \in [0 .. 0 -> Builder] /\ Runs(z, 0)
      OBVIOUS
    <3> QED BY <2>1, <3>1 DEF Defined
  <2>3. Defined(M - 1)
    <3>1. M - 1 \in 0 .. N /\ ~(M <= M - 1)
      BY <1>0, <2>1, <2>2
    <3> QED BY <2>1, <3>1
  <2>4. PICK k \in [0 .. M - 1 -> Builder] : Runs(k, M - 1)
    BY <2>3 DEF Defined
  <2> DEFINE g == [n \in 0 .. M |-> IF n = M THEN Seen(k[M - 1], b.events[M]) ELSE k[n]]
  <2>5. M \in Nat /\ M \in 1 .. N /\ M - 1 \in 0 .. M - 1 /\ \A n \in 0 .. M : n # M => n \in 0 .. M - 1
    BY <1>0, <2>1, <2>2
  <2>6. g \in [0 .. M -> Builder]
    <3>1. Seen(k[M - 1], b.events[M]) \in Builder
      BY <1>0, <2>4, <2>5, SeenType
    <3>2. \A n \in 0 .. M : (IF n = M THEN Seen(k[M - 1], b.events[M]) ELSE k[n]) \in Builder
      BY <2>4, <2>5, <3>1
    <3> QED BY <3>2
  <2>7. Runs(g, M)
    <3> SUFFICES ASSUME NEW n \in 0 .. M
                 PROVE  g[n] = IF n = 0 THEN b ELSE Seen(g[n - 1], b.events[n])
      OBVIOUS
    <3>1. CASE n = M
      <4>1. g[M - 1] = k[M - 1] /\ g[M] = Seen(k[M - 1], b.events[M])
        BY <2>5
      <4> HIDE DEF g
      <4> QED BY <2>5, <3>1, <4>1
    <3>2. CASE n # M
      <4>1. n \in 0 .. M - 1 /\ g[n] = k[n]
        BY <2>5, <3>2
      <4>2. k[n] = IF n = 0 THEN b ELSE Seen(k[n - 1], b.events[n])
        BY <2>4, <4>1
      <4>3. n # 0 => g[n - 1] = k[n - 1]
        BY <2>5, <3>2
      <4> HIDE DEF g
      <4> QED BY <4>1, <4>2, <4>3
    <3> QED BY <3>1, <3>2
  <2> HIDE DEF g
  <2>8. Defined(M)
    <3> HIDE DEF Runs
    <3> QED BY <2>6, <2>7 DEF Defined
  <2> QED BY <2>1, <2>8
<1>2. Runs(Views(b), N)
  <2>1. Views(b) = CHOOSE k : Runs(k, N)
    BY Zenon DEF Views
  <2>2. \E k : Runs(k, N)
    BY <1>1
  <2>3. Runs(CHOOSE k : Runs(k, N), N)
    BY <2>2
  <2> HIDE DEF Runs
  <2> QED BY <2>1, <2>3
<1>3. ASSUME NEW n \in 0 .. N
      PROVE  Views(b)[n] \in Builder
  <2> DEFINE Wrong == {m \in 0 .. N : Views(b)[m] \notin Builder}
  <2> SUFFICES ASSUME Wrong # {}
               PROVE  FALSE
    OBVIOUS
  <2>1. Wrong \subseteq Nat
    OBVIOUS
  <2>2. PICK m \in Wrong : \A y \in Wrong : m <= y
    BY <2>1, LeastNatural
  <2>3. m \in 0 .. N /\ Views(b)[m] \notin Builder
    BY <2>2
  <2>4. m # 0
    BY <1>2, <2>3
  <2>5. m - 1 \in 0 .. N /\ ~(m <= m - 1) /\ m \in 1 .. N
    BY <1>0, <2>3, <2>4
  <2>6. Views(b)[m - 1] \in Builder
    BY <2>2, <2>5
  <2>7. Views(b)[m] = Seen(Views(b)[m - 1], b.events[m])
    BY <1>2, <2>3, <2>4
  <2> QED BY <1>0, <2>3, <2>5, <2>6, <2>7, SeenType
<1> QED BY <1>0, <1>2, <1>3 DEF IsViews

(* Two builders agree on blocks and transactions.                           *)
Agree(x, y) == x.loaded = y.loaded /\ x.txs = y.txs

(* An event keeps builders in agreement.                                    *)
LEMMA SeenAgree ==
    ASSUME NEW x \in Builder, NEW y \in Builder, NEW e \in Event, Agree(x, y)
    PROVE  Agree(Seen(x, e), Seen(y, e))
<1>1. CASE e[1] = "added"
  BY <1>1 DEF Agree, Seen, Builder
<1>2. CASE e[1] # "added"
  BY <1>2 DEF Agree, Seen, Builder
<1> QED BY <1>1, <1>2

(***************************************************************************)
(* Builders that agree, one of them after its first d events, and that     *)
(* have the same events on their way from there, will agree after those.   *)
(***************************************************************************)
LEMMA ViewsAgree ==
    ASSUME NEW x \in Builder, NEW y \in Builder, NEW d \in Nat, NEW N \in Nat,
           d + N <= Len(x.events), N <= Len(y.events),
           \A n \in 1 .. N : x.events[d + n] = y.events[n],
           Agree(Views(x)[d], y)
    PROVE  Agree(Views(x)[d + N], Views(y)[N])
<1> DEFINE Wrong == {n \in 0 .. N : ~Agree(Views(x)[d + n], Views(y)[n])}
<1> SUFFICES ASSUME N \in Wrong
             PROVE  FALSE
  OBVIOUS
<1>1. Wrong \subseteq Nat
  OBVIOUS
<1>2. PICK n \in Wrong : \A m \in Wrong : n <= m
  BY <1>1, LeastNatural
<1>3. n \in 0 .. N /\ ~Agree(Views(x)[d + n], Views(y)[n])
  BY <1>2
<1>4. /\ Len(x.events) \in Nat /\ Len(y.events) \in Nat
      /\ \A k \in 0 .. Len(x.events) : Views(x)[k] \in Builder
      /\ \A k \in 0 .. Len(y.events) : Views(y)[k] \in Builder
      /\ \A k \in 1 .. Len(x.events) : Views(x)[k] = Seen(Views(x)[k - 1], x.events[k])
      /\ \A k \in 1 .. Len(y.events) : Views(y)[k] = Seen(Views(y)[k - 1], y.events[k])
      /\ Views(y)[0] = y
  <2>1. IsViews(Views(x), x) /\ IsViews(Views(y), y)
    BY ViewsDefined
  <2>2. Len(x.events) \in Nat /\ Len(y.events) \in Nat
    BY ViewsDefined
  <2>3. /\ \A k \in 0 .. Len(x.events) : Views(x)[k] \in Builder
        /\ \A k \in 0 .. Len(y.events) : Views(y)[k] \in Builder
    BY ViewsDefined
  <2>4. \A b : IsViews(Views(b), b) /\ Len(b.events) \in Nat
                => \A k \in 1 .. Len(b.events) : Views(b)[k] = Seen(Views(b)[k - 1], b.events[k])
    <3> SUFFICES ASSUME NEW b, IsViews(Views(b), b), Len(b.events) \in Nat,
                        NEW k \in 1 .. Len(b.events)
                 PROVE  Views(b)[k] = Seen(Views(b)[k - 1], b.events[k])
      OBVIOUS
    <3>1. k \in 0 .. Len(b.events) /\ k # 0
      OBVIOUS
    <3> QED BY <3>1 DEF IsViews
  <2>5. Views(y)[0] = y
    BY <2>1, <2>2 DEF IsViews
  <2> QED BY <2>1, <2>2, <2>3, <2>4, <2>5
<1>5. n # 0
  BY <1>3, <1>4
<1>6. /\ n - 1 \in 0 .. N /\ ~(n <= n - 1) /\ n \in 1 .. N
      /\ d + (n - 1) = (d + n) - 1
      /\ d + n \in 1 .. Len(x.events) /\ (d + n) - 1 \in 0 .. Len(x.events)
      /\ n \in 1 .. Len(y.events) /\ n - 1 \in 0 .. Len(y.events)
  BY <1>3, <1>4, <1>5
<1>7. Agree(Views(x)[(d + n) - 1], Views(y)[n - 1])
  BY <1>2, <1>6
<1>8. x.events[d + n] = y.events[n] /\ y.events[n] \in Event
  <2>1. y.events \in Seq(Event)
    BY DEF Builder
  <2> QED BY <1>6, <2>1, ElementOfSeq
<1>9. Agree(Seen(Views(x)[(d + n) - 1], y.events[n]), Seen(Views(y)[n - 1], y.events[n]))
  BY <1>4, <1>6, <1>7, <1>8, SeenAgree
<1> QED BY <1>3, <1>4, <1>6, <1>8, <1>9

-----------------------------------------------------------------------------
(* THE INDUCTIVE INVARIANT                                                  *)

(* The genesis states a bootstrap can come to.                              *)
Geneses == {IntoState(config) : config \in {c \in Config : Accepted(c)}}

Retries == 0 .. ShiftBits - 1

StoreType ==
    /\ store \in [cmd : {None, "bootstrap", "start"},
                  step : {"off", "write key", "blocks", "genesis file", "load blocks", "check",
                          "migrate", "hash", "optimize", "save version", "migrated", "serving"},
                  genesis : Geneses \cup {None},
                  dir : AccountsDir \cup {None}]
    /\ store.step = "off" <=> store.cmd = None
    /\ store.cmd = "bootstrap" => store.genesis \in Geneses /\ store.dir \in AccountsDir

Databases ==
    [migrated : BOOLEAN, hash : BOOLEAN, saved : {None} \cup 0 .. 2, schema : 0 .. 2,
     stats : BOOLEAN, genesis : Geneses \cup {None}, tip : -1 .. MaxBlocks]

DiskType ==
    /\ files \in [keys : [AccountsDir -> Geneses \cup {None, Empty}],
                  blocks : Geneses \cup {None, Empty}]
    /\ db \in Databases
    /\ db.tip = -1 <=> db.genesis = None

Producer ==
    [step : {"off", "fetch tip", "bind", "checkpoint", "producing"}, retries : Retries]

FaultCounts ==
    [crash : 0 .. MaxCrashes, port : 0 .. MaxPortsTaken, overflow : 0 .. MaxOverflows]

ComponentType ==
    /\ deployment \in {"bundled", "bundled without ntb", "separate"}
    /\ bp \in Producer
    /\ mempool \in [tip : Int, txs : SUBSET Tx]
    /\ ntb \in Builder
    /\ faults \in FaultCounts

(* What a database that is migrated, or not, has come to.                   *)
Migration ==
    /\ ~db.migrated => /\ ~db.hash /\ ~db.stats
                       /\ db.schema = 0 /\ db.saved = None /\ db.genesis = None
    /\ db.migrated => db.schema = IF db.stats THEN 2 ELSE 1
    /\ db.saved # None => db.hash /\ db.stats /\ db.migrated /\ db.saved = db.schema
    /\ db.genesis # None => db.saved # None

(* What a process has established when it is at a step of apply_migrations  *)
(* or past it.                                                              *)
Migrated ==
    /\ store.step = "migrate" => Supported(db)
    /\ store.step \in {"hash", "optimize", "save version"} => db.migrated
    /\ store.step \in {"optimize", "save version"} => db.hash
    /\ store.step = "save version" => db.stats
    /\ store.step \in {"migrated", "serving"} => db.saved # None

(* How far a bootstrap has come with the files.                             *)
FilesWritten ==
    /\ GenesisConsistent
    /\ store.cmd = "bootstrap" =>
        /\ store.step = "write key" => files.keys[store.dir] = Empty
        /\ store.step # "write key" => files.keys[store.dir] = store.genesis
        /\ store.step = "genesis file" => files.blocks = Empty
        /\ store.step \in {"check", "migrate", "hash", "optimize", "save version", "migrated"}
           => files.blocks = store.genesis
        /\ store.step \notin {"load blocks", "serving"}

(* Without a start command a bundled node has no component.                 *)
OneProcess ==
    Bundled /\ store.cmd # "start" =>
        bp = NoProducer /\ mempool = NoMempool /\ ntb = NoBuilder

(* A block producer past its start is on the store's tip.                   *)
OnTip ==
    /\ mempool.tip # -1 <=> bp.step \in {"bind", "checkpoint", "producing"}
    /\ bp.step \in {"bind", "checkpoint", "producing"} =>
           db.genesis # None /\ mempool.tip = db.tip

(* No block is produced while the builder starts, so what it loaded is the  *)
(* store's tip until it subscribes.                                         *)
BuilderStarted ==
    /\ ntb.step # "off" => deployment = "bundled"
    /\ deployment = "bundled" /\ bp.step = "producing" => ntb.step \in {"checkpoint", "running"}
    /\ ntb.step \in {"checkpoint", "running"} => bp.step \in {"checkpoint", "producing"}
    /\ ntb.step \notin {"checkpoint", "running"} => ntb.events = <<>>
    /\ ntb.step \in {"chain tip", "subscribe"} => ntb.loaded = db.tip
    /\ ntb.step = "subscribe" => ntb.tip = db.tip

Inv ==
    /\ StoreType /\ DiskType /\ ComponentType
    /\ Migration /\ Migrated /\ FilesWritten
    /\ OneProcess /\ OnTip /\ BuilderStarted /\ BuilderInSync

(* A genesis state is neither nothing nor an empty file.                    *)
LEMMA GenesisIsSomething == \A g \in Geneses : g \notin {None, Empty}
BY NodeAssumption DEF Geneses

(* The bounds and the width of the retry counter are numbers.               *)
LEMMA BoundsAreNaturals ==
    /\ ShiftBits \in Nat /\ ShiftBits > 0 /\ MaxBlocks \in Nat
    /\ MaxCrashes \in Nat /\ MaxPortsTaken \in Nat /\ MaxOverflows \in Nat
    /\ None \notin Nat
BY NodeAssumption

(* Components that have ended, or have not started, have their types.       *)
LEMMA OffComponents ==
    /\ NoProducer \in Producer
    /\ NoMempool \in [tip : Int, txs : SUBSET Tx]
    /\ NoBuilder \in Builder
<1>1. 0 \in Retries /\ -1 \in Int
  BY BoundsAreNaturals DEF Retries
<1>2. NoProducer \in Producer
  BY <1>1 DEF NoProducer, Producer
<1>3. NoMempool \in [tip : Int, txs : SUBSET Tx]
  BY <1>1 DEF NoMempool
<1>4. NoBuilder \in Builder
  <2>1. <<>> \in Seq(Event) /\ {} \in SUBSET Tx
    OBVIOUS
  <2> QED BY <1>1, <2>1 DEF NoBuilder, Builder, Retries
<1> QED BY <1>2, <1>3, <1>4

(* A counted fault stays within its bound.                                  *)
LEMMA FaultType ==
    ASSUME Inv,
           \/ UNCHANGED faults
           \/ Fault("crash", MaxCrashes)
           \/ Fault("port", MaxPortsTaken)
           \/ Fault("overflow", MaxOverflows)
    PROVE  faults' \in FaultCounts
<1>0. faults \in FaultCounts
  BY DEF Inv, ComponentType
<1>1. CASE UNCHANGED faults
  BY <1>0, <1>1
<1>2. CASE Fault("crash", MaxCrashes)
  <2>1. faults.crash + 1 \in 0 .. MaxCrashes
    BY <1>0, <1>2, BoundsAreNaturals DEF Fault, FaultCounts
  <2> QED BY <1>0, <1>2, <2>1 DEF Fault, FaultCounts
<1>3. CASE Fault("port", MaxPortsTaken)
  <2>1. faults.port + 1 \in 0 .. MaxPortsTaken
    BY <1>0, <1>3, BoundsAreNaturals DEF Fault, FaultCounts
  <2> QED BY <1>0, <1>3, <2>1 DEF Fault, FaultCounts
<1>4. CASE Fault("overflow", MaxOverflows)
  <2>1. faults.overflow + 1 \in 0 .. MaxOverflows
    BY <1>0, <1>4, BoundsAreNaturals DEF Fault, FaultCounts
  <2> QED BY <1>0, <1>4, <2>1 DEF Fault, FaultCounts
<1> QED BY <1>1, <1>2, <1>3, <1>4

(* The retry counter wraps within its width.                                *)
LEMMA RetriedType ==
    ASSUME NEW k \in Retries
    PROVE  Retried(k) \in Retries
<1>1. \A n \in Nat : k \in 0 .. n - 1 => (k + 1) % n \in 0 .. n - 1
  OBVIOUS
<1> QED BY <1>1, BoundsAreNaturals DEF Retried, Retries

(* A notified builder has its type.                                         *)
LEMMA NotifyType ==
    ASSUME Inv, NEW e \in Event, Notify(e)
    PROVE  ntb' \in Builder
<1>0. ntb \in Builder /\ ntb.events \in Seq(Event)
  BY DEF Inv, ComponentType, Builder
<1>1. Append(ntb.events, e) \in Seq(Event)
  BY <1>0, AppendProperties
<1>2. ntb' = ntb \/ ntb' = [ntb EXCEPT !.events = Append(ntb.events, e)]
  BY DEF Notify
<1> QED BY <1>0, <1>1, <1>2 DEF Builder

(* The number of the last block, or -1, is an integer.                      *)
LEMMA TipType ==
    ASSUME Inv
    PROVE  db.tip \in Int
<1>1. db.tip \in -1 .. MaxBlocks
  BY DEF Inv, DiskType, Databases
<1> QED BY <1>1

(* A process that has ended is off.                                         *)
LEMMA OffType ==
    /\ NoStore.step = "off" /\ NoStore.cmd = None
    /\ None \notin {"bootstrap", "start"}
    /\ store' = NoStore => StoreType'
<1>1. None \notin {"bootstrap", "start"}
  BY NodeAssumption
<1>2. store' = NoStore => StoreType'
  BY <1>1 DEF NoStore, StoreType
<1>3. NoStore.step = "off" /\ NoStore.cmd = None
  BY DEF NoStore
<1> QED BY <1>1, <1>2, <1>3

(* The process on the directory is at a step of its command.                *)
LEMMA StoreTypeStep == Inv /\ [Next]_vars => StoreType'
<1> SUFFICES ASSUME Inv, [Next]_vars
             PROVE  StoreType'
  OBVIOUS
<1>1. CASE StartProducer \/ PassCheckpoint \/ LoadNotes \/ GetCurrentBlockchainData \/
           ReceiveEvent \/ OptimizeDb \/ SubmitProvenTransaction \/ SubmitNetworkTransaction \/
           ProduceBlock
  <2>1. UNCHANGED store
    BY <1>1 DEF Add, GetCurrentBlockchainData, LoadNotes, Notify, OptimizeDb, PassCheckpoint,
       ProduceBlock, ReceiveEvent, StartProducer, SubmitNetworkTransaction,
       SubmitProvenTransaction, Fixed, Running
  <2> QED BY <2>1 DEF Inv, StoreType
<1>2. CASE OpenAccountFile
  <2>1. PICK config \in Config, d \in AccountsDir :
          /\ Accepted(config)
          /\ store' = [cmd |-> "bootstrap", step |-> "write key",
                       genesis |-> IntoState(config), dir |-> d]
    BY <1>2 DEF OpenAccountFile
  <2>2. PICK g : g = IntoState(config)
    OBVIOUS
  <2>3. g \in Geneses
    BY <2>1, <2>2 DEF Geneses
  <2> QED BY <2>1, <2>2, <2>3, OffType DEF StoreType
<1>3. CASE WriteAccountFile
  BY <1>3, OffType
  DEF Inv, StoreType, WriteAccountFile, At, Proceed, Fixed, Running
<1>4. CASE CreateBlockStore
  <2>1. \/ store' = NoStore
        \/ store.step # "off" /\ store' = [store EXCEPT !.step = "genesis file"]
    BY <1>4 DEF Inv, StoreType, CreateBlockStore, At, Proceed, Fixed, Running
  <2> QED BY <2>1, OffType DEF Inv, StoreType
<1>5. CASE SaveGenesisFile
  BY <1>5, OffType
  DEF Inv, StoreType, SaveGenesisFile, At, Proceed, Fixed, Running
<1>6. CASE InsertGenesis
  BY <1>6, OffType DEF InsertGenesis
<1>7. CASE Start
  BY <1>7, OffType
  DEF Inv, StoreType, Start, NoStore, Fixed, Running
<1>8. CASE CheckVersion
  <2>1. \/ store' = NoStore
        \/ store.step # "off" /\ store' = [store EXCEPT !.step = "migrate"]
    BY <1>8 DEF Inv, StoreType, CheckVersion, Migrating, Proceed, EndStore, EndAll, Fixed, Running
  <2> QED BY <2>1, OffType DEF Inv, StoreType
<1>9. CASE Migrate
  BY <1>9, OffType
  DEF Inv, StoreType, Migrate, Migrating, Proceed, Fixed, Running
<1>10. CASE SaveHash
  BY <1>10, OffType
  DEF Inv, StoreType, SaveHash, Migrating, Proceed, Fixed, Running
<1>11. CASE Optimize
  BY <1>11, OffType
  DEF Inv, StoreType, Optimize, Migrating, Proceed, Analyzed, Fixed, Running
<1>12. CASE SaveVersion
  BY <1>12, OffType
  DEF Inv, StoreType, SaveVersion, Migrating, Proceed, VersionToSave, Fixed, Running
<1>13. CASE LoadBlockStore
  <2>1. \/ store' = NoStore
        \/ store.step # "off" /\ store' = [store EXCEPT !.step = "check"]
    BY <1>13 DEF Inv, StoreType, LoadBlockStore, At, Proceed, EndStore, EndAll, Fixed, Running
  <2> QED BY <2>1, OffType DEF Inv, StoreType
<1>14. CASE Serve
  BY <1>14, OffType
  DEF Inv, StoreType, Serve, At, Proceed, Fixed, Running
<1>15. CASE RetryTip
  <2>1. store' = store \/ store' = NoStore
    BY <1>15 DEF RetryTip, EndProducer, EndAll, Fixed, Running
  <2> QED BY <2>1, OffType DEF Inv, StoreType
<1>16. CASE FetchTip
  <2>1. store' = store \/ store' = NoStore
    BY <1>16 DEF FetchTip, EndProducer, EndAll, Fixed, Running
  <2> QED BY <2>1, OffType DEF Inv, StoreType
<1>17. CASE Bind
  <2>1. store' = store \/ store' = NoStore
    BY <1>17 DEF Bind, EndProducer, EndAll, Fixed, Running
  <2> QED BY <2>1, OffType DEF Inv, StoreType
<1>18. CASE FetchGenesis
  <2>1. store' = store \/ store' = NoStore
    BY <1>18 DEF FetchGenesis, EndAll, Fixed, Running
  <2> QED BY <2>1, OffType DEF Inv, StoreType
<1>19. CASE RetrySubscribe
  <2>1. store' = store \/ store' = NoStore
    BY <1>19 DEF RetrySubscribe, EndAll, Fixed, Running
  <2> QED BY <2>1, OffType DEF Inv, StoreType
<1>20. CASE Subscribe
  <2>1. store' = store \/ store' = NoStore
    BY <1>20 DEF Subscribe, EndAll, Fixed, Running
  <2> QED BY <2>1, OffType DEF Inv, StoreType
<1>21. CASE Crash
  <2>1. store' = store \/ store' = NoStore
    BY <1>21 DEF Crash, EndStore, EndProducer, EndAll, Fixed, Running
  <2> QED BY <2>1, OffType DEF Inv, StoreType
<1>22. CASE UNCHANGED vars
  BY <1>22 DEF vars, Inv, StoreType
<1> QED
  BY <1>1, <1>2, <1>3, <1>4, <1>5, <1>6, <1>7, <1>8, <1>9, <1>10, <1>11, <1>12, <1>13,
     <1>14, <1>15, <1>16, <1>17, <1>18, <1>19, <1>20, <1>21, <1>22
  DEF Next, Bootstrap, StoreStep, ProducerStep, BuilderStep

(* An analysis of a migrated database leaves its statistics and the schema  *)
(* version that goes with them.                                             *)
LEMMA AnalyzedIs ==
    ASSUME Inv, db.migrated
    PROVE  /\ Analyzed(db) = [[db EXCEPT !.stats = TRUE] EXCEPT !.schema = 2]
           /\ db.stats => Analyzed(db) = db
<1>1. db.schema = IF db.stats THEN 2 ELSE 1
  BY DEF Inv, Migration
<1>2. Analyzed(db) = [[db EXCEPT !.stats = TRUE] EXCEPT !.schema = 2]
  <2>1. CASE db.stats
    BY <1>1, <2>1 DEF Analyzed, Inv, DiskType, Databases
  <2>2. CASE ~db.stats
    BY <1>1, <2>2 DEF Analyzed, Inv, DiskType, Databases
  <2> QED BY <2>1, <2>2
<1>3. db.stats => Analyzed(db) = db
  BY <1>1 DEF Analyzed, Inv, DiskType, Databases
<1> QED BY <1>2, <1>3

(* What is on disk has its types.                                           *)
LEMMA DiskTypeStep == Inv /\ [Next]_vars => DiskType'
<1> SUFFICES ASSUME Inv, [Next]_vars
             PROVE  DiskType'
  OBVIOUS
<1>1. CASE Start \/ StartProducer \/ CheckVersion \/ LoadBlockStore \/ Serve \/ RetryTip \/
           FetchTip \/ Bind \/ PassCheckpoint \/ FetchGenesis \/ LoadNotes \/
           GetCurrentBlockchainData \/ RetrySubscribe \/ Subscribe \/ ReceiveEvent \/
           SubmitProvenTransaction \/ SubmitNetworkTransaction \/ Crash
  <2>1. UNCHANGED <<files, db>>
    BY <1>1 DEF Add, Bind, CheckVersion, Crash, Fault, FetchGenesis, FetchTip,
       GetCurrentBlockchainData, LoadBlockStore, LoadNotes, Notify, PassCheckpoint,
       ReceiveEvent, RetrySubscribe, RetryTip, Serve, Start, StartProducer,
       SubmitNetworkTransaction, SubmitProvenTransaction, Subscribe, Fixed, Running
  <2> QED BY <2>1 DEF Inv, DiskType, Databases
<1>2. CASE OpenAccountFile
  <2>1. PICK d \in AccountsDir : files' = [files EXCEPT !.keys[d] = Empty]
    BY <1>2 DEF OpenAccountFile
  <2>2. db' = db
    BY <1>2 DEF OpenAccountFile
  <2> QED BY <2>1, <2>2 DEF Inv, DiskType, Databases
<1>3. CASE WriteAccountFile
  BY <1>3
  DEF Inv, DiskType, Databases, StoreType, WriteAccountFile, At, Proceed, Fixed, Running
<1>4. CASE CreateBlockStore
  <2>1. files' = files \/ files' = [files EXCEPT !.blocks = Empty]
    BY <1>4 DEF CreateBlockStore
  <2>2. db' = db
    BY <1>4 DEF CreateBlockStore
  <2> QED BY <2>1, <2>2 DEF Inv, DiskType, Databases
<1>5. CASE SaveGenesisFile
  BY <1>5
  DEF Inv, DiskType, Databases, StoreType, SaveGenesisFile, At, Proceed, Fixed, Running
<1>6. CASE InsertGenesis
  <2>1. files' = files /\ store.genesis \in Geneses /\ store.genesis # None
    BY <1>6, GenesisIsSomething DEF InsertGenesis, At, Inv, StoreType
  <2>2. CASE db' = db
    BY <2>1, <2>2 DEF Inv, DiskType, Databases
  <2>3. CASE db' = [db EXCEPT !.genesis = store.genesis, !.tip = 0]
    <3>1. 0 \in -1 .. MaxBlocks
      BY BoundsAreNaturals
    <3>2. /\ db' = [migrated |-> db.migrated, hash |-> db.hash, saved |-> db.saved,
                    schema |-> db.schema, stats |-> db.stats,
                    genesis |-> store.genesis, tip |-> 0]
      BY <2>3 DEF Inv, DiskType, Databases
    <3> QED BY <2>1, <3>1, <3>2 DEF Inv, DiskType, Databases
  <2> QED BY <1>6, <2>2, <2>3 DEF InsertGenesis
<1>7. CASE Migrate
  <2>1. files' = files
    BY <1>7 DEF Migrate
  <2>2. CASE db' = db
    BY <2>1, <2>2 DEF Inv, DiskType, Databases
  <2>3. CASE db.migrated = FALSE /\ db' = [db EXCEPT !.migrated = TRUE, !.schema = @ + 1]
    <3>1. db.schema = 0
      BY <2>3 DEF Inv, Migration
    <3>2. db' = [[db EXCEPT !.migrated = TRUE] EXCEPT !.schema = 1]
      BY <2>3, <3>1 DEF Inv, DiskType, Databases
    <3>3. [db EXCEPT !.migrated = TRUE] \in Databases
      BY DEF Inv, DiskType, Databases
    <3>4. \A d \in Databases : [d EXCEPT !.schema = 1] \in Databases
      BY DEF Databases
    <3>5. db' \in Databases
      BY <3>2, <3>3, <3>4
    <3>6. db'.tip = db.tip /\ db'.genesis = db.genesis
      BY <3>2 DEF Inv, DiskType, Databases
    <3> QED BY <2>1, <3>5, <3>6 DEF Inv, DiskType
  <2>4. db.migrated \in BOOLEAN
    BY DEF Inv, DiskType, Databases
  <2> QED BY <1>7, <2>2, <2>3, <2>4 DEF Migrate
<1>8. CASE SaveHash
  BY <1>8
  DEF Inv, DiskType, Databases, StoreType, SaveHash, Migrating, Proceed, Fixed, Running
<1>9. CASE Optimize
  <2>1. files' = files /\ db' = Analyzed(db) /\ db.migrated
    BY <1>9, NodeAssumption DEF Optimize, Serving, At, Migrating, Inv, Migration, Migrated, DiskType, Databases
  <2>2. db' = [[db EXCEPT !.stats = TRUE] EXCEPT !.schema = 2]
    BY <2>1, AnalyzedIs
  <2>3. [db EXCEPT !.stats = TRUE] \in Databases
    BY DEF Inv, DiskType, Databases
  <2>4. \A d \in Databases : [d EXCEPT !.schema = 2] \in Databases
    BY DEF Databases
  <2>5. db' \in Databases
    BY <2>2, <2>3, <2>4
  <2>6. db'.tip = db.tip /\ db'.genesis = db.genesis
    BY <2>2 DEF Inv, DiskType, Databases
  <2> QED BY <2>1, <2>5, <2>6 DEF Inv, DiskType
<1>10. CASE SaveVersion
  <2>1. files' = files /\ db' = [db EXCEPT !.saved = db.schema]
    BY <1>10 DEF SaveVersion, VersionToSave
  <2> QED BY <2>1 DEF Inv, DiskType, Databases
<1>11. CASE OptimizeDb
  <2>1. files' = files /\ db' = Analyzed(db) /\ db.migrated
    BY <1>11, NodeAssumption DEF OptimizeDb, Serving, At, Migrating, Inv, Migration, Migrated, DiskType, Databases
  <2>2. db' = [[db EXCEPT !.stats = TRUE] EXCEPT !.schema = 2]
    BY <2>1, AnalyzedIs
  <2>3. [db EXCEPT !.stats = TRUE] \in Databases
    BY DEF Inv, DiskType, Databases
  <2>4. \A d \in Databases : [d EXCEPT !.schema = 2] \in Databases
    BY DEF Databases
  <2>5. db' \in Databases
    BY <2>2, <2>3, <2>4
  <2>6. db'.tip = db.tip /\ db'.genesis = db.genesis
    BY <2>2 DEF Inv, DiskType, Databases
  <2> QED BY <2>1, <2>5, <2>6 DEF Inv, DiskType
<1>12. CASE ProduceBlock
  <2>1. files' = files /\ db' = [db EXCEPT !.tip = db.tip + 1]
    BY <1>12 DEF ProduceBlock
  <2>2. db.tip # -1 /\ db.tip \in -1 .. MaxBlocks /\ db.tip < MaxBlocks
    BY <1>12 DEF ProduceBlock, Inv, OnTip, DiskType, Databases
  <2>3. db.tip + 1 \in -1 .. MaxBlocks /\ db.tip + 1 # -1
    BY <2>2, BoundsAreNaturals
  <2> QED BY <2>1, <2>2, <2>3 DEF Inv, DiskType, Databases
<1>13. CASE UNCHANGED vars
  BY <1>13 DEF vars, Inv, DiskType, Databases
<1> QED
  BY <1>1, <1>2, <1>3, <1>4, <1>5, <1>6, <1>7, <1>8, <1>9, <1>10, <1>11, <1>12, <1>13
  DEF Next, Bootstrap, StoreStep, ProducerStep, BuilderStep

(* The components and the fault counters have their types.                  *)
LEMMA ComponentTypeStep == Inv /\ [Next]_vars => ComponentType'
<1> SUFFICES ASSUME Inv, [Next]_vars
             PROVE  ComponentType'
  OBVIOUS
<1>1. CASE OpenAccountFile \/ WriteAccountFile \/ CreateBlockStore \/ SaveGenesisFile \/
           InsertGenesis \/ Migrate \/ SaveHash \/ Optimize \/ SaveVersion \/ Serve \/
           OptimizeDb
  <2>1. UNCHANGED <<deployment, bp, mempool, ntb, faults>>
    BY <1>1 DEF CreateBlockStore, InsertGenesis, Migrate, OpenAccountFile, Optimize, OptimizeDb,
       SaveGenesisFile, SaveHash, SaveVersion, Serve, WriteAccountFile, Fixed, Running
  <2> QED BY <2>1 DEF Inv, ComponentType
<1>2. CASE Start
  <2>1. /\ deployment' = deployment /\ faults' = faults /\ mempool' = mempool
        /\ bp' \in {bp, [bp EXCEPT !.step = "fetch tip"]}
        /\ ntb' \in {ntb, [ntb EXCEPT !.step = "genesis"]}
    BY <1>2 DEF Start, Fixed
  <2>2. bp' \in Producer
    BY <2>1 DEF Inv, ComponentType, Producer
  <2>3. ntb' \in Builder
    BY <2>1 DEF Inv, ComponentType, Builder
  <2> QED BY <2>1, <2>2, <2>3 DEF Inv, ComponentType
<1>3. CASE StartProducer
  <2>1. /\ UNCHANGED <<deployment, faults, mempool, ntb>>
        /\ bp' = [bp EXCEPT !.step = "fetch tip"]
    BY <1>3 DEF StartProducer, Fixed
  <2>2. bp' \in Producer
    BY <2>1 DEF Inv, ComponentType, Producer
  <2> QED BY <2>1, <2>2 DEF Inv, ComponentType
<1>4. CASE CheckVersion
  <2>1. deployment' = deployment /\ faults' \in FaultCounts
    BY <1>4, FaultType DEF CheckVersion, Fixed, Running
  <2>2. /\ bp' \in {bp, NoProducer} /\ mempool' \in {mempool, NoMempool}
        /\ ntb' \in {ntb, NoBuilder}
    BY <1>4 DEF CheckVersion, EndStore, EndAll, Running
  <2> QED BY <2>1, <2>2, OffComponents DEF Inv, ComponentType
<1>5. CASE LoadBlockStore
  <2>1. deployment' = deployment /\ faults' \in FaultCounts
    BY <1>5, FaultType DEF LoadBlockStore, Fixed, Running
  <2>2. /\ bp' \in {bp, NoProducer} /\ mempool' \in {mempool, NoMempool}
        /\ ntb' \in {ntb, NoBuilder}
    BY <1>5 DEF LoadBlockStore, EndStore, EndAll, Running
  <2> QED BY <2>1, <2>2, OffComponents DEF Inv, ComponentType
<1>6. CASE RetryTip
  <2>1. deployment' = deployment /\ faults' \in FaultCounts
    BY <1>6, FaultType DEF RetryTip, Fixed
  <2>2. \/ /\ bp' \in {bp, NoProducer} /\ mempool' \in {mempool, NoMempool}
           /\ ntb' \in {ntb, NoBuilder}
        \/ bp' = [bp EXCEPT !.retries = Retried(bp.retries)] /\ UNCHANGED <<mempool, ntb>>
    BY <1>6 DEF RetryTip, EndProducer, EndAll
  <2>3. [bp EXCEPT !.retries = Retried(bp.retries)] \in Producer
    BY RetriedType DEF Inv, ComponentType, Producer
  <2> QED BY <2>1, <2>2, <2>3, OffComponents DEF Inv, ComponentType
<1>7. CASE FetchTip
  <2>1. deployment' = deployment /\ faults' \in FaultCounts
    BY <1>7, FaultType DEF FetchTip, Fixed
  <2>2. \/ /\ bp' \in {bp, NoProducer} /\ mempool' \in {mempool, NoMempool}
           /\ ntb' \in {ntb, NoBuilder}
        \/ /\ bp' = [bp EXCEPT !.step = "bind"] /\ UNCHANGED ntb
           /\ mempool' = [NoMempool EXCEPT !.tip = db.tip]
    BY <1>7 DEF FetchTip, EndProducer, EndAll
  <2>3. /\ [bp EXCEPT !.step = "bind"] \in Producer
        /\ [NoMempool EXCEPT !.tip = db.tip] \in [tip : Int, txs : SUBSET Tx]
    BY TipType DEF Inv, ComponentType, Producer, NoMempool
  <2> QED BY <2>1, <2>2, <2>3, OffComponents DEF Inv, ComponentType
<1>8. CASE Bind
  <2>1. deployment' = deployment /\ faults' \in FaultCounts
    BY <1>8, FaultType DEF Bind, Fixed
  <2>2. \/ /\ bp' \in {bp, NoProducer} /\ mempool' \in {mempool, NoMempool}
           /\ ntb' \in {ntb, NoBuilder}
        \/ bp' = [bp EXCEPT !.step = "checkpoint"] /\ UNCHANGED <<mempool, ntb>>
    BY <1>8 DEF Bind, EndProducer, EndAll
  <2>3. [bp EXCEPT !.step = "checkpoint"] \in Producer
    BY DEF Inv, ComponentType, Producer
  <2> QED BY <2>1, <2>2, <2>3, OffComponents DEF Inv, ComponentType
<1>9. CASE PassCheckpoint
  <2>1. /\ UNCHANGED <<deployment, faults, mempool>>
        /\ bp' = [bp EXCEPT !.step = "producing"]
        /\ ntb' \in {ntb, [ntb EXCEPT !.step = "running"]}
    BY <1>9 DEF PassCheckpoint, Fixed
  <2>2. bp' \in Producer
    BY <2>1 DEF Inv, ComponentType, Producer
  <2>3. ntb' \in Builder
    BY <2>1 DEF Inv, ComponentType, Builder
  <2> QED BY <2>1, <2>2, <2>3 DEF Inv, ComponentType
<1>10. CASE FetchGenesis
  <2>1. deployment' = deployment /\ faults' \in FaultCounts
    BY <1>10, FaultType DEF FetchGenesis, Fixed
  <2>2. \/ /\ bp' \in {bp, NoProducer} /\ mempool' \in {mempool, NoMempool}
           /\ ntb' \in {ntb, NoBuilder}
        \/ ntb' = [ntb EXCEPT !.step = "load"] /\ UNCHANGED <<bp, mempool>>
    BY <1>10 DEF FetchGenesis, EndAll
  <2>3. [ntb EXCEPT !.step = "load"] \in Builder
    BY DEF Inv, ComponentType, Builder
  <2> QED BY <2>1, <2>2, <2>3, OffComponents DEF Inv, ComponentType
<1>11. CASE LoadNotes
  <2>1. /\ UNCHANGED <<deployment, faults, mempool, bp>>
        /\ ntb' = [ntb EXCEPT !.step = "chain tip", !.loaded = db.tip]
    BY <1>11 DEF LoadNotes, Fixed
  <2>2. ntb' \in Builder
    BY <2>1, TipType DEF Inv, ComponentType, Builder
  <2> QED BY <2>1, <2>2 DEF Inv, ComponentType
<1>12. CASE GetCurrentBlockchainData
  <2>1. /\ UNCHANGED <<deployment, faults, mempool, bp>>
        /\ ntb' = [ntb EXCEPT !.step = "subscribe", !.tip = db.tip]
    BY <1>12 DEF GetCurrentBlockchainData, Fixed
  <2>2. ntb' \in Builder
    BY <2>1, TipType DEF Inv, ComponentType, Builder
  <2> QED BY <2>1, <2>2 DEF Inv, ComponentType
<1>13. CASE RetrySubscribe
  <2>1. deployment' = deployment /\ faults' \in FaultCounts
    BY <1>13, FaultType DEF RetrySubscribe, Fixed
  <2>2. \/ /\ bp' \in {bp, NoProducer} /\ mempool' \in {mempool, NoMempool}
           /\ ntb' \in {ntb, NoBuilder}
        \/ ntb' = [ntb EXCEPT !.retries = Retried(ntb.retries)] /\ UNCHANGED <<bp, mempool>>
    BY <1>13 DEF RetrySubscribe, EndAll
  <2>3. [ntb EXCEPT !.retries = Retried(ntb.retries)] \in Builder
    BY RetriedType DEF Inv, ComponentType, Builder, Retries
  <2> QED BY <2>1, <2>2, <2>3, OffComponents DEF Inv, ComponentType
<1>14. CASE Subscribe
  <2>1. deployment' = deployment /\ faults' \in FaultCounts
    BY <1>14, FaultType DEF Subscribe, Fixed
  <2>2. \/ /\ bp' \in {bp, NoProducer} /\ mempool' \in {mempool, NoMempool}
           /\ ntb' \in {ntb, NoBuilder}
        \/ ntb' = [ntb EXCEPT !.step = "checkpoint", !.txs = mempool.txs] /\ UNCHANGED <<bp, mempool>>
    BY <1>14 DEF Subscribe, EndAll
  <2>3. [ntb EXCEPT !.step = "checkpoint", !.txs = mempool.txs] \in Builder
    BY DEF Inv, ComponentType, Builder
  <2> QED BY <2>1, <2>2, <2>3, OffComponents DEF Inv, ComponentType
<1>15. CASE ReceiveEvent
  <2>1. /\ UNCHANGED <<deployment, faults, mempool, bp>>
        /\ ntb.events # <<>>
        /\ ntb' = [Seen(ntb, Head(ntb.events)) EXCEPT !.events = Tail(@)]
    BY <1>15 DEF ReceiveEvent, Fixed
  <2>2. ntb \in Builder /\ ntb.events \in Seq(Event)
    BY DEF Inv, ComponentType, Builder
  <2>3. Head(ntb.events) \in Event
    BY <2>1, <2>2, HeadTailProperties
  <2>4. PICK s \in Builder : s = Seen(ntb, Head(ntb.events))
    BY <2>2, <2>3, SeenType
  <2>5. s.events = ntb.events
    BY <2>2, <2>4 DEF Seen, Builder
  <2>6. Tail(s.events) \in Seq(Event)
    BY <2>1, <2>2, <2>5, HeadTailProperties
  <2>7. ntb' \in Builder
    BY <2>1, <2>4, <2>6 DEF Builder
  <2> QED BY <2>1, <2>7 DEF Inv, ComponentType
<1>16. CASE SubmitProvenTransaction
  <2>1. PICK t \in Tx : Add(t)
    BY <1>16, NodeAssumption DEF SubmitProvenTransaction
  <2>2. /\ UNCHANGED <<deployment, faults, bp>>
        /\ mempool' = [mempool EXCEPT !.txs = mempool.txs \cup {t}]
        /\ Notify(<<"added", t>>)
    BY <2>1 DEF Add, Fixed
  <2>3. <<"added", t>> \in Event
    BY DEF Event
  <2>4. ntb' \in Builder
    BY <2>2, <2>3, NotifyType
  <2> QED BY <2>2, <2>4 DEF Inv, ComponentType
<1>17. CASE SubmitNetworkTransaction
  <2>1. PICK t \in Tx : Add(t)
    BY <1>17, NodeAssumption DEF SubmitNetworkTransaction
  <2>2. /\ UNCHANGED <<deployment, faults, bp>>
        /\ mempool' = [mempool EXCEPT !.txs = mempool.txs \cup {t}]
        /\ Notify(<<"added", t>>)
    BY <2>1 DEF Add, Fixed
  <2>3. <<"added", t>> \in Event
    BY DEF Event
  <2>4. ntb' \in Builder
    BY <2>2, <2>3, NotifyType
  <2> QED BY <2>2, <2>4 DEF Inv, ComponentType
<1>18. CASE ProduceBlock
  <2>1. /\ UNCHANGED <<deployment, faults, bp>>
        /\ mempool' = [tip |-> mempool.tip + 1, txs |-> {}]
        /\ Notify(<<"committed", mempool.txs>>)
    BY <1>18 DEF ProduceBlock, Fixed
  <2>2. mempool.txs \in SUBSET Tx /\ mempool.tip \in Int
    BY DEF Inv, ComponentType
  <2>3. <<"committed", mempool.txs>> \in Event
    BY <2>2 DEF Event
  <2>4. ntb' \in Builder
    BY <2>1, <2>3, NotifyType
  <2>5. mempool.tip + 1 \in Int
    BY <2>2
  <2> QED BY <2>1, <2>4, <2>5 DEF Inv, ComponentType
<1>19. CASE Crash
  <2>1. deployment' = deployment /\ faults' \in FaultCounts
    BY <1>19, FaultType DEF Crash, Fixed, Running
  <2>2. /\ bp' \in {bp, NoProducer} /\ mempool' \in {mempool, NoMempool}
        /\ ntb' \in {ntb, NoBuilder}
    BY <1>19 DEF Crash, EndStore, EndProducer, EndAll, Running
  <2> QED BY <2>1, <2>2, OffComponents DEF Inv, ComponentType
<1>20. CASE UNCHANGED vars
  BY <1>20 DEF vars, Inv, ComponentType
<1> QED
  BY <1>1, <1>2, <1>3, <1>4, <1>5, <1>6, <1>7, <1>8, <1>9, <1>10, <1>11, <1>12, <1>13,
     <1>14, <1>15, <1>16, <1>17, <1>18, <1>19, <1>20
  DEF Next, Bootstrap, StoreStep, ProducerStep, BuilderStep

(***************************************************************************)
(* A database is migrated, hashed, analysed and has its version saved in   *)
(* this order, and a process knows how far it is, whatever crashes.        *)
(***************************************************************************)
LEMMA MigrationStep == Inv /\ [Next]_vars => (Migration /\ Migrated)'
<1> SUFFICES ASSUME Inv, [Next]_vars
             PROVE  (Migration /\ Migrated)'
  OBVIOUS
<1>1. CASE StartProducer \/ PassCheckpoint \/ LoadNotes \/ GetCurrentBlockchainData \/
           ReceiveEvent \/ SubmitProvenTransaction \/ SubmitNetworkTransaction
  <2>1. UNCHANGED <<store, db>>
    BY <1>1 DEF Add, GetCurrentBlockchainData, LoadNotes, Notify, PassCheckpoint, ReceiveEvent,
       StartProducer, SubmitNetworkTransaction, SubmitProvenTransaction, Fixed, Running
  <2> QED BY <2>1 DEF Inv, Migration, Migrated, Supported
<1>2. CASE OpenAccountFile
  <2>1. PICK g, d : store' = [cmd |-> "bootstrap", step |-> "write key", genesis |-> g, dir |-> d]
    BY <1>2 DEF OpenAccountFile
  <2>2. db' = db /\ store'.step = "write key"
    BY <1>2, <2>1 DEF OpenAccountFile
  <2> QED BY <2>2 DEF Inv, Migration, Migrated
<1>3. CASE WriteAccountFile
  <2>1. db' = db /\ store'.step \in {"blocks"}
    BY <1>3, OffType DEF WriteAccountFile, At, Proceed, Inv, StoreType
  <2> QED BY <2>1 DEF Inv, Migration, Migrated, Supported
<1>4. CASE CreateBlockStore
  <2>1. db' = db /\ store'.step \in {"off", "genesis file"}
    BY <1>4, OffType DEF CreateBlockStore, At, Proceed, Inv, StoreType
  <2> QED BY <2>1 DEF Inv, Migration, Migrated, Supported
<1>5. CASE SaveGenesisFile
  <2>1. db' = db /\ store'.step \in {"check"}
    BY <1>5, OffType DEF SaveGenesisFile, At, Proceed, Inv, StoreType
  <2> QED BY <2>1 DEF Inv, Migration, Migrated, Supported
<1>6. CASE InsertGenesis
  <2>1. store'.step = "off" /\ store.step = "migrated" /\ db.saved # None
    BY <1>6, OffType DEF InsertGenesis, At, Inv, Migrated
  <2>2. /\ db'.migrated = db.migrated /\ db'.hash = db.hash /\ db'.stats = db.stats
        /\ db'.schema = db.schema /\ db'.saved = db.saved
    BY <1>6, OffType DEF InsertGenesis, Inv, DiskType, Databases
  <2> QED BY <2>1, <2>2 DEF Inv, Migration, Migrated
<1>7. CASE Start
  <2>1. db' = db /\ store'.step \in {"load blocks"}
    BY <1>7, OffType DEF Start, Inv, StoreType
  <2> QED BY <2>1 DEF Inv, Migration, Migrated, Supported
<1>8. CASE CheckVersion
  <2>1. db' = db /\ (store'.step = "off" \/ (store'.step = "migrate" /\ Supported(db)))
    BY <1>8, OffType DEF CheckVersion, Migrating, Proceed, EndStore, EndAll, Inv, StoreType
  <2> QED BY <2>1 DEF Inv, Migration, Migrated, Supported
<1>9. CASE Migrate
  <2>1. CASE db.migrated
    <3>1. db' = db /\ store'.step = "optimize" /\ Supported(db)
      BY <1>9, <2>1 DEF Migrate, Migrating, Proceed, Inv, StoreType, Migrated
    <3> QED BY <2>1, <3>1 DEF Inv, Migration, Migrated, Supported
  <2>2. CASE ~db.migrated
    <3>1. /\ store'.step = "hash"
          /\ db' = [db EXCEPT !.migrated = TRUE, !.schema = @ + 1]
      BY <1>9, <2>2 DEF Migrate, Migrating, Proceed, Inv, StoreType
    <3>2. ~db.hash /\ ~db.stats /\ db.schema = 0 /\ db.saved = None /\ db.genesis = None
      BY <2>2 DEF Inv, Migration
    <3>3. /\ db'.migrated /\ db'.schema = 1 /\ db'.stats = db.stats
          /\ db'.saved = None /\ db'.genesis = None
      BY <3>1, <3>2 DEF Inv, DiskType, Databases
    <3> QED BY <3>1, <3>2, <3>3 DEF Migration, Migrated
  <2> QED BY <2>1, <2>2
<1>10. CASE SaveHash
  <2>1. db.migrated /\ store'.step = "optimize" /\ db' = [db EXCEPT !.hash = TRUE]
    BY <1>10, OffType DEF SaveHash, Migrating, Proceed, Inv, StoreType, Migrated
  <2>2. /\ db'.migrated = db.migrated /\ db'.hash /\ db'.stats = db.stats
        /\ db'.schema = db.schema /\ db'.saved = db.saved /\ db'.genesis = db.genesis
    BY <2>1 DEF Inv, DiskType, Databases
  <2> QED BY <2>1, <2>2 DEF Inv, Migration, Migrated
<1>11. CASE Optimize
  <2>1. /\ db' = Analyzed(db) /\ db.migrated /\ db.hash
        /\ store'.step = "save version"
    BY <1>11, OffType DEF Optimize, Migrating, Proceed, Serving, At, Inv, StoreType, Migration, Migrated
  <2>2. db' = [[db EXCEPT !.stats = TRUE] EXCEPT !.schema = 2] /\ (db.stats => db' = db)
    BY <2>1, AnalyzedIs
  <2>3. /\ db'.migrated = db.migrated /\ db'.hash = db.hash /\ db'.stats /\ db'.schema = 2
        /\ db'.saved = db.saved /\ db'.genesis = db.genesis
    BY <2>2 DEF Inv, DiskType, Databases
  <2> QED BY <2>1, <2>2, <2>3 DEF Inv, Migration, Migrated
<1>12. CASE SaveVersion
  <2>1. /\ db.migrated /\ db.hash /\ db.stats /\ store'.step = "migrated"
        /\ db' = [db EXCEPT !.saved = db.schema]
    BY <1>12, OffType DEF SaveVersion, VersionToSave, Migrating, Proceed, Inv, StoreType, Migrated
  <2>2. /\ db'.migrated = db.migrated /\ db'.hash = db.hash /\ db'.stats = db.stats
        /\ db'.schema = db.schema /\ db'.saved = db.schema /\ db'.genesis = db.genesis
    BY <2>1 DEF Inv, DiskType, Databases
  <2>3. db.schema = 2 /\ None # 2
    BY <2>1, BoundsAreNaturals DEF Inv, Migration
  <2> QED BY <2>1, <2>2, <2>3 DEF Inv, Migration, Migrated
<1>13. CASE LoadBlockStore
  <2>1. db' = db /\ store'.step \in {"off", "check"}
    BY <1>13, OffType DEF LoadBlockStore, At, Proceed, EndStore, EndAll, Inv, StoreType
  <2> QED BY <2>1 DEF Inv, Migration, Migrated, Supported
<1>14. CASE Serve
  <2>1. db' = db /\ store'.step \in {"serving"} /\ store.step = "migrated"
    BY <1>14, OffType DEF Serve, At, Proceed, Inv, StoreType
  <2> QED BY <2>1 DEF Inv, Migration, Migrated, Supported
<1>15. CASE RetryTip
  <2>1. db' = db /\ (store' = store \/ store'.step = "off")
    BY <1>15, OffType DEF RetryTip, EndProducer, EndAll, Fixed, Running
  <2> QED BY <2>1 DEF Inv, Migration, Migrated, Supported
<1>16. CASE FetchTip
  <2>1. db' = db /\ (store' = store \/ store'.step = "off")
    BY <1>16, OffType DEF FetchTip, EndProducer, EndAll, Fixed, Running
  <2> QED BY <2>1 DEF Inv, Migration, Migrated, Supported
<1>17. CASE Bind
  <2>1. db' = db /\ (store' = store \/ store'.step = "off")
    BY <1>17, OffType DEF Bind, EndProducer, EndAll, Fixed, Running
  <2> QED BY <2>1 DEF Inv, Migration, Migrated, Supported
<1>18. CASE FetchGenesis
  <2>1. db' = db /\ (store' = store \/ store'.step = "off")
    BY <1>18, OffType DEF FetchGenesis, EndAll, Fixed, Running
  <2> QED BY <2>1 DEF Inv, Migration, Migrated, Supported
<1>19. CASE RetrySubscribe
  <2>1. db' = db /\ (store' = store \/ store'.step = "off")
    BY <1>19, OffType DEF RetrySubscribe, EndAll, Fixed, Running
  <2> QED BY <2>1 DEF Inv, Migration, Migrated, Supported
<1>20. CASE Subscribe
  <2>1. db' = db /\ (store' = store \/ store'.step = "off")
    BY <1>20, OffType DEF Subscribe, EndAll, Fixed, Running
  <2> QED BY <2>1 DEF Inv, Migration, Migrated, Supported
<1>21. CASE OptimizeDb
  <2>1. /\ db' = Analyzed(db) /\ db.migrated /\ db.hash
        /\ store' = store /\ store.step = "serving"
    BY <1>21, OffType DEF OptimizeDb, Migrating, Proceed, Serving, At, Inv, StoreType, Migration, Migrated
  <2>2. db' = [[db EXCEPT !.stats = TRUE] EXCEPT !.schema = 2] /\ (db.stats => db' = db)
    BY <2>1, AnalyzedIs
  <2>3. /\ db'.migrated = db.migrated /\ db'.hash = db.hash /\ db'.stats /\ db'.schema = 2
        /\ db'.saved = db.saved /\ db'.genesis = db.genesis
    BY <2>2 DEF Inv, DiskType, Databases
  <2> QED BY <2>1, <2>2, <2>3 DEF Inv, Migration, Migrated
<1>22. CASE ProduceBlock
  <2>1. store' = store /\ db' = [db EXCEPT !.tip = db.tip + 1]
    BY <1>22, OffType DEF ProduceBlock
  <2>2. /\ db'.migrated = db.migrated /\ db'.hash = db.hash /\ db'.stats = db.stats
        /\ db'.schema = db.schema /\ db'.saved = db.saved /\ db'.genesis = db.genesis
    BY <2>1 DEF Inv, DiskType, Databases
  <2> QED BY <2>1, <2>2 DEF Inv, Migration, Migrated, Supported
<1>23. CASE Crash
  <2>1. db' = db /\ (store' = store \/ store'.step = "off")
    BY <1>23, OffType DEF Crash, EndStore, EndProducer, EndAll, Fixed, Running
  <2> QED BY <2>1 DEF Inv, Migration, Migrated, Supported
<1>24. CASE UNCHANGED vars
  BY <1>24 DEF vars, Inv, Migration, Migrated, Supported
<1> QED
  BY <1>1, <1>2, <1>3, <1>4, <1>5, <1>6, <1>7, <1>8, <1>9, <1>10, <1>11, <1>12, <1>13,
     <1>14, <1>15, <1>16, <1>17, <1>18, <1>19, <1>20, <1>21, <1>22, <1>23, <1>24
  DEF Next, Bootstrap, StoreStep, ProducerStep, BuilderStep

(***************************************************************************)
(* Bootstrap writes keys, block file and database in this order, writes    *)
(* over none of them, and only a process that wrote the first two can      *)
(* insert the genesis block.                                               *)
(***************************************************************************)
LEMMA FilesStep == Inv /\ [Next]_vars => FilesWritten'
<1> SUFFICES ASSUME Inv, [Next]_vars
             PROVE  FilesWritten'
  OBVIOUS
<1>1. CASE StartProducer \/ PassCheckpoint \/ LoadNotes \/ GetCurrentBlockchainData \/
           ReceiveEvent \/ SubmitProvenTransaction \/ SubmitNetworkTransaction
  <2>1. UNCHANGED <<files, store, db>>
    BY <1>1 DEF Add, GetCurrentBlockchainData, LoadNotes, Notify, PassCheckpoint, ReceiveEvent,
       StartProducer, SubmitNetworkTransaction, SubmitProvenTransaction, Fixed, Running
  <2> QED BY <2>1 DEF Inv, FilesWritten, GenesisConsistent
<1>2. CASE OpenAccountFile
  <2>1. PICK config \in Config, d \in AccountsDir :
          /\ files.keys[d] = None
          /\ files' = [files EXCEPT !.keys[d] = Empty]
          /\ store' = [cmd |-> "bootstrap", step |-> "write key",
                       genesis |-> IntoState(config), dir |-> d]
    BY <1>2 DEF OpenAccountFile
  <2>2. /\ db' = db /\ files'.blocks = files.blocks /\ files'.keys[d] = Empty
        /\ \A e \in AccountsDir : e # d => files'.keys[e] = files.keys[e]
    BY <1>2, <2>1 DEF OpenAccountFile, Inv, DiskType
  <2>3. store'.step = "write key" /\ store'.dir = d
    BY <2>1
  <2> QED BY <2>1, <2>2, <2>3 DEF Inv, FilesWritten, GenesisConsistent
<1>3. CASE WriteAccountFile
  <2>1. /\ store.cmd = "bootstrap" /\ store.step = "write key"
        /\ files' = [files EXCEPT !.keys[store.dir] = store.genesis]
        /\ store' = [store EXCEPT !.step = "blocks"]
        /\ db' = db
    BY <1>3 DEF WriteAccountFile, At, Proceed
  <2>2. store.dir \in AccountsDir /\ files.keys[store.dir] = Empty
    BY <2>1 DEF Inv, StoreType, FilesWritten
  <2>3. /\ files'.blocks = files.blocks /\ files'.keys[store.dir] = store.genesis
        /\ \A e \in AccountsDir : e # store.dir => files'.keys[e] = files.keys[e]
    BY <2>1, <2>2 DEF Inv, DiskType
  <2>4. store'.step = "blocks" /\ store'.dir = store.dir /\ store'.genesis = store.genesis
    BY <2>1 DEF Inv, StoreType
  <2>5. db.genesis # None => db.genesis # Empty
    BY GenesisIsSomething DEF Inv, DiskType, Databases
  <2> QED BY <2>1, <2>2, <2>3, <2>4, <2>5 DEF Inv, FilesWritten, GenesisConsistent
<1>4. CASE CreateBlockStore
  <2>1. CASE files.blocks = None
    <3>1. /\ store.cmd = "bootstrap" /\ store.step = "blocks"
          /\ files' = [files EXCEPT !.blocks = Empty]
          /\ store' = [store EXCEPT !.step = "genesis file"]
          /\ db' = db
      BY <1>4, <2>1 DEF CreateBlockStore, CanCreateBlocks, At, Proceed
    <3>2. files'.blocks = Empty /\ files'.keys = files.keys
      BY <3>1 DEF Inv, DiskType
    <3>3. /\ store'.step = "genesis file" /\ store'.dir = store.dir
          /\ store'.genesis = store.genesis
      BY <3>1 DEF Inv, StoreType
    <3> QED BY <2>1, <3>1, <3>2, <3>3 DEF Inv, FilesWritten, GenesisConsistent
  <2>2. CASE files.blocks # None
    <3>1. files' = files /\ db' = db /\ store' = NoStore
      BY <1>4, <2>2 DEF CreateBlockStore, CanCreateBlocks
    <3> QED BY <3>1, OffType DEF Inv, FilesWritten, GenesisConsistent
  <2> QED BY <2>1, <2>2
<1>5. CASE SaveGenesisFile
  <2>1. /\ store.cmd = "bootstrap" /\ store.step = "genesis file"
        /\ files' = [files EXCEPT !.blocks = store.genesis]
        /\ store' = [store EXCEPT !.step = "check"]
        /\ db' = db
    BY <1>5 DEF SaveGenesisFile, At, Proceed
  <2>2. files'.blocks = store.genesis /\ files'.keys = files.keys
    BY <2>1 DEF Inv, DiskType
  <2>3. store'.step = "check" /\ store'.dir = store.dir /\ store'.genesis = store.genesis
    BY <2>1 DEF Inv, StoreType
  <2>4. db.genesis = None
    BY <2>1, GenesisIsSomething
    DEF Inv, FilesWritten, GenesisConsistent, DiskType, Databases
  <2> QED BY <2>1, <2>2, <2>3, <2>4 DEF Inv, FilesWritten, GenesisConsistent
<1>6. CASE InsertGenesis
  <2>1. /\ store.cmd = "bootstrap" /\ store.step = "migrated" /\ store' = NoStore
        /\ files' = files
    BY <1>6 DEF InsertGenesis, At
  <2>2. /\ files.keys[store.dir] = store.genesis /\ files.blocks = store.genesis
        /\ store.dir \in AccountsDir
    BY <2>1 DEF Inv, StoreType, FilesWritten
  <2>3. db'.genesis \in {db.genesis, store.genesis}
    BY <1>6 DEF InsertGenesis, Inv, DiskType, Databases
  <2> QED BY <2>1, <2>2, <2>3, OffType DEF Inv, FilesWritten, GenesisConsistent
<1>7. CASE Start
  <2>1. db'.genesis = db.genesis /\ files' = files /\ store'.cmd \in {None, "start"}
    BY <1>7, OffType DEF Start, NoStore, Inv, DiskType, Databases, StoreType
  <2> QED BY <2>1, OffType DEF Inv, FilesWritten, GenesisConsistent
<1>8. CASE CheckVersion
  <2>1. /\ db'.genesis = db.genesis /\ files' = files
        /\ \/ store' = NoStore
           \/ store.step = "check" /\ store' = [store EXCEPT !.step = "migrate"]
    BY <1>8 DEF CheckVersion, Migrating, Proceed, EndStore, EndAll, Inv, DiskType, Databases
  <2>2. \/ store'.cmd = None
        \/ /\ store'.cmd = store.cmd /\ store'.dir = store.dir /\ store'.genesis = store.genesis
           /\ store'.step = "migrate"
    BY <2>1, OffType DEF Inv, StoreType
  <2> QED BY <2>1, <2>2, OffType DEF Inv, FilesWritten, GenesisConsistent
<1>9. CASE Migrate
  <2>1. /\ db'.genesis = db.genesis /\ files' = files /\ store.step = "migrate"
        /\ store'.cmd = store.cmd /\ store'.dir = store.dir /\ store'.genesis = store.genesis
        /\ store'.step \in {"hash", "optimize"}
    BY <1>9 DEF Migrate, Migrating, Proceed, Inv, DiskType, Databases, StoreType
  <2> QED BY <2>1, OffType DEF Inv, FilesWritten, GenesisConsistent
<1>10. CASE SaveHash
  <2>1. /\ db'.genesis = db.genesis /\ files' = files /\ store.step = "hash"
        /\ store'.cmd = store.cmd /\ store'.dir = store.dir /\ store'.genesis = store.genesis
        /\ store'.step \in {"optimize"}
    BY <1>10 DEF SaveHash, Migrating, Proceed, Inv, DiskType, Databases, StoreType
  <2> QED BY <2>1, OffType DEF Inv, FilesWritten, GenesisConsistent
<1>11. CASE Optimize
  <2>1. /\ db'.genesis = db.genesis /\ files' = files /\ store.step = "optimize"
        /\ store'.cmd = store.cmd /\ store'.dir = store.dir /\ store'.genesis = store.genesis
        /\ store'.step \in {"save version"}
    BY <1>11 DEF Optimize, Migrating, Proceed, Analyzed, Inv, DiskType, Databases, StoreType
  <2> QED BY <2>1, OffType DEF Inv, FilesWritten, GenesisConsistent
<1>12. CASE SaveVersion
  <2>1. /\ db'.genesis = db.genesis /\ files' = files /\ store.step = "save version"
        /\ store'.cmd = store.cmd /\ store'.dir = store.dir /\ store'.genesis = store.genesis
        /\ store'.step \in {"migrated"}
    BY <1>12 DEF SaveVersion, Migrating, Proceed, Inv, DiskType, Databases, StoreType
  <2> QED BY <2>1, OffType DEF Inv, FilesWritten, GenesisConsistent
<1>13. CASE LoadBlockStore
  <2>1. db'.genesis = db.genesis /\ files' = files /\ store'.cmd \in {None, "start"}
    BY <1>13, OffType DEF LoadBlockStore, At, Proceed, EndStore, EndAll, Inv, DiskType, Databases, StoreType
  <2> QED BY <2>1, OffType DEF Inv, FilesWritten, GenesisConsistent
<1>14. CASE Serve
  <2>1. db'.genesis = db.genesis /\ files' = files /\ store'.cmd \in {None, "start"}
    BY <1>14, OffType DEF Serve, At, Proceed, Inv, DiskType, Databases, StoreType
  <2> QED BY <2>1, OffType DEF Inv, FilesWritten, GenesisConsistent
<1>15. CASE RetryTip
  <2>1. db' = db /\ files' = files /\ (store' = store \/ store' = NoStore)
    BY <1>15 DEF RetryTip, EndProducer, EndAll, Fixed, Running
  <2> QED BY <2>1, OffType DEF Inv, FilesWritten, GenesisConsistent
<1>16. CASE FetchTip
  <2>1. db' = db /\ files' = files /\ (store' = store \/ store' = NoStore)
    BY <1>16 DEF FetchTip, EndProducer, EndAll, Fixed, Running
  <2> QED BY <2>1, OffType DEF Inv, FilesWritten, GenesisConsistent
<1>17. CASE Bind
  <2>1. db' = db /\ files' = files /\ (store' = store \/ store' = NoStore)
    BY <1>17 DEF Bind, EndProducer, EndAll, Fixed, Running
  <2> QED BY <2>1, OffType DEF Inv, FilesWritten, GenesisConsistent
<1>18. CASE FetchGenesis
  <2>1. db' = db /\ files' = files /\ (store' = store \/ store' = NoStore)
    BY <1>18 DEF FetchGenesis, EndAll, Fixed, Running
  <2> QED BY <2>1, OffType DEF Inv, FilesWritten, GenesisConsistent
<1>19. CASE RetrySubscribe
  <2>1. db' = db /\ files' = files /\ (store' = store \/ store' = NoStore)
    BY <1>19 DEF RetrySubscribe, EndAll, Fixed, Running
  <2> QED BY <2>1, OffType DEF Inv, FilesWritten, GenesisConsistent
<1>20. CASE Subscribe
  <2>1. db' = db /\ files' = files /\ (store' = store \/ store' = NoStore)
    BY <1>20 DEF Subscribe, EndAll, Fixed, Running
  <2> QED BY <2>1, OffType DEF Inv, FilesWritten, GenesisConsistent
<1>21. CASE OptimizeDb
  <2>1. db'.genesis = db.genesis /\ files' = files /\ store'.cmd \in {None, "start"}
    BY <1>21, OffType DEF OptimizeDb, Serving, At, Analyzed, Inv, DiskType, Databases, StoreType
  <2> QED BY <2>1, OffType DEF Inv, FilesWritten, GenesisConsistent
<1>22. CASE ProduceBlock
  <2>1. db'.genesis = db.genesis /\ files' = files /\ store'.cmd \in {None, "start"}
    BY <1>22, OffType DEF ProduceBlock, Serving, At, Inv, DiskType, Databases, StoreType
  <2> QED BY <2>1, OffType DEF Inv, FilesWritten, GenesisConsistent
<1>23. CASE Crash
  <2>1. db' = db /\ files' = files /\ (store' = store \/ store' = NoStore)
    BY <1>23 DEF Crash, EndStore, EndProducer, EndAll, Fixed, Running
  <2> QED BY <2>1, OffType DEF Inv, FilesWritten, GenesisConsistent
<1>24. CASE UNCHANGED vars
  BY <1>24 DEF vars, Inv, FilesWritten, GenesisConsistent
<1> QED
  BY <1>1, <1>2, <1>3, <1>4, <1>5, <1>6, <1>7, <1>8, <1>9, <1>10, <1>11, <1>12, <1>13,
     <1>14, <1>15, <1>16, <1>17, <1>18, <1>19, <1>20, <1>21, <1>22, <1>23, <1>24
  DEF Next, Bootstrap, StoreStep, ProducerStep, BuilderStep

(* Components that are off are at no step and have no tip.                  *)
LEMMA NothingRuns ==
    /\ NoProducer.step = "off" /\ NoMempool.tip = -1 /\ NoMempool.txs = {}
    /\ NoBuilder.step = "off" /\ NoBuilder.events = <<>>
BY DEF NoProducer, NoMempool, NoBuilder

(* The block producer stays on the tip of the store it fetched it from.     *)
LEMMA OnTipStep == Inv /\ [Next]_vars => OnTip'
<1> SUFFICES ASSUME Inv, [Next]_vars
             PROVE  OnTip'
  OBVIOUS
<1>1. CASE OpenAccountFile \/ WriteAccountFile \/ CreateBlockStore \/ SaveGenesisFile \/
           LoadNotes \/ GetCurrentBlockchainData \/ ReceiveEvent \/ Serve
  <2>1. UNCHANGED <<bp, mempool, db>>
    BY <1>1 DEF CreateBlockStore, GetCurrentBlockchainData, LoadNotes, OpenAccountFile,
       ReceiveEvent, SaveGenesisFile, Serve, WriteAccountFile, Fixed, Running
  <2> QED BY <2>1 DEF Inv, OnTip
<1>2. CASE InsertGenesis
  <2>1. bp' = bp /\ mempool' = mempool
    BY <1>2 DEF InsertGenesis, Running
  <2>2. db.genesis # None => db' = db
    BY <1>2 DEF InsertGenesis
  <2> QED BY <2>1, <2>2 DEF Inv, OnTip
<1>3. CASE Start
  <2>1. UNCHANGED <<db, mempool>>
    BY <1>3 DEF Start
  <2>2. bp' = bp \/ (bp.step = "off" /\ bp'.step = "fetch tip")
    BY <1>3, NothingRuns, OffType DEF Start, Inv, ComponentType, Producer, OneProcess
  <2> QED BY <2>1, <2>2 DEF Inv, OnTip
<1>4. CASE StartProducer
  <2>1. UNCHANGED <<db, mempool>>
    BY <1>4 DEF StartProducer
  <2>2. bp' = bp \/ (bp.step = "off" /\ bp'.step = "fetch tip")
    BY <1>4, NothingRuns DEF StartProducer, Inv, ComponentType, Producer
  <2> QED BY <2>1, <2>2 DEF Inv, OnTip
<1>5. CASE CheckVersion
  <2>1. /\ db' = db
        /\ \/ bp' = bp /\ mempool' = mempool
           \/ bp' = NoProducer /\ mempool' = NoMempool
    BY <1>5 DEF CheckVersion, EndStore, EndAll, Running
  <2> QED BY <2>1, NothingRuns DEF Inv, OnTip
<1>6. CASE Migrate
  <2>1. /\ db'.tip = db.tip /\ db'.genesis = db.genesis
        /\ bp' = bp /\ mempool' = mempool
    BY <1>6 DEF Migrate, Running, Inv, DiskType, Databases
  <2> QED BY <2>1 DEF Inv, OnTip
<1>7. CASE SaveHash
  <2>1. /\ db'.tip = db.tip /\ db'.genesis = db.genesis
        /\ bp' = bp /\ mempool' = mempool
    BY <1>7 DEF SaveHash, Running, Inv, DiskType, Databases
  <2> QED BY <2>1 DEF Inv, OnTip
<1>8. CASE Optimize
  <2>1. /\ db'.tip = db.tip /\ db'.genesis = db.genesis
        /\ bp' = bp /\ mempool' = mempool
    BY <1>8 DEF Optimize, Analyzed, Running, Inv, DiskType, Databases
  <2> QED BY <2>1 DEF Inv, OnTip
<1>9. CASE SaveVersion
  <2>1. /\ db'.tip = db.tip /\ db'.genesis = db.genesis
        /\ bp' = bp /\ mempool' = mempool
    BY <1>9 DEF SaveVersion, Running, Inv, DiskType, Databases
  <2> QED BY <2>1 DEF Inv, OnTip
<1>10. CASE LoadBlockStore
  <2>1. /\ db' = db
        /\ \/ bp' = bp /\ mempool' = mempool
           \/ bp' = NoProducer /\ mempool' = NoMempool
    BY <1>10 DEF LoadBlockStore, EndStore, EndAll, Running
  <2> QED BY <2>1, NothingRuns DEF Inv, OnTip
<1>11. CASE RetryTip
  <2>1. \/ bp' = NoProducer /\ mempool' = NoMempool
        \/ bp.step = "fetch tip" /\ bp'.step = "fetch tip" /\ mempool' = mempool
    BY <1>11 DEF RetryTip, EndProducer, EndAll, Inv, ComponentType, Producer
  <2>2. db' = db
    BY <1>11 DEF RetryTip
  <2> QED BY <2>1, <2>2, NothingRuns DEF Inv, OnTip
<1>12. CASE FetchTip
  <2>1. db' = db
    BY <1>12 DEF FetchTip
  <2>2. CASE db.genesis # None
    <3>1. bp' = [bp EXCEPT !.step = "bind"] /\ mempool' = [NoMempool EXCEPT !.tip = db.tip]
      BY <1>12, <2>2 DEF FetchTip, TipKnown
    <3>2. bp'.step = "bind" /\ mempool'.tip = db.tip
      BY <3>1 DEF Inv, ComponentType, Producer, NoMempool
    <3>3. db.tip # -1
      BY <2>2 DEF Inv, DiskType
    <3> QED BY <2>1, <2>2, <3>2, <3>3 DEF OnTip
  <2>3. CASE db.genesis = None
    <3>1. bp' = NoProducer /\ mempool' = NoMempool
      BY <1>12, <2>3 DEF FetchTip, TipKnown, EndProducer, EndAll
    <3> QED BY <3>1, NothingRuns DEF OnTip
  <2> QED BY <2>2, <2>3
<1>13. CASE Bind
  <2>1. \/ bp' = NoProducer /\ mempool' = NoMempool
        \/ bp.step = "bind" /\ bp'.step = "checkpoint" /\ mempool' = mempool
    BY <1>13 DEF Bind, EndProducer, EndAll, Inv, ComponentType, Producer
  <2>2. db' = db
    BY <1>13 DEF Bind
  <2> QED BY <2>1, <2>2, NothingRuns DEF Inv, OnTip
<1>14. CASE PassCheckpoint
  <2>1. UNCHANGED <<db, mempool>>
    BY <1>14 DEF PassCheckpoint
  <2>2. bp' = bp \/ (bp.step = "checkpoint" /\ bp'.step = "producing")
    BY <1>14, NothingRuns DEF PassCheckpoint, Inv, ComponentType, Producer
  <2> QED BY <2>1, <2>2 DEF Inv, OnTip
<1>15. CASE FetchGenesis
  <2>1. /\ db' = db
        /\ \/ bp' = bp /\ mempool' = mempool
           \/ bp' = NoProducer /\ mempool' = NoMempool
    BY <1>15 DEF FetchGenesis, EndAll, Running
  <2> QED BY <2>1, NothingRuns DEF Inv, OnTip
<1>16. CASE RetrySubscribe
  <2>1. /\ db' = db
        /\ \/ bp' = bp /\ mempool' = mempool
           \/ bp' = NoProducer /\ mempool' = NoMempool
    BY <1>16 DEF RetrySubscribe, EndAll, Running
  <2> QED BY <2>1, NothingRuns DEF Inv, OnTip
<1>17. CASE Subscribe
  <2>1. /\ db' = db
        /\ \/ bp' = bp /\ mempool' = mempool
           \/ bp' = NoProducer /\ mempool' = NoMempool
    BY <1>17 DEF Subscribe, EndAll, Running
  <2> QED BY <2>1, NothingRuns DEF Inv, OnTip
<1>18. CASE OptimizeDb
  <2>1. /\ db'.tip = db.tip /\ db'.genesis = db.genesis
        /\ bp' = bp /\ mempool' = mempool
    BY <1>18 DEF OptimizeDb, Analyzed, Running, Inv, DiskType, Databases
  <2> QED BY <2>1 DEF Inv, OnTip
<1>19. CASE SubmitProvenTransaction
  <2>1. db' = db /\ bp' = bp /\ mempool'.tip = mempool.tip
    BY <1>19 DEF SubmitProvenTransaction, Add, Inv, ComponentType
  <2> QED BY <2>1 DEF Inv, OnTip
<1>20. CASE SubmitNetworkTransaction
  <2>1. db' = db /\ bp' = bp /\ mempool'.tip = mempool.tip
    BY <1>20 DEF SubmitNetworkTransaction, Add, Inv, ComponentType
  <2> QED BY <2>1 DEF Inv, OnTip
<1>21. CASE ProduceBlock
  <2>1. bp' = bp /\ mempool.tip = db.tip /\ mempool'.tip = mempool.tip + 1 /\ bp.step = "producing"
    BY <1>21 DEF ProduceBlock
  <2>2. db'.tip = db.tip + 1 /\ db'.genesis = db.genesis
    BY <1>21 DEF ProduceBlock, Inv, DiskType, Databases
  <2>3. db.genesis # None /\ db.tip # -1 /\ db.tip \in -1 .. MaxBlocks
    BY <2>1 DEF Inv, OnTip, DiskType, Databases
  <2>4. db.tip + 1 # -1
    BY <2>3, BoundsAreNaturals
  <2> QED BY <2>1, <2>2, <2>3, <2>4 DEF OnTip
<1>22. CASE Crash
  <2>1. /\ db' = db
        /\ \/ bp' = bp /\ mempool' = mempool
           \/ bp' = NoProducer /\ mempool' = NoMempool
    BY <1>22 DEF Crash, EndStore, EndProducer, EndAll, Running
  <2> QED BY <2>1, NothingRuns DEF Inv, OnTip
<1>23. CASE UNCHANGED vars
  BY <1>23 DEF vars, Inv, OnTip
<1> QED
  BY <1>1, <1>2, <1>3, <1>4, <1>5, <1>6, <1>7, <1>8, <1>9, <1>10, <1>11, <1>12, <1>13,
     <1>14, <1>15, <1>16, <1>17, <1>18, <1>19, <1>20, <1>21, <1>22, <1>23
  DEF Next, Bootstrap, StoreStep, ProducerStep, BuilderStep

(* The components of a bundled node start and end together.                 *)
LEMMA OneProcessStep == Inv /\ [Next]_vars => OneProcess'
<1> SUFFICES ASSUME Inv, [Next]_vars
             PROVE  OneProcess'
  OBVIOUS
<1>1. CASE OpenAccountFile
  <2>1. store.cmd # "start" /\ UNCHANGED <<deployment, bp, mempool, ntb>>
    BY <1>1, OffType DEF OpenAccountFile, Fixed, Running
  <2> QED BY <2>1 DEF Inv, OneProcess, Bundled
<1>2. CASE WriteAccountFile
  <2>1. store.cmd # "start" /\ UNCHANGED <<deployment, bp, mempool, ntb>>
    BY <1>2, OffType DEF WriteAccountFile, At, Fixed, Running
  <2> QED BY <2>1 DEF Inv, OneProcess, Bundled
<1>3. CASE CreateBlockStore
  <2>1. store.cmd # "start" /\ UNCHANGED <<deployment, bp, mempool, ntb>>
    BY <1>3, OffType DEF CreateBlockStore, At, Fixed, Running
  <2> QED BY <2>1 DEF Inv, OneProcess, Bundled
<1>4. CASE SaveGenesisFile
  <2>1. store.cmd # "start" /\ UNCHANGED <<deployment, bp, mempool, ntb>>
    BY <1>4, OffType DEF SaveGenesisFile, At, Fixed, Running
  <2> QED BY <2>1 DEF Inv, OneProcess, Bundled
<1>5. CASE InsertGenesis
  <2>1. store.cmd # "start" /\ UNCHANGED <<deployment, bp, mempool, ntb>>
    BY <1>5, OffType DEF InsertGenesis, At, Fixed, Running
  <2> QED BY <2>1 DEF Inv, OneProcess, Bundled
<1>6. CASE Start
  <2>1. store'.cmd = "start"
    BY <1>6 DEF Start, NoStore
  <2> QED BY <2>1 DEF OneProcess
<1>7. CASE StartProducer
  <2>1. ~Bundled /\ UNCHANGED deployment
    BY <1>7 DEF StartProducer, Fixed
  <2> QED BY <2>1 DEF OneProcess, Bundled
<1>8. CASE CheckVersion
  <2>1. /\ UNCHANGED deployment
        /\ EndStore \/ (store'.cmd = store.cmd /\ UNCHANGED <<deployment, bp, mempool, ntb>>)
    BY <1>8 DEF CheckVersion, Migrating, Proceed, Fixed, Running, Inv, StoreType
  <2> QED BY <2>1 DEF Inv, OneProcess, Bundled, EndStore, EndAll
<1>9. CASE Migrate
  <2>1. store'.cmd = store.cmd /\ UNCHANGED <<deployment, bp, mempool, ntb>>
    BY <1>9 DEF Migrate, Migrating, Proceed, Fixed, Running, Inv, StoreType
  <2> QED BY <2>1 DEF Inv, OneProcess, Bundled
<1>10. CASE SaveHash
  <2>1. store'.cmd = store.cmd /\ UNCHANGED <<deployment, bp, mempool, ntb>>
    BY <1>10 DEF SaveHash, Migrating, Proceed, Fixed, Running, Inv, StoreType
  <2> QED BY <2>1 DEF Inv, OneProcess, Bundled
<1>11. CASE Optimize
  <2>1. store'.cmd = store.cmd /\ UNCHANGED <<deployment, bp, mempool, ntb>>
    BY <1>11 DEF Optimize, Migrating, Proceed, Fixed, Running, Inv, StoreType
  <2> QED BY <2>1 DEF Inv, OneProcess, Bundled
<1>12. CASE SaveVersion
  <2>1. store'.cmd = store.cmd /\ UNCHANGED <<deployment, bp, mempool, ntb>>
    BY <1>12 DEF SaveVersion, Migrating, Proceed, Fixed, Running, Inv, StoreType
  <2> QED BY <2>1 DEF Inv, OneProcess, Bundled
<1>13. CASE LoadBlockStore
  <2>1. /\ UNCHANGED deployment
        /\ EndStore \/ (store'.cmd = store.cmd /\ UNCHANGED <<deployment, bp, mempool, ntb>>)
    BY <1>13 DEF LoadBlockStore, At, Proceed, Fixed, Running, Inv, StoreType
  <2> QED BY <2>1 DEF Inv, OneProcess, Bundled, EndStore, EndAll
<1>14. CASE Serve
  <2>1. store'.cmd = store.cmd /\ UNCHANGED <<deployment, bp, mempool, ntb>>
    BY <1>14 DEF Serve, At, Proceed, Fixed, Running, Inv, StoreType
  <2> QED BY <2>1 DEF Inv, OneProcess, Bundled
<1>15. CASE RetryTip
  <2>1. UNCHANGED deployment /\ bp.step = "fetch tip" /\ (EndProducer \/ UNCHANGED store)
    BY <1>15 DEF RetryTip, Fixed
  <2> QED BY <2>1, NothingRuns DEF Inv, OneProcess, Bundled, EndProducer, EndAll
<1>16. CASE FetchTip
  <2>1. UNCHANGED deployment /\ bp.step = "fetch tip" /\ (EndProducer \/ UNCHANGED store)
    BY <1>16 DEF FetchTip, Fixed
  <2> QED BY <2>1, NothingRuns DEF Inv, OneProcess, Bundled, EndProducer, EndAll
<1>17. CASE Bind
  <2>1. UNCHANGED deployment /\ bp.step = "bind" /\ (EndProducer \/ UNCHANGED store)
    BY <1>17 DEF Bind, Fixed
  <2> QED BY <2>1, NothingRuns DEF Inv, OneProcess, Bundled, EndProducer, EndAll
<1>18. CASE PassCheckpoint
  <2>1. UNCHANGED <<deployment, store>> /\ bp.step = "checkpoint"
    BY <1>18 DEF PassCheckpoint, Fixed
  <2> QED BY <2>1, NothingRuns DEF Inv, OneProcess, Bundled
<1>19. CASE FetchGenesis
  <2>1. UNCHANGED deployment /\ ntb.step = "genesis" /\ (EndAll \/ UNCHANGED store)
    BY <1>19 DEF FetchGenesis, Fixed
  <2> QED BY <2>1, NothingRuns DEF Inv, OneProcess, Bundled, EndAll
<1>20. CASE LoadNotes
  <2>1. store' = store /\ store.cmd = "start"
    BY <1>20 DEF LoadNotes, Serving, At
  <2> QED BY <2>1 DEF OneProcess
<1>21. CASE GetCurrentBlockchainData
  <2>1. store' = store /\ store.cmd = "start"
    BY <1>21 DEF GetCurrentBlockchainData, Serving, At
  <2> QED BY <2>1 DEF OneProcess
<1>22. CASE RetrySubscribe
  <2>1. UNCHANGED deployment /\ ntb.step = "subscribe" /\ (EndAll \/ UNCHANGED store)
    BY <1>22 DEF RetrySubscribe, Fixed
  <2> QED BY <2>1, NothingRuns DEF Inv, OneProcess, Bundled, EndAll
<1>23. CASE Subscribe
  <2>1. UNCHANGED deployment /\ ntb.step = "subscribe" /\ (EndAll \/ UNCHANGED store)
    BY <1>23 DEF Subscribe, Fixed
  <2> QED BY <2>1, NothingRuns DEF Inv, OneProcess, Bundled, EndAll
<1>24. CASE ReceiveEvent
  <2>1. UNCHANGED <<deployment, store>> /\ ntb.step = "running"
    BY <1>24 DEF ReceiveEvent, Fixed
  <2> QED BY <2>1, NothingRuns DEF Inv, OneProcess, Bundled
<1>25. CASE OptimizeDb
  <2>1. store'.cmd = store.cmd /\ UNCHANGED <<deployment, bp, mempool, ntb>>
    BY <1>25 DEF OptimizeDb, Serving, At, Fixed, Running, Inv, StoreType
  <2> QED BY <2>1 DEF Inv, OneProcess, Bundled
<1>26. CASE SubmitProvenTransaction
  <2>1. store' = store /\ store.cmd = "start"
    BY <1>26 DEF SubmitProvenTransaction, Add, Serving, At
  <2> QED BY <2>1 DEF OneProcess
<1>27. CASE SubmitNetworkTransaction
  <2>1. store' = store /\ store.cmd = "start"
    BY <1>27 DEF SubmitNetworkTransaction, Add, Serving, At
  <2> QED BY <2>1 DEF OneProcess
<1>28. CASE ProduceBlock
  <2>1. store' = store /\ store.cmd = "start"
    BY <1>28 DEF ProduceBlock, Serving, At
  <2> QED BY <2>1 DEF OneProcess
<1>29. CASE Crash
  <2>1. UNCHANGED deployment /\ (EndStore \/ (~Bundled /\ EndProducer))
    BY <1>29 DEF Crash, Fixed
  <2> QED BY <2>1 DEF Inv, OneProcess, Bundled, EndStore, EndProducer, EndAll
<1>30. CASE UNCHANGED vars
  BY <1>30 DEF vars, Inv, OneProcess, Bundled
<1> QED
  BY <1>1, <1>2, <1>3, <1>4, <1>5, <1>6, <1>7, <1>8, <1>9, <1>10, <1>11, <1>12, <1>13,
     <1>14, <1>15, <1>16, <1>17, <1>18, <1>19, <1>20, <1>21, <1>22, <1>23, <1>24, <1>25,
     <1>26, <1>27, <1>28, <1>29, <1>30
  DEF Next, Bootstrap, StoreStep, ProducerStep, BuilderStep

(* Only a subscribed builder is notified, which does not move it.           *)
LEMMA NotifiedSteps ==
    ASSUME Inv, NEW e, Notify(e)
    PROVE  /\ ntb'.step = ntb.step
           /\ ntb.step \notin {"checkpoint", "running"} => ntb' = ntb
BY DEF Notify, Inv, ComponentType, Builder

(***************************************************************************)
(* The checkpoint holds block production back until the builder has        *)
(* subscribed, so the blocks it loaded are all there are until then.       *)
(***************************************************************************)
LEMMA BuilderStartedStep == Inv /\ [Next]_vars => BuilderStarted'
<1> SUFFICES ASSUME Inv, [Next]_vars
             PROVE  BuilderStarted'
  OBVIOUS
<1>1. CASE OpenAccountFile \/ WriteAccountFile \/ CreateBlockStore \/ SaveGenesisFile \/ Serve
  <2>1. UNCHANGED <<deployment, bp, ntb, db>>
    BY <1>1 DEF CreateBlockStore, OpenAccountFile, SaveGenesisFile, Serve, WriteAccountFile, Fixed,
       Running
  <2> QED BY <2>1 DEF Inv, BuilderStarted
<1>2. CASE InsertGenesis
  <2>1. UNCHANGED <<deployment, bp, ntb>> /\ store.cmd = "bootstrap"
    BY <1>2 DEF InsertGenesis, At, Fixed, Running
  <2>2. ntb.step = "off"
    <3>1. CASE Bundled
      BY <2>1, <3>1, NothingRuns DEF Inv, OneProcess
    <3>2. CASE ~Bundled
      BY <3>2 DEF Inv, BuilderStarted, Bundled
    <3> QED BY <3>1, <3>2
  <2> QED BY <2>1, <2>2 DEF Inv, BuilderStarted
<1>3. CASE Start
  <2>1. UNCHANGED <<deployment, db>> /\ store.cmd # "start"
    BY <1>3, OffType DEF Start, Fixed
  <2>2. CASE Bundled
    <3>1. bp = NoProducer /\ ntb = NoBuilder
      BY <2>1, <2>2 DEF Inv, OneProcess
    <3>2. bp' = [bp EXCEPT !.step = "fetch tip"]
      BY <1>3, <2>2 DEF Start
    <3>3. ntb' = ntb \/ (deployment = "bundled" /\ ntb' = [ntb EXCEPT !.step = "genesis"])
      BY <1>3, <2>2 DEF Start
    <3>4. bp'.step = "fetch tip" /\ ntb'.step \in {"off", "genesis"} /\ ntb'.events = <<>>
      BY <3>1, <3>2, <3>3, NothingRuns DEF Inv, ComponentType, Producer, Builder
    <3>5. ntb'.step = "off" \/ deployment = "bundled"
      BY <3>1, <3>3, NothingRuns
    <3> QED BY <2>1, <3>4, <3>5 DEF BuilderStarted
  <2>3. CASE ~Bundled
    <3>1. UNCHANGED <<bp, ntb>>
      BY <1>3, <2>3 DEF Start
    <3> QED BY <2>1, <3>1 DEF Inv, BuilderStarted
  <2> QED BY <2>2, <2>3
<1>4. CASE StartProducer
  <2>1. UNCHANGED <<deployment, db, ntb>> /\ bp.step = "off" /\ bp'.step # "producing"
    BY <1>4, NothingRuns DEF StartProducer, Fixed, Inv, ComponentType, Producer
  <2> QED BY <2>1 DEF Inv, BuilderStarted
<1>5. CASE CheckVersion
  <2>1. UNCHANGED <<deployment, db>> /\ bp' \in {bp, NoProducer} /\ ntb' \in {ntb, NoBuilder}
    BY <1>5 DEF CheckVersion, EndStore, EndAll, Fixed, Running
  <2>2. \/ ntb' = NoBuilder /\ bp' = NoProducer
        \/ ntb' = ntb /\ (bp' = bp \/ ~Bundled)
    BY <1>5 DEF CheckVersion, EndStore, EndAll, Fixed, Running
  <2> QED BY <2>1, <2>2, NothingRuns DEF Inv, BuilderStarted, Bundled
<1>6. CASE Migrate
  <2>1. db'.tip = db.tip /\ UNCHANGED <<deployment, bp, ntb>>
    BY <1>6 DEF Migrate, Fixed, Running, Inv, DiskType, Databases
  <2> QED BY <2>1 DEF Inv, BuilderStarted
<1>7. CASE SaveHash
  <2>1. db'.tip = db.tip /\ UNCHANGED <<deployment, bp, ntb>>
    BY <1>7 DEF SaveHash, Fixed, Running, Inv, DiskType, Databases
  <2> QED BY <2>1 DEF Inv, BuilderStarted
<1>8. CASE Optimize
  <2>1. db'.tip = db.tip /\ UNCHANGED <<deployment, bp, ntb>>
    BY <1>8 DEF Optimize, Analyzed, Fixed, Running, Inv, DiskType, Databases
  <2> QED BY <2>1 DEF Inv, BuilderStarted
<1>9. CASE SaveVersion
  <2>1. db'.tip = db.tip /\ UNCHANGED <<deployment, bp, ntb>>
    BY <1>9 DEF SaveVersion, Fixed, Running, Inv, DiskType, Databases
  <2> QED BY <2>1 DEF Inv, BuilderStarted
<1>10. CASE LoadBlockStore
  <2>1. UNCHANGED <<deployment, db>> /\ bp' \in {bp, NoProducer} /\ ntb' \in {ntb, NoBuilder}
    BY <1>10 DEF LoadBlockStore, EndStore, EndAll, Fixed, Running
  <2>2. \/ ntb' = NoBuilder /\ bp' = NoProducer
        \/ ntb' = ntb /\ (bp' = bp \/ ~Bundled)
    BY <1>10 DEF LoadBlockStore, EndStore, EndAll, Fixed, Running
  <2> QED BY <2>1, <2>2, NothingRuns DEF Inv, BuilderStarted, Bundled
<1>11. CASE RetryTip
  <2>1. /\ UNCHANGED <<deployment, db>> /\ ntb' \in {ntb, NoBuilder}
        /\ bp.step \in {"fetch tip", "bind"} /\ bp'.step # "producing"
    BY <1>11, NothingRuns DEF RetryTip, EndProducer, EndAll, Fixed, Inv, ComponentType, Producer
  <2> QED BY <2>1, NothingRuns DEF Inv, BuilderStarted
<1>12. CASE FetchTip
  <2>1. /\ UNCHANGED <<deployment, db>> /\ ntb' \in {ntb, NoBuilder}
        /\ bp.step \in {"fetch tip", "bind"} /\ bp'.step # "producing"
    BY <1>12, NothingRuns DEF FetchTip, EndProducer, EndAll, Fixed, Inv, ComponentType, Producer
  <2> QED BY <2>1, NothingRuns DEF Inv, BuilderStarted
<1>13. CASE Bind
  <2>1. /\ UNCHANGED <<deployment, db>> /\ ntb' \in {ntb, NoBuilder}
        /\ bp.step \in {"fetch tip", "bind"} /\ bp'.step # "producing"
    BY <1>13, NothingRuns DEF Bind, EndProducer, EndAll, Fixed, Inv, ComponentType, Producer
  <2> QED BY <2>1, NothingRuns DEF Inv, BuilderStarted
<1>14. CASE PassCheckpoint
  <2>1. UNCHANGED <<deployment, db>> /\ (deployment = "bundled" => ntb.step = "checkpoint")
    BY <1>14 DEF PassCheckpoint, BarrierFull, Fixed
  <2>2. /\ IF ntb.step = "checkpoint" THEN ntb'.step = "running" ELSE ntb' = ntb
        /\ bp'.step = "producing"
    BY <1>14 DEF PassCheckpoint, Inv, ComponentType, Builder, Producer
  <2> QED BY <2>1, <2>2 DEF Inv, BuilderStarted
<1>15. CASE FetchGenesis
  <2>1. /\ UNCHANGED <<deployment, db>> /\ ntb.step = "genesis"
        /\ \/ ntb' = NoBuilder /\ bp' = NoProducer
           \/ /\ ntb'.step = "load" /\ ntb'.events = ntb.events /\ bp' = bp
              /\ ntb'.tip = ntb.tip /\ ntb'.loaded = ntb.loaded
    BY <1>15 DEF FetchGenesis, EndAll, Fixed, Inv, ComponentType, Builder
  <2> QED BY <2>1, NothingRuns DEF Inv, BuilderStarted
<1>16. CASE LoadNotes
  <2>1. /\ UNCHANGED <<deployment, db, bp>> /\ ntb.step = "load"
        /\ ntb'.step = "chain tip" /\ ntb'.events = ntb.events /\ ntb'.loaded = db.tip
    BY <1>16 DEF LoadNotes, Fixed, Inv, ComponentType, Builder
  <2> QED BY <2>1 DEF Inv, BuilderStarted
<1>17. CASE GetCurrentBlockchainData
  <2>1. /\ UNCHANGED <<deployment, db, bp>> /\ ntb.step = "chain tip"
        /\ ntb'.step = "subscribe" /\ ntb'.events = ntb.events /\ ntb'.loaded = ntb.loaded
        /\ ntb'.tip = db.tip
    BY <1>17 DEF GetCurrentBlockchainData, Fixed, Inv, ComponentType, Builder
  <2> QED BY <2>1 DEF Inv, BuilderStarted
<1>18. CASE RetrySubscribe
  <2>1. /\ UNCHANGED <<deployment, db>> /\ ntb.step = "subscribe"
        /\ \/ ntb' = NoBuilder /\ bp' = NoProducer
           \/ /\ ntb'.step = "subscribe" /\ ntb'.events = ntb.events /\ bp' = bp
              /\ ntb'.tip = ntb.tip /\ ntb'.loaded = ntb.loaded
    BY <1>18 DEF RetrySubscribe, EndAll, Fixed, Inv, ComponentType, Builder
  <2> QED BY <2>1, NothingRuns DEF Inv, BuilderStarted
<1>19. CASE Subscribe
  <2>1. /\ UNCHANGED <<deployment, db>> /\ ntb.step = "subscribe"
        /\ bp.step \in {"checkpoint", "producing"}
        /\ (ntb' = NoBuilder /\ bp' = NoProducer) \/ (ntb'.step = "checkpoint" /\ bp' = bp)
    BY <1>19 DEF Subscribe, Listening, EndAll, Fixed, Inv, ComponentType, Builder
  <2> QED BY <2>1, NothingRuns DEF Inv, BuilderStarted
<1>20. CASE ReceiveEvent
  <2>1. UNCHANGED <<deployment, db, bp>> /\ ntb.step = "running"
    BY <1>20 DEF ReceiveEvent, Fixed
  <2>2. ntb'.step = ntb.step
    BY <1>20 DEF ReceiveEvent, Seen, Inv, ComponentType, Builder
  <2> QED BY <2>1, <2>2 DEF Inv, BuilderStarted
<1>21. CASE OptimizeDb
  <2>1. db'.tip = db.tip /\ UNCHANGED <<deployment, bp, ntb>>
    BY <1>21 DEF OptimizeDb, Analyzed, Fixed, Running, Inv, DiskType, Databases
  <2> QED BY <2>1 DEF Inv, BuilderStarted
<1>22. CASE SubmitProvenTransaction
  <2>1. PICK t : Add(t)
    BY <1>22 DEF SubmitProvenTransaction
  <2>2. UNCHANGED <<deployment, db, bp>> /\ Notify(<<"added", t>>)
    BY <2>1 DEF Add, Fixed
  <2> QED BY <2>2, NotifiedSteps DEF Inv, BuilderStarted
<1>23. CASE SubmitNetworkTransaction
  <2>1. PICK t : Add(t)
    BY <1>23 DEF SubmitNetworkTransaction
  <2>2. UNCHANGED <<deployment, db, bp>> /\ Notify(<<"added", t>>)
    BY <2>1 DEF Add, Fixed
  <2> QED BY <2>2, NotifiedSteps DEF Inv, BuilderStarted
<1>24. CASE ProduceBlock
  <2>1. UNCHANGED <<deployment, bp>> /\ bp.step = "producing" /\ Notify(<<"committed", mempool.txs>>)
    BY <1>24 DEF ProduceBlock, Fixed
  <2>2. ntb.step \in {"off", "checkpoint", "running"}
    BY <2>1 DEF Inv, BuilderStarted
  <2>3. /\ ntb'.step = ntb.step
        /\ ntb.step \notin {"checkpoint", "running"} => ntb' = ntb
    BY <2>1, NotifiedSteps
  <2> QED BY <2>1, <2>2, <2>3 DEF Inv, BuilderStarted
<1>25. CASE Crash
  <2>1. UNCHANGED <<deployment, db>> /\ bp' \in {bp, NoProducer} /\ ntb' \in {ntb, NoBuilder}
    BY <1>25 DEF Crash, EndStore, EndProducer, EndAll, Fixed, Running
  <2>2. \/ ntb' = NoBuilder /\ bp' = NoProducer
        \/ ntb' = ntb /\ (bp' = bp \/ ~Bundled)
    BY <1>25 DEF Crash, EndStore, EndProducer, EndAll, Fixed, Running
  <2> QED BY <2>1, <2>2, NothingRuns DEF Inv, BuilderStarted, Bundled
<1>26. CASE UNCHANGED vars
  BY <1>26 DEF vars, Inv, BuilderStarted
<1> QED
  BY <1>1, <1>2, <1>3, <1>4, <1>5, <1>6, <1>7, <1>8, <1>9, <1>10, <1>11, <1>12, <1>13,
     <1>14, <1>15, <1>16, <1>17, <1>18, <1>19, <1>20, <1>21, <1>22, <1>23, <1>24, <1>25,
     <1>26
  DEF Next, Bootstrap, StoreStep, ProducerStep, BuilderStep

(* What a builder will know after all the events on their way.              *)
View(b) == Views(b)[Len(b.events)]

InSync(b, m) ==
    b.step \in {"checkpoint", "running"} =>
        View(b).loaded = m.tip /\ View(b).txs = m.txs

(* BuilderInSync is InSync of the two components.                           *)
LEMMA InSyncIs ==
    /\ BuilderInSync => InSync(ntb, mempool)
    /\ InSync(ntb', mempool') => BuilderInSync'
BY DEF BuilderInSync, InSync, View

(* Without events the builder knows what it knows.                          *)
LEMMA ViewOfNone ==
    ASSUME NEW b \in Builder, b.events = <<>>
    PROVE  View(b) = b
<1>1. IsViews(Views(b), b) /\ Len(b.events) = 0
  BY ViewsDefined
<1> QED BY <1>1 DEF IsViews, View

(* What else changes of a builder does not matter.                          *)
LEMMA ViewAfterSame ==
    ASSUME NEW x \in Builder, NEW y \in Builder, x.events = y.events, Agree(x, y)
    PROVE  Agree(View(x), View(y))
<1> DEFINE N == Len(x.events)
<1>1. N \in Nat /\ IsViews(Views(x), x)
  BY ViewsDefined
<1>2. Views(x)[0] = x
  BY <1>1 DEF IsViews
<1>3. \A n \in 1 .. N : x.events[0 + n] = y.events[n]
  BY <1>1
<1>4. Agree(Views(x)[0 + N], Views(y)[N])
  BY <1>1, <1>2, <1>3, ViewsAgree
<1> QED BY <1>1, <1>4 DEF View

(* Receiving an event does not change what will be known in the end.        *)
LEMMA ViewAfterReceive ==
    ASSUME NEW x \in Builder, NEW y \in Builder, x.events # <<>>,
           y = [Seen(x, Head(x.events)) EXCEPT !.events = Tail(@)]
    PROVE  Agree(View(x), View(y))
<1>0. x.events \in Seq(Event) /\ Len(x.events) \in Nat
  BY LenProperties DEF Builder
<1>1. /\ Head(x.events) \in Event /\ Head(x.events) = x.events[1]
      /\ Tail(x.events) \in Seq(Event)
      /\ Len(Tail(x.events)) = Len(x.events) - 1
      /\ \A i \in 1 .. Len(Tail(x.events)) : Tail(x.events)[i] = x.events[i + 1]
  BY <1>0, HeadTailProperties
<1>2. PICK s \in Builder : s = Seen(x, Head(x.events))
  BY <1>1, SeenType
<1>3. s.events = x.events
  BY <1>2 DEF Seen, Builder
<1>4. y.events = Tail(x.events) /\ Agree(s, y)
  BY <1>2, <1>3 DEF Agree, Builder
<1> DEFINE N == Len(y.events)
<1>5. N \in Nat /\ Len(x.events) = 1 + N
  <2>1. N = Len(x.events) - 1
    BY <1>1, <1>4
  <2>2. Len(x.events) # 0
    BY <1>0, EmptySeq
  <2> QED BY <1>0, <2>1, <2>2
<1>6. \A n \in 1 .. N : x.events[1 + n] = y.events[n]
  <2> TAKE n \in 1 .. N
  <2>1. Tail(x.events)[n] = x.events[n + 1]
    BY <1>1, <1>4
  <2>2. n + 1 = 1 + n
    OBVIOUS
  <2> QED BY <1>4, <2>1, <2>2
<1>7. Views(x)[1] = s
  <2>1. IsViews(Views(x), x)
    BY ViewsDefined
  <2>2. 1 \in 0 .. Len(x.events) /\ 0 \in 0 .. Len(x.events)
    BY <1>5
  <2>3. Views(x)[0] = x
    BY <2>1, <2>2 DEF IsViews
  <2>4. Views(x)[1] = Seen(Views(x)[1 - 1], x.events[1])
    BY <2>1, <2>2, 1 # 0 DEF IsViews
  <2> QED BY <1>1, <1>2, <2>3, <2>4
<1>8. Agree(Views(x)[1 + N], Views(y)[N])
  <2>1. Agree(Views(x)[1], y)
    BY <1>4, <1>7
  <2>2. 1 + N <= Len(x.events) /\ N <= Len(y.events) /\ 1 \in Nat
    BY <1>5
  <2> HIDE DEF N
  <2> QED BY <1>5, <1>6, <2>1, <2>2, ViewsAgree
<1> QED BY <1>5, <1>8 DEF View

(* A further event is the last to be seen.                                  *)
LEMMA ViewAfterAppend ==
    ASSUME NEW x \in Builder, NEW y \in Builder, NEW e \in Event,
           y = [x EXCEPT !.events = Append(x.events, e)]
    PROVE  /\ Agree(View(y), Seen(View(x), e))
           /\ View(x) \in Builder
<1>0. x.events \in Seq(Event)
  BY DEF Builder
<1> DEFINE N == Len(x.events)
<1>1. N \in Nat /\ \A n \in 0 .. N : Views(x)[n] \in Builder
  BY ViewsDefined
<1>2. y.events = Append(x.events, e) /\ Agree(y, x)
  BY DEF Agree, Builder
<1>3. Len(y.events) = N + 1 /\ y.events[N + 1] = e /\ \A n \in 1 .. N : y.events[0 + n] = x.events[n]
  BY <1>0, <1>1, <1>2, AppendProperties
<1>4. /\ IsViews(Views(y), y)
      /\ \A n \in 0 .. Len(y.events) : Views(y)[n] \in Builder
  BY ViewsDefined
<1>a. 0 \in 0 .. Len(y.events) /\ N \in 0 .. Len(y.events) /\ N \in 0 .. N /\ 0 + N = N
  BY <1>1, <1>3
<1>5. Views(y)[0] = y
  BY <1>a, <1>4 DEF IsViews
<1>6. Agree(Views(y)[0 + N], Views(x)[N])
  <2>1. Agree(Views(y)[0], x)
    BY <1>2, <1>5
  <2>2. 0 + N <= Len(y.events) /\ N <= Len(x.events) /\ 0 \in Nat
    BY <1>1, <1>3
  <2> HIDE DEF N
  <2> QED BY <1>1, <1>3, <2>1, <2>2, ViewsAgree
<1>7. Views(y)[N + 1] = Seen(Views(y)[N], e)
  <2>1. N + 1 \in 0 .. Len(y.events) /\ N + 1 # 0 /\ (N + 1) - 1 = N
    BY <1>1, <1>3
  <2> QED BY <1>3, <1>4, <2>1 DEF IsViews
<1>8. Views(y)[N] \in Builder /\ Views(x)[N] \in Builder
  BY <1>1, <1>a, <1>4
<1>9. Agree(Seen(Views(y)[N], e), Seen(Views(x)[N], e))
  <2>1. Agree(Views(y)[N], Views(x)[N])
    BY <1>6, <1>a
  <2> QED BY <2>1, <1>8, SeenAgree
<1> QED BY <1>3, <1>7, <1>8, <1>9 DEF View

(* A transaction that is added and announced keeps the builder in sync.     *)
LEMMA AddedInSync ==
    ASSUME Inv, NEW t \in Tx, Notify(<<"added", t>>), ComponentType',
           mempool'.tip = mempool.tip, mempool'.txs = mempool.txs \cup {t}
    PROVE  BuilderInSync'
<1>0. /\ ntb \in Builder /\ ntb' \in Builder
      /\ InSync(ntb, mempool) /\ (InSync(ntb', mempool') => BuilderInSync')
  BY InSyncIs DEF Inv, ComponentType
<1>1. CASE ntb.step \notin {"checkpoint", "running"}
  BY <1>0, <1>1, NotifiedSteps DEF InSync
<1>2. CASE ntb.step \in {"checkpoint", "running"}
  <2>1. PICK e \in Event : e = <<"added", t>>
    BY DEF Event
  <2>2. ntb' = [ntb EXCEPT !.events = Append(ntb.events, e)]
    BY <1>2, <2>1 DEF Notify
  <2>3. Agree(View(ntb'), Seen(View(ntb), e)) /\ View(ntb) \in Builder
    BY <1>0, <2>2, ViewAfterAppend
  <2>4. /\ Seen(View(ntb), e).loaded = View(ntb).loaded
        /\ Seen(View(ntb), e).txs = View(ntb).txs \cup {t}
    BY <2>1, <2>3 DEF Seen, Builder
  <2> QED BY <1>0, <1>2, <2>3, <2>4 DEF InSync, Agree
<1> QED BY <1>1, <1>2

(* So does a block that is committed and announced.                         *)
LEMMA CommittedInSync ==
    ASSUME Inv, Notify(<<"committed", mempool.txs>>), ComponentType',
           mempool'.tip = mempool.tip + 1, mempool'.txs = {}
    PROVE  BuilderInSync'
<1>0. /\ ntb \in Builder /\ ntb' \in Builder /\ mempool.txs \in SUBSET Tx
      /\ InSync(ntb, mempool) /\ (InSync(ntb', mempool') => BuilderInSync')
  BY InSyncIs DEF Inv, ComponentType
<1>1. PICK e \in Event : e = <<"committed", mempool.txs>>
  BY <1>0 DEF Event
<1>2. CASE ntb.step \notin {"checkpoint", "running"}
  <2>1. ntb'.step = ntb.step
    BY NotifiedSteps
  <2> QED BY <1>0, <1>2, <2>1 DEF InSync
<1>3. CASE ntb.step \in {"checkpoint", "running"}
  <2>1. ntb' = [ntb EXCEPT !.events = Append(ntb.events, e)]
    BY <1>1, <1>3 DEF Notify
  <2>2. Agree(View(ntb'), Seen(View(ntb), e)) /\ View(ntb) \in Builder
    BY <1>0, <2>1, ViewAfterAppend
  <2>3. /\ Seen(View(ntb), e).loaded = View(ntb).loaded + 1
        /\ Seen(View(ntb), e).txs = View(ntb).txs \ mempool.txs
    BY <1>1, <2>2 DEF Seen, Builder
  <2> QED BY <1>0, <1>3, <2>2, <2>3 DEF InSync, Agree
<1> QED BY <1>2, <1>3

(***************************************************************************)
(* With the events on their way the builder knows what the mempool knows,  *)
(* from the moment it subscribes.                                          *)
(***************************************************************************)
LEMMA BuilderInSyncStep == Inv /\ [Next]_vars => BuilderInSync'
<1> SUFFICES ASSUME Inv, [Next]_vars
             PROVE  BuilderInSync'
  OBVIOUS
<1>0. /\ ntb \in Builder /\ ntb' \in Builder
      /\ InSync(ntb, mempool) /\ (InSync(ntb', mempool') => BuilderInSync')
  BY ComponentTypeStep, InSyncIs DEF Inv, ComponentType
<1>1. CASE OpenAccountFile \/ WriteAccountFile \/ CreateBlockStore \/ SaveGenesisFile \/
           InsertGenesis \/ Migrate \/ SaveHash \/ Optimize \/ SaveVersion \/ Serve \/
           OptimizeDb \/ StartProducer
  <2>1. UNCHANGED <<ntb, mempool>>
    BY <1>1 DEF CreateBlockStore, InsertGenesis, Migrate, OpenAccountFile, Optimize, OptimizeDb,
       SaveGenesisFile, SaveHash, SaveVersion, Serve, StartProducer, WriteAccountFile,
       Fixed, Running
  <2> QED BY <2>1 DEF Inv, BuilderInSync
<1>2. CASE Start
  <2>1. UNCHANGED mempool /\ ntb' \in {ntb, [ntb EXCEPT !.step = "genesis"]}
    BY <1>2 DEF Start
  <2>2. ntb' = ntb \/ ntb'.step = "genesis"
    BY <2>1 DEF Inv, ComponentType, Builder
  <2> QED BY <2>1, <2>2 DEF Inv, BuilderInSync
<1>3. CASE CheckVersion
  <2>1. ntb' = NoBuilder \/ UNCHANGED <<ntb, mempool>> \/ (ntb' = ntb /\ ~Bundled)
    BY <1>3 DEF CheckVersion, EndStore, EndAll, Running
  <2> QED BY <2>1, NothingRuns DEF Inv, BuilderInSync, BuilderStarted, Bundled
<1>4. CASE LoadBlockStore
  <2>1. ntb' = NoBuilder \/ UNCHANGED <<ntb, mempool>> \/ (ntb' = ntb /\ ~Bundled)
    BY <1>4 DEF LoadBlockStore, EndStore, EndAll, Running
  <2> QED BY <2>1, NothingRuns DEF Inv, BuilderInSync, BuilderStarted, Bundled
<1>5. CASE RetryTip
  <2>1. ntb' = NoBuilder \/ UNCHANGED <<ntb, mempool>> \/ (ntb' = ntb /\ ~Bundled)
    BY <1>5 DEF RetryTip, EndProducer, EndAll, Running
  <2> QED BY <2>1, NothingRuns DEF Inv, BuilderInSync, BuilderStarted, Bundled
<1>6. CASE FetchTip
  <2>1. ntb.step \notin {"checkpoint", "running"}
    BY <1>6 DEF FetchTip, Inv, BuilderStarted
  <2>2. ntb' \in {ntb, NoBuilder}
    BY <1>6 DEF FetchTip, EndProducer, EndAll
  <2> QED BY <2>1, <2>2, NothingRuns DEF BuilderInSync
<1>7. CASE Bind
  <2>1. ntb' = NoBuilder \/ UNCHANGED <<ntb, mempool>> \/ (ntb' = ntb /\ ~Bundled)
    BY <1>7 DEF Bind, EndProducer, EndAll, Running
  <2> QED BY <2>1, NothingRuns DEF Inv, BuilderInSync, BuilderStarted, Bundled
<1>8. CASE PassCheckpoint
  <2>1. mempool' = mempool
    BY <1>8 DEF PassCheckpoint
  <2>2. CASE ntb.step # "checkpoint"
    BY <1>8, <2>1, <2>2 DEF PassCheckpoint, Inv, BuilderInSync
  <2>3. CASE ntb.step = "checkpoint"
    <3>1. ntb' = [ntb EXCEPT !.step = "running"]
      BY <1>8, <2>3 DEF PassCheckpoint
    <3>2. ntb'.events = ntb.events /\ Agree(ntb, ntb')
      BY <3>1 DEF Inv, ComponentType, Builder, Agree
    <3>3. Agree(View(ntb), View(ntb'))
      BY <1>0, <3>2, ViewAfterSame
    <3> QED BY <1>0, <2>1, <2>3, <3>3 DEF InSync, Agree
  <2> QED BY <2>2, <2>3
<1>9. CASE FetchGenesis
  <2>1. ntb' = NoBuilder \/ ntb'.step = "load"
    BY <1>9 DEF FetchGenesis, EndAll, Inv, ComponentType, Builder
  <2> QED BY <2>1, NothingRuns DEF BuilderInSync
<1>10. CASE LoadNotes
  <2>1. ntb' = NoBuilder \/ ntb'.step = "chain tip"
    BY <1>10 DEF LoadNotes, Inv, ComponentType, Builder
  <2> QED BY <2>1, NothingRuns DEF BuilderInSync
<1>11. CASE GetCurrentBlockchainData
  <2>1. ntb' = NoBuilder \/ ntb'.step = "subscribe"
    BY <1>11 DEF GetCurrentBlockchainData, Inv, ComponentType, Builder
  <2> QED BY <2>1, NothingRuns DEF BuilderInSync
<1>12. CASE RetrySubscribe
  <2>1. ntb' = NoBuilder \/ ntb'.step = "subscribe"
    BY <1>12 DEF RetrySubscribe, EndAll, Inv, ComponentType, Builder
  <2> QED BY <2>1, NothingRuns DEF BuilderInSync
<1>13. CASE Subscribe
  <2>1. CASE ntb.tip # mempool.tip
    <3>1. ntb' = NoBuilder
      BY <1>13, <2>1 DEF Subscribe, EndAll
    <3> QED BY <3>1, NothingRuns DEF BuilderInSync
  <2>2. CASE ntb.tip = mempool.tip
    <3>1. /\ ntb' = [ntb EXCEPT !.step = "checkpoint", !.txs = mempool.txs]
          /\ mempool' = mempool
          /\ ntb.step = "subscribe"
      BY <1>13, <2>2 DEF Subscribe
    <3>2. ntb.events = <<>> /\ ntb.loaded = mempool.tip
      BY <2>2, <3>1 DEF Inv, BuilderStarted
    <3>3. ntb'.events = <<>> /\ ntb'.loaded = mempool.tip /\ ntb'.txs = mempool.txs
      BY <3>1, <3>2 DEF Inv, ComponentType, Builder
    <3>4. View(ntb') = ntb'
      BY <1>0, <3>3, ViewOfNone
    <3> QED BY <1>0, <3>1, <3>3, <3>4 DEF InSync
  <2> QED BY <2>1, <2>2
<1>14. CASE ReceiveEvent
  <2>1. /\ ntb.events # <<>> /\ mempool' = mempool /\ ntb.step = "running"
        /\ ntb' = [Seen(ntb, Head(ntb.events)) EXCEPT !.events = Tail(@)]
    BY <1>14 DEF ReceiveEvent
  <2>2. Agree(View(ntb), View(ntb'))
    BY <1>0, <2>1, ViewAfterReceive
  <2> QED BY <1>0, <2>1, <2>2 DEF InSync, Agree
<1>15. CASE SubmitProvenTransaction
  <2>1. PICK t \in Tx : Add(t)
    BY <1>15, NodeAssumption DEF SubmitProvenTransaction
  <2>2. Notify(<<"added", t>>) /\ mempool' = [mempool EXCEPT !.txs = mempool.txs \cup {t}]
    BY <2>1 DEF Add
  <2>3. mempool'.tip = mempool.tip /\ mempool'.txs = mempool.txs \cup {t}
    BY <2>2 DEF Inv, ComponentType
  <2> QED BY <2>2, <2>3, ComponentTypeStep, AddedInSync
<1>16. CASE SubmitNetworkTransaction
  <2>1. PICK t \in Tx : Add(t)
    BY <1>16, NodeAssumption DEF SubmitNetworkTransaction
  <2>2. Notify(<<"added", t>>) /\ mempool' = [mempool EXCEPT !.txs = mempool.txs \cup {t}]
    BY <2>1 DEF Add
  <2>3. mempool'.tip = mempool.tip /\ mempool'.txs = mempool.txs \cup {t}
    BY <2>2 DEF Inv, ComponentType
  <2> QED BY <2>2, <2>3, ComponentTypeStep, AddedInSync
<1>17. CASE ProduceBlock
  <2>1. /\ Notify(<<"committed", mempool.txs>>)
        /\ mempool'.tip = mempool.tip + 1 /\ mempool'.txs = {}
    BY <1>17 DEF ProduceBlock
  <2> QED BY <2>1, ComponentTypeStep, CommittedInSync
<1>18. CASE Crash
  <2>1. ntb' = NoBuilder \/ UNCHANGED <<ntb, mempool>> \/ (ntb' = ntb /\ ~Bundled)
    BY <1>18 DEF Crash, EndStore, EndProducer, EndAll, Running
  <2> QED BY <2>1, NothingRuns DEF Inv, BuilderInSync, BuilderStarted, Bundled
<1>19. CASE UNCHANGED vars
  BY <1>19 DEF vars, Inv, BuilderInSync
<1> QED
  BY <1>1, <1>2, <1>3, <1>4, <1>5, <1>6, <1>7, <1>8, <1>9, <1>10, <1>11, <1>12, <1>13,
     <1>14, <1>15, <1>16, <1>17, <1>18, <1>19
  DEF Next, Bootstrap, StoreStep, ProducerStep, BuilderStep

-----------------------------------------------------------------------------
(* THE INVARIANT AND THE THEOREMS                                           *)

(* An empty data directory and no process.                                  *)
LEMMA InvInit == Init => Inv
<1> SUFFICES ASSUME Init
             PROVE  Inv
  OBVIOUS
<1>0. /\ None \notin {"bootstrap", "start"}
      /\ store = NoStore /\ bp = NoProducer /\ mempool = NoMempool /\ ntb = NoBuilder
      /\ db = EmptyDb /\ NoStore.step = "off" /\ NoStore.cmd = None
  BY OffType DEF Init
<1>1. StoreType
  BY <1>0 DEF StoreType, NoStore
<1>2. DiskType
  <2>1. db \in Databases
    <3>1. 0 \in 0 .. 2 /\ -1 \in -1 .. MaxBlocks
      BY BoundsAreNaturals
    <3> QED BY <1>0, <3>1 DEF EmptyDb, Databases
  <2>2. db.tip = -1 /\ db.genesis = None
    BY <1>0 DEF EmptyDb
  <2> QED BY <2>1, <2>2 DEF DiskType, Init
<1>3. ComponentType
  <2>1. faults \in FaultCounts
    <3>1. 0 \in 0 .. MaxCrashes /\ 0 \in 0 .. MaxPortsTaken /\ 0 \in 0 .. MaxOverflows
      BY BoundsAreNaturals
    <3> QED BY <3>1 DEF Init, FaultCounts
  <2> QED BY <1>0, <2>1, OffComponents DEF ComponentType, Init
<1>4. Migration /\ Migrated
  BY <1>0 DEF Migration, Migrated, EmptyDb
<1>5. FilesWritten
  BY <1>0 DEF FilesWritten, GenesisConsistent, EmptyDb
<1>6. OneProcess
  BY <1>0 DEF OneProcess
<1>7. OnTip /\ BuilderStarted /\ BuilderInSync
  BY <1>0 DEF OnTip, BuilderStarted, BuilderInSync, NoProducer, NoMempool, NoBuilder
<1> QED BY <1>1, <1>2, <1>3, <1>4, <1>5, <1>6, <1>7 DEF Inv

(* Every step keeps every part of the invariant.                            *)
LEMMA InvStep == Inv /\ [Next]_vars => Inv'
BY StoreTypeStep, DiskTypeStep, ComponentTypeStep, MigrationStep, FilesStep, OneProcessStep,
   OnTipStep, BuilderStartedStep, BuilderInSyncStep DEF Inv

(* The invariant holds throughout, for any number of crashes, restarts,     *)
(* repeated bootstraps and outages, whichever way the node is deployed.     *)
THEOREM Invariance == Spec => []Inv
<1>1. Init => Inv
  BY InvInit
<1>2. Inv /\ [Next]_vars => Inv'
  BY InvStep
<1> QED BY <1>1, <1>2, PTL DEF Spec

(* The genesis block in the database is the one in the block files, its     *)
(* keys are on disk and its faucets have issued what its wallets hold, for  *)
(* every accepted configuration and every way bootstrap was interrupted     *)
(* and repeated (Store::bootstrap, GenesisConfig::into_state).              *)
THEOREM GenesisAlwaysSound == Spec => []GenesisSound
<1>1. Inv => GenesisSound
  <2> SUFFICES ASSUME Inv
               PROVE  GenesisSound
    OBVIOUS
  <2>1. GenesisConsistent
    BY DEF Inv, FilesWritten
  <2>2. GenesisBalanced
    <3> SUFFICES ASSUME db.genesis # None
                 PROVE  Balanced(db.genesis)
      BY DEF GenesisBalanced
    <3>1. db.genesis \in Geneses
      BY DEF Inv, DiskType, Databases
    <3>2. PICK config \in Config : Accepted(config) /\ db.genesis = IntoState(config)
      BY <3>1 DEF Geneses
    <3> QED BY <3>2, AcceptedIsBalanced
  <2>3. TypeOK
    <3>1. store.cmd \in {None, "bootstrap", "start"} /\ (store.step = "off" <=> store.cmd = None)
      BY DEF Inv, StoreType
    <3>2. /\ db.tip \in -1 .. MaxBlocks /\ (db.tip = -1 <=> db.genesis = None)
          /\ db.schema \in 0 .. 2 /\ db.saved \in {None} \cup 0 .. 2
      BY DEF Inv, DiskType, Databases
    <3>3. /\ bp.step \in {"off", "fetch tip", "bind", "checkpoint", "producing"}
          /\ bp.retries \in 0 .. ShiftBits - 1
      BY DEF Inv, ComponentType, Producer, Retries
    <3>4. /\ ntb.step \in {"off", "genesis", "load", "chain tip", "subscribe", "checkpoint", "running"}
          /\ ntb.retries \in 0 .. ShiftBits - 1
          /\ ntb.txs \in SUBSET Tx
      BY DEF Inv, ComponentType, Builder
    <3>5. mempool.txs \in SUBSET Tx /\ faults \in FaultCounts
      BY DEF Inv, ComponentType
    <3>6. mempool.tip # -1 <=> bp.step \in {"bind", "checkpoint", "producing"}
      BY DEF Inv, OnTip
    <3>7. mempool.txs \cup ntb.txs \subseteq Tx /\ {bp.retries, ntb.retries} \subseteq 0 .. ShiftBits - 1
      BY <3>3, <3>4, <3>5
    <3> QED BY <3>1, <3>2, <3>3, <3>4, <3>5, <3>6, <3>7, Zenon DEF TypeOK, FaultCounts
  <2> QED BY <2>1, <2>2, <2>3 DEF GenesisSound
<1> QED BY <1>1, Invariance, PTL

(* A database that holds the genesis block passes the version check of the  *)
(* next start (apply_migrations), at whatever point a process ended.        *)
THEOREM RestartsAccepted == Spec => []RestartAccepted
<1>1. Inv => RestartAccepted
  BY DEF Inv, Migration, RestartAccepted, Supported
<1> QED BY <1>1, Invariance, PTL

(* A block producer that produces is on the store's tip, and the network    *)
(* transaction builder misses nothing between loading the store's notes and *)
(* subscribing: with the events on their way it knows every block and every *)
(* inflight transaction (BlockProducer::serve, serve_new and the            *)
(* checkpoint between them).                                                *)
THEOREM ComponentsStayInSync == Spec => []ComponentsInSync
<1>1. Inv => ComponentsInSync
  BY DEF Inv, OnTip, ProducesOnTip, ComponentsInSync
<1> QED BY <1>1, Invariance, PTL
=============================================================================

------------------------------- MODULE Faucet -------------------------------
(***************************************************************************)
(* The faucet (bin/faucet): its web server, which hands out proof-of-work  *)
(* challenges and takes mint requests, and its minter, which turns batches *)
(* of requests into transactions of the faucet account and follows the     *)
(* state of that account on the node.                                      *)
(*                                                                         *)
(* A state of the faucet account is the sequence of the transactions that  *)
(* made it.  << >> is the account as it is in the account file: the node   *)
(* does not know the account yet.  The node is external: the committed     *)
(* state, and the faucet's transactions in the mempool on top of it.       *)
(***************************************************************************)
EXTENDS Naturals, Sequences, FiniteSets, SequencesExt, ChallengeCache

CONSTANTS
    Clients,        \* one user each, who asks until tokens are minted
    AccountOf,      \* [Clients -> accounts]: where the tokens go
    KeyOf,          \* [Clients -> API keys]
    QueueSize,      \* REQUESTS_QUEUE_SIZE
    BatchLimit,     \* requests per transaction ("limit" in run)
    MaxPriorStates, \* prior states kept (1000 in update_state)
    Genesis,        \* the committed states the node may start with
    MaxFaults       \* bound: crashes, lost replies, dropped transactions, cancels

ASSUME FaucetAssumption ==
    /\ IsFiniteSet(Clients)
    /\ Genesis \subseteq Seq(Nat)
    /\ {QueueSize, BatchLimit, MaxPriorStates, MaxFaults} \subseteq Nat
    /\ BatchLimit > 0

\* Clients of the same account and key can use one another's challenge.
Holder(c) == <<AccountOf[c], KeyOf[c]>>
Holders == {Holder(c) : c \in Clients}
NoChallenge == Lifetime + 2

VARIABLES
    pc,        \* the minter: "down", "idle", "proven", "submitted"
    local,     \* FaucetDataStore.faucet_account
    prior,     \* Faucet.prior_state
    requests,  \* the channel from the server to the minter
    batch,     \* the requests of the transaction at hand
    reply,     \* the node's answer to the submission
    cache,     \* PoW.challenge_cache
    challenge, \* per holder: the age of the latest challenge handed out
    client,    \* per client: what has become of the mint request
    committed, \* node: the faucet account in the store
    inflight,  \* node: the faucet's transactions in the mempool
    txs,       \* number of transactions the node accepted
    faults,    \* faults so far
    behind,    \* history: the state was loaded while transactions were inflight
    dropped,   \* history: the node dropped transactions since the state was loaded
    forgotten, \* history: prior states were dropped because of the limit
    used       \* history: per holder, how the challenge was used

minterVars == <<pc, local, prior, requests, batch, reply, behind, dropped, forgotten>>
serverVars == <<cache, challenge, used>>
nodeVars == <<committed, inflight, txs>>
vars == <<minterVars, serverVars, client, nodeVars, faults>>

NodeState == committed \o inflight

MinterType ==
    /\ pc \in {"down", "idle", "proven", "submitted"}
    /\ local \in Seq(Nat) /\ prior \in Seq(Seq(Nat))
    /\ requests \in Seq(Clients) /\ Len(requests) <= QueueSize
    /\ batch \subseteq Clients
    /\ {behind, dropped, forgotten} \subseteq BOOLEAN

ServerType ==
    /\ challenge \in [Holders -> Ages \cup {NoChallenge}]
    /\ used \in [Holders -> {"no", "once", "late", "twice"}]
    /\ client \in [Clients -> {"none", "checked", "queued", "cancelled",
                               "minting", "minted"}]

NodeType ==
    /\ committed \in Seq(Nat) /\ inflight \in Seq(Nat)
    /\ txs \in Nat /\ faults \in 0..MaxFaults

TypeOK == MinterType /\ ServerType /\ NodeType

Fault == faults < MaxFaults /\ faults' = faults + 1

-----------------------------------------------------------------------------
(* The web server. *)

\* get_pow: a challenge for the account and key, signed, with the time.
GetPow(c) ==
    LET h == Holder(c)
    IN /\ pc # "down"
       /\ client[c] = "none"
       /\ challenge[h] = NoChallenge \/ IsExpired(challenge[h])
       /\ challenge' = [challenge EXCEPT ![h] = 0]
       /\ used' = [used EXCEPT ![h] = "no"]
       /\ UNCHANGED <<minterVars, cache, client, nodeVars, faults>>

\* Challenge::decode and validate_pow: the server's signature over account, key
\* and time, and the solution.  The clients of the model only ever send a
\* challenge they were given, solved.
ValidChallenge(h) == challenge[h] # NoChallenge

\* get_tokens, RawMintRequest::validate, PoW::submit_challenge up to the lock:
\* the time is read, and the expiry, account, key and solution are checked.
\* A challenge that fails is refused and the client needs a new one.
CheckChallenge(c) ==
    /\ pc # "down"
    /\ client[c] = "none"
    /\ ValidChallenge(Holder(c))
    /\ ~IsExpired(challenge[Holder(c)])
    /\ client' = [client EXCEPT ![c] = "checked"]
    /\ UNCHANGED <<minterVars, serverVars, nodeVars, faults>>

\* How the challenge has been used after one more acceptance.
UsedAgain(h) ==
    IF IsExpired(challenge[h]) THEN "late"
    ELSE IF used[h] = "no" THEN "once" ELSE "twice"

\* PoW::submit_challenge under the lock of the cache, then the request goes to
\* the minter.  The challenge is spent even if the minter's queue is full.
SubmitChallenge(c) ==
    LET h == Holder(c)
        ch == [account |-> AccountOf[c], key |-> KeyOf[c], age |-> challenge[h]]
        accepted == /\ ~HasChallengeForAccount(cache, AccountOf[c])
                    /\ IsNewChallenge(cache, ch)
        sent == accepted /\ Len(requests) < QueueSize
    IN /\ client[c] = "checked"
       /\ cache' = IF accepted THEN InsertChallenge(cache, ch) ELSE cache
       /\ used' = IF accepted THEN [used EXCEPT ![h] = UsedAgain(h)] ELSE used
       /\ requests' = IF sent THEN Append(requests, c) ELSE requests
       /\ client' = [client EXCEPT ![c] = IF sent THEN "queued" ELSE "none"]
       /\ UNCHANGED <<pc, local, prior, batch, reply, behind, dropped, forgotten, challenge,
                      nodeVars, faults>>

\* The client closes the connection while the request waits.
Cancel(c) ==
    /\ client[c] = "queued"
    /\ client' = [client EXCEPT ![c] = "cancelled"]
    /\ Fault
    /\ UNCHANGED <<minterVars, serverVars, nodeVars>>

\* The clean-up task of the cache.
RunCleanup ==
    /\ pc # "down"
    /\ cache' = CleanupExpiredChallenges(cache)
    /\ UNCHANGED <<minterVars, challenge, used, client, nodeVars, faults>>

Tick ==
    /\ cache' = Aged(cache)
    /\ challenge' = [h \in Holders |->
                       IF challenge[h] = NoChallenge THEN NoChallenge
                       ELSE Older(challenge[h])]
    /\ UNCHANGED <<minterVars, used, client, nodeVars, faults>>

-----------------------------------------------------------------------------
(* The minter. *)

\* The process ends, with an error the minter does not recover from or by a
\* crash: the queue, the cache and the prior states are gone, and the clients'
\* connections break.
Stop ==
    /\ pc' = "down"
    /\ local' = << >> /\ prior' = << >> /\ requests' = << >> /\ batch' = {}
    /\ reply' = << >> /\ behind' = FALSE /\ dropped' = FALSE /\ forgotten' = FALSE
    /\ cache' = EmptyCache
    /\ used' = [h \in Holders |-> "no"]
    /\ client' = [c \in Clients |-> IF client[c] = "minted" THEN "minted" ELSE "none"]

\* RpcClient::get_faucet_account: the transactions in the mempool are not part
\* of the state it returns.
GetFaucetAccount == committed

\* Faucet::load: the committed state, or the account file if there is none.
Load ==
    /\ pc = "down"
    /\ pc' = "idle"
    /\ local' = GetFaucetAccount
    /\ behind' = (inflight # << >>) /\ dropped' = FALSE
    /\ UNCHANGED <<prior, requests, batch, reply, forgotten, serverVars, client, nodeVars,
                   faults>>

\* run takes what is in the queue, up to the limit, without the requests that
\* were cancelled; the notes are built, the transaction executed and proven.
\* A remote prover that fails is replaced by the local one.
HandleRequestBatch ==
    LET n == IF Len(requests) < BatchLimit THEN Len(requests) ELSE BatchLimit
        taken == SubSeq(requests, 1, n)
        open == {c \in ToSet(taken) : client[c] = "queued"}
    IN /\ pc = "idle"
       /\ n > 0
       /\ pc' = "proven"
       /\ batch' = open
       /\ requests' = SubSeq(requests, n + 1, Len(requests))
       /\ client' = [c \in Clients |->
                       IF c \in open THEN "minting"
                       ELSE IF c \in ToSet(taken) THEN "none" ELSE client[c]]
       /\ UNCHANGED <<local, prior, reply, behind, dropped, forgotten, serverVars, nodeVars,
                      faults>>

\* The node takes the transaction if it starts from the account's state there,
\* and otherwise answers with that state.
SubmitTransaction ==
    /\ pc = "proven"
    /\ pc' = "submitted"
    /\ IF local = NodeState
       THEN /\ txs' = txs + 1
            /\ inflight' = Append(inflight, txs + 1)
            /\ reply' = [accepted |-> TRUE, tx |-> txs + 1]
       ELSE /\ reply' = [accepted |-> FALSE, onchain |-> NodeState]
            /\ UNCHANGED <<txs, inflight>>
    /\ UNCHANGED <<local, prior, requests, batch, behind, dropped, forgotten, serverVars,
                   client, committed, faults>>

\* Mistake: the new state is stored for the rollback in place of the old one.
UpdateStateAfter ==
    /\ prior' = Append(IF Len(prior) > MaxPriorStates THEN Tail(prior) ELSE prior,
                       Append(local, reply.tx))
    /\ local' = Append(local, reply.tx)
    /\ forgotten' = (forgotten \/ Len(prior) > MaxPriorStates)

\* Mistake: the delta is not applied.
UpdateStateWithoutDelta ==
    /\ prior' = Append(IF Len(prior) > MaxPriorStates THEN Tail(prior) ELSE prior,
                       local)
    /\ local' = local
    /\ forgotten' = (forgotten \/ Len(prior) > MaxPriorStates)

\* The state before the update is kept for a rollback.
UpdateState ==
    /\ prior' = Append(IF Len(prior) > MaxPriorStates THEN Tail(prior) ELSE prior,
                       local)
    /\ local' = Append(local, reply.tx)
    /\ forgotten' = (forgotten \/ Len(prior) > MaxPriorStates)

\* The transaction was accepted: the clients get their notes.
Minted ==
    /\ pc = "submitted" /\ reply.accepted
    /\ pc' = "idle"
    /\ UpdateState
    /\ batch' = {} /\ reply' = << >>
    /\ client' = [c \in Clients |-> IF c \in batch THEN "minted" ELSE client[c]]
    /\ UNCHANGED <<requests, behind, dropped, serverVars, nodeVars, faults>>

\* Where the node's state is among the prior ones.  The answer "none" for an
\* account without a committed state stands for a commitment no state has.
RollbackPositions ==
    {i \in DOMAIN prior : prior[i] = reply.onchain /\ reply.onchain # << >>}

\* The oldest prior state with the node's commitment becomes the local state,
\* and it and all later ones are dropped, and so are the requests of the batch.
Rollback ==
    /\ pc' = "idle"
    /\ \E i \in RollbackPositions :
          /\ \A j \in RollbackPositions : i <= j
          /\ local' = prior[i]
          /\ prior' = SubSeq(prior, 1, i - 1)
    /\ batch' = {} /\ reply' = << >>
    /\ client' = [c \in Clients |-> IF c \in batch THEN "none" ELSE client[c]]
    /\ UNCHANGED <<requests, behind, dropped, forgotten, cache, used>>

\* What the node's answer to a mismatch says, as the phrases in it: the text of
\* VerifyTxError::IncorrectAccountInitialCommitment, which RPC passes on.
MismatchMessage ==
    {"transaction's initial state commitment", "does not match", "current value of"}

\* error_recovery takes an error for a mismatch if its message contains this.
IsDesync(message) == "incorrect initial state commitment" \in message

\* Mistake: the error is ignored, and the minter goes on from the state it has.
ErrorIgnored ==
    /\ pc = "submitted" /\ ~reply.accepted
    /\ pc' = "idle"
    /\ batch' = {} /\ reply' = << >>
    /\ client' = [c \in Clients |-> IF c \in batch THEN "none" ELSE client[c]]
    /\ UNCHANGED <<local, prior, requests, behind, dropped, forgotten, serverVars,
                   nodeVars, faults>>

\* error_recovery and handle_desync.  The message of a mismatch does not contain
\* what is looked for, so that every mismatch is fatal.
ErrorRecovery ==
    /\ pc = "submitted" /\ ~reply.accepted
    /\ IF IsDesync(MismatchMessage) /\ RollbackPositions # {} THEN Rollback ELSE Stop
    /\ UNCHANGED <<challenge, nodeVars, faults>>

\* Any other error of execution, proving or submission, a lost reply included,
\* is fatal, and so is a crash.
Crash ==
    /\ pc # "down"
    /\ Fault
    /\ Stop
    /\ UNCHANGED <<challenge, nodeVars>>

-----------------------------------------------------------------------------
(* The node. *)

CommitTransaction ==
    /\ inflight # << >>
    /\ committed' = Append(committed, Head(inflight))
    /\ inflight' = Tail(inflight)
    /\ UNCHANGED <<minterVars, serverVars, client, txs, faults>>

\* The node restarts, or a transaction expires or is reverted with the ones
\* that follow it.
DropTransactions ==
    /\ Fault
    /\ \E n \in 0..(Len(inflight) - 1) : inflight' = SubSeq(inflight, 1, n)
    /\ dropped' = TRUE
    /\ UNCHANGED <<pc, local, prior, requests, batch, reply, behind, forgotten, serverVars,
                   client, committed, txs>>

-----------------------------------------------------------------------------
Init ==
    /\ pc = "idle"
    /\ committed \in Genesis
    /\ local = committed
    /\ prior = << >> /\ requests = << >> /\ batch = {} /\ reply = << >>
    /\ cache = EmptyCache
    /\ challenge = [h \in Holders |-> NoChallenge]
    /\ client = [c \in Clients |-> "none"]
    /\ inflight = << >> /\ txs = 0
    /\ faults = 0
    /\ behind = FALSE /\ dropped = FALSE /\ forgotten = FALSE
    /\ used = [h \in Holders |-> "no"]

Mint ==
    \/ HandleRequestBatch
    \/ SubmitTransaction
    \/ Minted
    \/ ErrorRecovery

Next ==
    \/ \E c \in Clients :
          GetPow(c) \/ CheckChallenge(c) \/ SubmitChallenge(c) \/ Cancel(c)
    \/ RunCleanup
    \/ Tick
    \/ Mint
    \/ Load
    \/ Crash
    \/ CommitTransaction
    \/ DropTransactions

\* The minter, the clean-up, the service manager that restarts the process and
\* the node's blocks make progress.  A client keeps asking and, if it gets
\* challenges again and again, solves one in time.
Fairness ==
    /\ WF_vars(Mint)
    /\ WF_vars(Load)
    /\ WF_vars(RunCleanup)
    /\ WF_vars(Tick)
    /\ WF_vars(CommitTransaction)
    /\ \A c \in Clients :
          WF_vars(GetPow(c)) /\ SF_vars(CheckChallenge(c)) /\ WF_vars(SubmitChallenge(c))

Spec == Init /\ [][Next]_vars /\ Fairness

-----------------------------------------------------------------------------
(* Properties. *)

\* The state the minter builds on once it has seen the answer it waits for.
Current == IF pc = "submitted" /\ reply.accepted THEN Append(local, reply.tx) ELSE local

\* The minter never falls out of step by itself: its state is the node's, and no
\* submission is refused, unless the node dropped transactions since the state
\* was loaded, or it was loaded while transactions were inflight.
\* (Faucet::load, update_state, submit_transaction)
InStep ==
    pc # "down" /\ ~behind /\ ~dropped =>
        /\ Current = NodeState
        /\ pc = "submitted" => reply.accepted

\* When the node dropped transactions its state is one the minter still has, for
\* a rollback.  The exceptions are a minter that was started while transactions
\* were inflight, and a state older than all that are left after the limit on
\* the prior states dropped some.  (update_state; that error_recovery makes no
\* use of it is what DesyncRecovered is about)
StateKept ==
    pc # "down" /\ ~(pc = "submitted" /\ reply.accepted) =>
        \/ NodeState \in ToSet(prior) \cup {local}
        \/ behind
        \/ forgotten /\ Len(NodeState) < Len(Head(Append(prior, local)))

\* The prior states and the local one are the steps of one history, each with
\* one transaction more than the one before.
PriorStatesAreSteps ==
    pc # "down" =>
        LET states == Append(prior, local)
        IN \A i \in 1..(Len(states) - 1) :
              states[i + 1] # << >> /\ Front(states[i + 1]) = states[i]

\* The minter follows the state of its account on the node: in step with it as
\* long as the node keeps what it accepted, with that state at hand if not.
MinterFollowsNode == TypeOK /\ InStep /\ StateKept /\ PriorStatesAreSteps

\* "A state mismatch means we desync'd from the actual chain state, and should
\* resync": the minter does not end when a prior state is the node's.
\* (error_recovery)
DesyncRecovered ==
    [][/\ pc = "submitted" /\ ~reply.accepted
       /\ RollbackPositions # {}
       /\ faults' = faults
       => pc' # "down"]_vars

\* The counters of the challenge cache agree with the challenges, no account
\* has two challenges that count, and the clean-up finds every counter.
CacheExact ==
    /\ CacheConsistent(cache)
    /\ \A x, y \in cache.challenges : x.account = y.account => x = y

\* While it is valid, a challenge is not accepted a second time.  One that
\* expires between the check and the lock may be, since the clean-up can
\* forget it in between; and so may one after a restart.
ChallengeUsedOnce == \A h \in Holders : used[h] # "twice"

\* A challenge buys at most one request, and the cache that ensures it is sound.
ChallengesExact == CacheExact /\ ChallengeUsedOnce

\* Every client gets the tokens in the end, whatever finite number of
\* transactions is dropped, of replies lost and of crashes: each mismatch ends
\* the process, the restart loads the committed state, and the clients whose
\* requests were lost with the process ask again.
EveryClientServed == <>(\A c \in Clients : client[c] = "minted")

=============================================================================

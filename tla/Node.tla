-------------------------------- MODULE Node --------------------------------
(***************************************************************************)
(* The life of a node on one data directory: bootstrap (bin/node store and *)
(* bundled commands, Store::bootstrap, Db::bootstrap), the start of its    *)
(* components (Store::serve, BlockProducer::serve,                         *)
(* NetworkTransactionBuilder::serve_new), the checks of apply_migrations,  *)
(* which both run on the database, and how the components find each other: *)
(* retries, the checkpoint before block production, and the end of the     *)
(* whole node when one component ends.                                     *)
(*                                                                         *)
(* A process may crash between any two steps; what is on disk stays.  What *)
(* the components do once they run is the subject of BlockProducer,        *)
(* StoreState and NtxBuilder; here a block is one step.                    *)
(***************************************************************************)
EXTENDS Genesis, FiniteSets

CONSTANTS
    Config,         \* genesis configurations an operator may use
    AccountsDir,    \* directories an operator may name for the account files
    Tx,             \* transactions
    NetworkTx,      \* those that update a network account
    AcceptHeader,   \* the accept header a transaction's client sends, as a kind
    None, Empty,    \* nothing there; a file or directory without content
    ShiftBits,      \* width of the integer the backoff shifts (32 in the code)
    MaxBlocks,      \* bound on the number of the last block
    MaxCrashes,     \* bound on crashes of a process
    MaxPortsTaken,  \* bound on ports taken by another program
    MaxOverflows    \* bound on outages so long that a debug build panics

ASSUME NodeAssumption ==
    /\ {ShiftBits, MaxBlocks, MaxCrashes, MaxPortsTaken, MaxOverflows} \subseteq Nat
    /\ ShiftBits > 0
    /\ None # Empty /\ NetworkTx \subseteq Tx
    /\ None \notin Nat /\ None \notin {"bootstrap", "start"}
    /\ Config \subseteq [faucets : Seq([symbol : STRING, max_supply : Nat]),
                         wallets : Seq(Seq([symbol : STRING, amount : Nat]))]
    /\ \A config \in Config : IntoState(config) \notin {None, Empty}
    /\ AcceptHeader \in [Tx -> {"absent", "not text", "other format", "invalid version",
                               "other release", "this release"}]

VARIABLES
    deployment,     \* how the components are started
    files,          \* account files and block files
    db,             \* the database file
    store,          \* the process that bootstraps or serves the store
    bp,             \* the block producer
    mempool,        \* its mempool, once it has one
    ntb,            \* the network transaction builder
    faults          \* how often each bounded fault happened

vars == <<deployment, files, db, store, bp, mempool, ntb, faults>>

NoStore == [cmd |-> None, step |-> "off", genesis |-> None, dir |-> None]
NoProducer == [step |-> "off", retries |-> 0]
NoMempool == [tip |-> -1, txs |-> {}]
NoBuilder == [step |-> "off", loaded |-> -1, tip |-> -1, txs |-> {}, events |-> <<>>, retries |-> 0]

(* schema is SQLite's schema_version, saved the value in the settings table *)
(* and stats says whether SQLite has created its statistics table.          *)
EmptyDb == [migrated |-> FALSE, hash |-> FALSE, saved |-> None, schema |-> 0,
            stats |-> FALSE, genesis |-> None, tip |-> -1]

Init ==
    /\ deployment \in {"bundled", "bundled without ntb", "separate"}
    /\ files = [keys |-> [d \in AccountsDir |-> None], blocks |-> None]
    /\ db = EmptyDb
    /\ store = NoStore
    /\ bp = NoProducer
    /\ mempool = NoMempool
    /\ ntb = NoBuilder
    /\ faults = [crash |-> 0, port |-> 0, overflow |-> 0]

Bundled == deployment # "separate"

Fault(kind, bound) ==
    /\ faults[kind] < bound
    /\ faults' = [faults EXCEPT ![kind] = @ + 1]

At(cmd, step) == store.cmd = cmd /\ store.step = step
Proceed(step) == store' = [store EXCEPT !.step = step]

(* Components of a bundled node are tasks of one process, which ends when   *)
(* the first of them returns.                                               *)
EndAll ==
    /\ store' = NoStore
    /\ bp' = NoProducer
    /\ mempool' = NoMempool
    /\ ntb' = NoBuilder

EndStore == IF Bundled THEN EndAll ELSE store' = NoStore /\ UNCHANGED <<bp, mempool, ntb>>
EndProducer ==
    IF Bundled THEN EndAll
    ELSE bp' = NoProducer /\ mempool' = NoMempool /\ UNCHANGED <<store, ntb>>

Running == <<bp, mempool, ntb>>
Fixed == UNCHANGED <<deployment>>

-----------------------------------------------------------------------------
(* BOOTSTRAP                                                                *)

(* The command writes the account files first and never over an existing    *)
(* one: with a key in place, or with a configuration that is refused, it    *)
(* ends here and nothing has changed.                                       *)
OpenAccountFile ==
    /\ store = NoStore
    /\ \E config \in Config, d \in AccountsDir :
         /\ Accepted(config)
         /\ files.keys[d] = None
         /\ files' = [files EXCEPT !.keys[d] = Empty]
         /\ store' = [cmd |-> "bootstrap", step |-> "write key",
                      genesis |-> IntoState(config), dir |-> d]
    /\ Fixed /\ UNCHANGED <<db, faults, Running>>

WriteAccountFile ==
    /\ At("bootstrap", "write key")
    /\ files' = [files EXCEPT !.keys[store.dir] = store.genesis]
    /\ Proceed("blocks")
    /\ Fixed /\ UNCHANGED <<db, faults, Running>>

(* Mistake: create_dir_all, which accepts an existing directory.            *)
CanCreateBlocksAnyway == TRUE
(* BlockStore::bootstrap: create_dir fails if the directory exists.         *)
CanCreateBlocks == files.blocks = None

CreateBlockStore ==
    /\ At("bootstrap", "blocks")
    /\ IF CanCreateBlocks
       THEN files' = [files EXCEPT !.blocks = Empty] /\ Proceed("genesis file")
       ELSE UNCHANGED files /\ store' = NoStore
    /\ Fixed /\ UNCHANGED <<db, faults, Running>>

SaveGenesisFile ==
    /\ At("bootstrap", "genesis file")
    /\ files' = [files EXCEPT !.blocks = store.genesis]
    /\ Proceed("check")
    /\ Fixed /\ UNCHANGED <<db, faults, Running>>

(* Db::bootstrap after the migrations.  The header's number is the key of   *)
(* its table, so a second genesis block is refused.                         *)
InsertGenesis ==
    /\ At("bootstrap", "migrated")
    /\ db' = IF db.genesis = None THEN [db EXCEPT !.genesis = store.genesis, !.tip = 0] ELSE db
    /\ store' = NoStore
    /\ Fixed /\ UNCHANGED <<files, faults, Running>>

-----------------------------------------------------------------------------
(* APPLY_MIGRATIONS, every statement of which commits on its own.           *)

(* A migrated database is accepted only with the schema version and the     *)
(* migration hash that the last run saved.                                  *)
Supported(d) == d.migrated => d.saved = d.schema /\ d.hash

Migrating(step) == store.cmd # None /\ store.step = step

CheckVersion ==
    /\ Migrating("check")
    /\ IF Supported(db) THEN Proceed("migrate") /\ UNCHANGED Running ELSE EndStore
    /\ Fixed /\ UNCHANGED <<files, db, faults>>

(* to_latest runs the script in one transaction; the hash is saved when     *)
(* that changed the version.                                                *)
Migrate ==
    /\ Migrating("migrate")
    /\ IF db.migrated
       THEN Proceed("optimize") /\ UNCHANGED db
       ELSE Proceed("hash") /\ db' = [db EXCEPT !.migrated = TRUE, !.schema = @ + 1]
    /\ Fixed /\ UNCHANGED <<files, faults, Running>>

SaveHash ==
    /\ Migrating("hash")
    /\ db' = [db EXCEPT !.hash = TRUE]
    /\ Proceed("optimize")
    /\ Fixed /\ UNCHANGED <<files, faults, Running>>

(* The first analysis of a database creates the statistics table, which     *)
(* increases the schema version (SQLite).                                   *)
Analyzed(d) == [d EXCEPT !.stats = TRUE, !.schema = IF d.stats THEN @ ELSE @ + 1]

Optimize ==
    /\ Migrating("optimize")
    /\ db' = Analyzed(db)
    /\ Proceed("save version")
    /\ Fixed /\ UNCHANGED <<files, faults, Running>>

(* Mistake: the version is read before the analysis changes it.             *)
VersionBeforeAnalysis(d) == d.schema - 1
(* The schema version is read after the optimization.                       *)
VersionToSave(d) == d.schema

SaveVersion ==
    /\ Migrating("save version")
    /\ db' = [db EXCEPT !.saved = VersionToSave(db)]
    /\ Proceed("migrated")
    /\ Fixed /\ UNCHANGED <<files, faults, Running>>

-----------------------------------------------------------------------------
(* THE STORE                                                                *)

(* A bundled node starts all its components at once; the listeners of the   *)
(* store are bound before it loads, so that requests wait for it.           *)
Start ==
    /\ store = NoStore
    /\ store' = [NoStore EXCEPT !.cmd = "start", !.step = "load blocks"]
    /\ IF Bundled
       THEN /\ bp' = [bp EXCEPT !.step = "fetch tip"]
            /\ ntb' = IF deployment = "bundled" THEN [ntb EXCEPT !.step = "genesis"] ELSE ntb
       ELSE UNCHANGED <<bp, ntb>>
    /\ Fixed /\ UNCHANGED <<files, db, mempool, faults>>

(* BlockStore::load wants the directory; Db::load opens or creates the      *)
(* database.                                                                *)
LoadBlockStore ==
    /\ At("start", "load blocks")
    /\ IF files.blocks # None THEN Proceed("check") /\ UNCHANGED Running ELSE EndStore
    /\ Fixed /\ UNCHANGED <<files, db, faults>>

(* State::load builds the trees from whatever the tables hold.              *)
Serve ==
    /\ At("start", "migrated")
    /\ Proceed("serving")
    /\ Fixed /\ UNCHANGED <<files, db, faults, Running>>

Serving == At("start", "serving")

(* DbMaintenance.                                                           *)
OptimizeDb ==
    /\ Serving
    /\ db' = Analyzed(db)
    /\ Fixed /\ UNCHANGED <<files, store, faults, Running>>

-----------------------------------------------------------------------------
(* THE BLOCK PRODUCER                                                       *)

StartProducer ==
    /\ ~Bundled
    /\ bp = NoProducer
    /\ bp' = [bp EXCEPT !.step = "fetch tip"]
    /\ Fixed /\ UNCHANGED <<files, db, store, mempool, ntb, faults>>

(* 1 << retries is a u32: past its width the factor starts over in release  *)
(* builds, which is the same as counting from zero, and debug builds panic. *)
Retried(counter) == (counter + 1) % ShiftBits
Overflows(counter) == counter + 1 = ShiftBits

(* Nothing listens at the store's address: the request fails and is retried.*)
RetryTip ==
    /\ bp.step = "fetch tip"
    /\ store.cmd # "start"
    /\ \/ /\ bp' = [bp EXCEPT !.retries = Retried(@)]
          /\ UNCHANGED <<store, mempool, ntb, faults>>
       \/ Overflows(bp.retries) /\ Fault("overflow", MaxOverflows) /\ EndProducer
    /\ Fixed /\ UNCHANGED <<files, db>>

(* Mistake: a missing header counts as an empty chain.                      *)
TipKnownAnyway == TRUE
(* A reply without a header is an error that is not retried.                *)
TipKnown == db.genesis # None

FetchTip ==
    /\ bp.step = "fetch tip"
    /\ Serving
    /\ IF TipKnown
       THEN /\ bp' = [bp EXCEPT !.step = "bind"]
            /\ mempool' = [NoMempool EXCEPT !.tip = db.tip]
            /\ UNCHANGED <<store, ntb>>
       ELSE EndProducer
    /\ Fixed /\ UNCHANGED <<files, db, faults>>

(* The bundled node picked the port by binding and releasing it, so another *)
(* program may have it by now.                                              *)
Bind ==
    /\ bp.step = "bind"
    /\ \/ bp' = [bp EXCEPT !.step = "checkpoint"] /\ UNCHANGED <<store, mempool, ntb, faults>>
       \/ Fault("port", MaxPortsTaken) /\ EndProducer
    /\ Fixed /\ UNCHANGED <<files, db>>

(* Mistake: the server is spawned after the checkpoint.                     *)
ListeningOnceProducing == bp.step = "producing"
(* The gRPC server is spawned before the checkpoint.                        *)
Listening == bp.step \in {"checkpoint", "producing"}

(* Mistake: the checkpoint never waits for the ntb.                         *)
BarrierOfOne == TRUE
(* Barrier::new(2) with the ntb, Barrier::new(1) without.                   *)
BarrierFull == deployment = "bundled" => ntb.step = "checkpoint"

(* The barrier releases both sides at once.                                 *)
PassCheckpoint ==
    /\ bp.step = "checkpoint"
    /\ BarrierFull
    /\ bp' = [bp EXCEPT !.step = "producing"]
    /\ ntb' = IF ntb.step = "checkpoint" THEN [ntb EXCEPT !.step = "running"] ELSE ntb
    /\ Fixed /\ UNCHANGED <<files, db, store, mempool, faults>>

Notify(event) ==
    ntb' = IF ntb.step \in {"checkpoint", "running"}
           THEN [ntb EXCEPT !.events = Append(@, event)] ELSE ntb

Add(t) ==
    /\ Listening
    /\ Serving
    /\ t \notin mempool.txs
    /\ mempool' = [mempool EXCEPT !.txs = @ \cup {t}]
    /\ Notify(<<"added", t>>)
    /\ Fixed /\ UNCHANGED <<files, db, store, bp, faults>>

(* AcceptService::call: a client that names a version must name one of this *)
(* release; one that sends no header, or a header of another form, is let   *)
(* through.                                                                 *)
Admitted(header) == header \in {"absent", "other format", "this release"}

(* RpcService::submit_proven_transaction refuses updates of network         *)
(* accounts and hands the rest to the block producer's endpoint, which asks *)
(* the store for inputs and adds the transaction to the mempool.            *)
SubmitProvenTransaction ==
    \E t \in Tx \ NetworkTx : Admitted(AcceptHeader[t]) /\ Add(t)

(* The builder goes to the block producer itself.                           *)
SubmitNetworkTransaction == ntb.step = "running" /\ \E t \in NetworkTx : Add(t)

(* A block is built, proven, applied by the store and committed.            *)
ProduceBlock ==
    /\ bp.step = "producing"
    /\ Serving
    /\ mempool.tip = db.tip /\ db.tip < MaxBlocks
    /\ db' = [db EXCEPT !.tip = @ + 1]
    /\ mempool' = [tip |-> mempool.tip + 1, txs |-> {}]
    /\ Notify(<<"committed", mempool.txs>>)
    /\ Fixed /\ UNCHANGED <<files, store, bp, faults>>

-----------------------------------------------------------------------------
(* THE NETWORK TRANSACTION BUILDER                                          *)

(* genesis_header_with_retry waits for the store; a missing header is an    *)
(* error.                                                                   *)
FetchGenesis ==
    /\ ntb.step = "genesis"
    /\ Serving
    /\ IF db.genesis # None
       THEN ntb' = [ntb EXCEPT !.step = "load"] /\ UNCHANGED <<store, bp, mempool>>
       ELSE EndAll
    /\ Fixed /\ UNCHANGED <<files, db, faults>>

(* State::load reads the unconsumed notes of the blocks so far.             *)
LoadNotes ==
    /\ ntb.step = "load"
    /\ Serving
    /\ ntb' = [ntb EXCEPT !.step = "chain tip", !.loaded = db.tip]
    /\ Fixed /\ UNCHANGED <<files, db, store, bp, mempool, faults>>

GetCurrentBlockchainData ==
    /\ ntb.step = "chain tip"
    /\ Serving
    /\ ntb' = [ntb EXCEPT !.step = "subscribe", !.tip = db.tip]
    /\ Fixed /\ UNCHANGED <<files, db, store, bp, mempool, faults>>

RetrySubscribe ==
    /\ ntb.step = "subscribe"
    /\ ~Listening
    /\ \/ ntb' = [ntb EXCEPT !.retries = Retried(@)] /\ UNCHANGED <<store, bp, mempool, faults>>
       \/ Overflows(ntb.retries) /\ Fault("overflow", MaxOverflows) /\ EndAll
    /\ Fixed /\ UNCHANGED <<files, db>>

(* The mempool refuses a subscriber that is at another block and replays    *)
(* its inflight transactions to one that is not.                            *)
Subscribe ==
    /\ ntb.step = "subscribe"
    /\ Listening
    /\ IF ntb.tip = mempool.tip
       THEN /\ ntb' = [ntb EXCEPT !.step = "checkpoint", !.txs = mempool.txs]
            /\ UNCHANGED <<store, bp, mempool>>
       ELSE EndAll
    /\ Fixed /\ UNCHANGED <<files, db, faults>>

(* What the builder knows after an event.                                   *)
Seen(view, event) ==
    IF event[1] = "added" THEN [view EXCEPT !.txs = @ \cup {event[2]}]
    ELSE [view EXCEPT !.txs = @ \ event[2], !.loaded = @ + 1]

ReceiveEvent ==
    /\ ntb.step = "running"
    /\ ntb.events # <<>>
    /\ ntb' = [Seen(ntb, Head(ntb.events)) EXCEPT !.events = Tail(@)]
    /\ Fixed /\ UNCHANGED <<files, db, store, bp, mempool, faults>>

-----------------------------------------------------------------------------
Crash ==
    /\ Fault("crash", MaxCrashes)
    /\ \/ store # NoStore /\ EndStore
       \/ ~Bundled /\ bp # NoProducer /\ EndProducer
    /\ Fixed /\ UNCHANGED <<files, db>>

Bootstrap ==
    \/ OpenAccountFile \/ WriteAccountFile \/ CreateBlockStore \/ SaveGenesisFile \/ InsertGenesis

StoreStep ==
    \/ CheckVersion \/ Migrate \/ SaveHash \/ Optimize \/ SaveVersion
    \/ LoadBlockStore \/ Serve

ProducerStep == RetryTip \/ FetchTip \/ Bind \/ PassCheckpoint

BuilderStep ==
    \/ FetchGenesis \/ LoadNotes \/ GetCurrentBlockchainData \/ RetrySubscribe
    \/ Subscribe \/ ReceiveEvent

Next ==
    \/ Bootstrap \/ Start \/ StartProducer \/ StoreStep \/ ProducerStep \/ BuilderStep
    \/ OptimizeDb \/ SubmitProvenTransaction \/ SubmitNetworkTransaction \/ ProduceBlock \/ Crash

(* Processes that can go on do, and whoever runs the node starts it again   *)
(* when it is down.  Nobody has to bootstrap, submit or produce anything.   *)
Fairness ==
    /\ WF_vars(StoreStep)
    /\ WF_vars(WriteAccountFile \/ CreateBlockStore \/ SaveGenesisFile \/ InsertGenesis)
    /\ WF_vars(ProducerStep /\ UNCHANGED faults)
    /\ WF_vars(BuilderStep /\ UNCHANGED faults)
    /\ WF_vars(Start)
    /\ WF_vars(StartProducer)

Spec == Init /\ [][Next]_vars
FairSpec == Spec /\ Fairness

-----------------------------------------------------------------------------
(* PROPERTIES                                                               *)

(* The steps each component can be at, and what the faults are bounded by.  *)
TypeOK ==
    /\ store.cmd \in {None, "bootstrap", "start"}
    /\ store.step = "off" <=> store.cmd = None
    /\ db.tip \in -1 .. MaxBlocks /\ (db.tip = -1 <=> db.genesis = None)
    /\ db.schema \in 0 .. 2 /\ db.saved \in {None} \cup 0 .. 2
    /\ bp.step \in {"off", "fetch tip", "bind", "checkpoint", "producing"}
    /\ ntb.step \in {"off", "genesis", "load", "chain tip", "subscribe", "checkpoint", "running"}
    /\ {bp.retries, ntb.retries} \subseteq 0 .. ShiftBits - 1
    /\ mempool.txs \cup ntb.txs \subseteq Tx
    /\ mempool.tip # -1 <=> bp.step \in {"bind", "checkpoint", "producing"}
    /\ faults \in [crash : 0 .. MaxCrashes, port : 0 .. MaxPortsTaken, overflow : 0 .. MaxOverflows]

(* The genesis block of the database is the one in the block files, and its *)
(* keys are on disk, however often bootstrap crashed, was repeated with     *)
(* another configuration or was followed by a start half-way.               *)
GenesisConsistent ==
    db.genesis # None =>
        /\ files.blocks = db.genesis
        /\ \E d \in AccountsDir : files.keys[d] = db.genesis

(* What the first n wallets hold of a faucet's asset, for each n.           *)
Held(wallets, symbol) ==
    LET held[n \in 0 .. Len(wallets)] ==
            IF n = 0 THEN 0 ELSE held[n - 1] + wallets[n].balance[symbol]
    IN  held

(* What wallets hold at genesis is what their faucets have issued, within   *)
(* the supply.                                                              *)
Balanced(genesis) ==
    \A s \in DOMAIN genesis.faucets :
        LET faucet == genesis.faucets[s] IN
        /\ faucet.issued = Held(genesis.wallets, s)[Len(genesis.wallets)]
        /\ faucet.issued <= faucet.max_supply

(* The genesis in the database is balanced, for every configuration that is *)
(* accepted.                                                                *)
GenesisBalanced == db.genesis # None => Balanced(db.genesis)

(* A bootstrapped directory holds one sound genesis.                        *)
GenesisSound == TypeOK /\ GenesisConsistent /\ GenesisBalanced

(* A database that holds the genesis block passes the check of the next     *)
(* start, at whatever point the node crashes.                               *)
RestartAccepted == db.genesis # None => Supported(db)

(* Blocks are produced on top of the chain in the store, which has a        *)
(* genesis block.                                                           *)
ProducesOnTip ==
    bp.step = "producing" => db.genesis # None /\ mempool.tip = db.tip

(* What the builder will know after each of the events on their way.        *)
Views(builder) ==
    LET known[n \in 0 .. Len(builder.events)] ==
            IF n = 0 THEN builder ELSE Seen(known[n - 1], builder.events[n])
    IN  known

(* The network transaction builder misses nothing between loading the       *)
(* store's notes and subscribing to the mempool: with the events on their   *)
(* way it knows every block and every inflight transaction.                 *)
BuilderInSync ==
    LET view == Views(ntb)[Len(ntb.events)] IN
    ntb.step \in {"checkpoint", "running"} =>
        view.loaded = mempool.tip /\ view.txs = mempool.txs

(* Store, block producer and builder agree on where the chain is, whichever *)
(* of them was started, restarted or refused first.                         *)
ComponentsInSync == ProducesOnTip /\ BuilderInSync

(* Block producer, builder and store never wait for each other for ever: on *)
(* a bootstrapped directory block production begins, or has begun, whenever *)
(* the crashes stop.                                                        *)
NodeComesUp == (db.genesis # None) ~> (bp.step = "producing")
=============================================================================

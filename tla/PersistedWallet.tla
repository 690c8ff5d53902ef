--------------------------- MODULE PersistedWallet ---------------------------
(***************************************************************************)
(* PersistedWallet (src/src/wallet/persisted.rs): a wallet in memory, its  *)
(* stage, and a database that survives when the process does not.  A write *)
(* to the database may fail before it changed anything, and may also be    *)
(* reported as failed after it took effect (the persister is any type that *)
(* implements WalletPersister or AsyncWalletPersister); a single write is  *)
(* atomic, as it is for the persisters of the crate: an SQLite transaction *)
(* and a log entry of bdk_file_store.                                      *)
(***************************************************************************)
EXTENDS Wallet

CONSTANTS
    CreateParams,  \* [descriptor, change_descriptor, network]
    LoadParams     \* [check_network, check_genesis_hash, check_descriptor, check_change_descriptor]

ASSUME ParamsAssumption ==
    /\ CreateParams \subseteq [descriptor : Descriptors,
                               change_descriptor : Descriptors \cup {None},
                               network : Networks]

VARIABLES
    backend,   \* "sqlite" or "file": which persister is in use
    opened,    \* is there a wallet in memory
    db         \* the database, as the changeset `initialize` reads from it

vars == <<walletVars, backend, opened, db>>

Write(cs) == IF backend = "sqlite" THEN PersistToSqlite(db, cs) ELSE PersistToFile(db, cs)

\* The fields of the wallet that a database can restore.
MemoryImage ==
    [descriptor |-> descriptor,
     change_descriptor |-> change_descriptor,
     network |-> network,
     chain |-> chain,
     graph |-> graph,
     revealed |-> revealed,
     locked |-> locked_outpoints]

\* At first there is no wallet in memory and no data in the database.
Init ==
    /\ descriptor = None /\ change_descriptor = None /\ network = None
    /\ chain = NoChain
    /\ graph = EmptyGraph
    /\ revealed = [k \in Keychains |-> -1]
    /\ indexed = {}
    /\ used = {}
    /\ locked_outpoints = {}
    /\ canonical_view = <<>>
    /\ stage = EmptyChangeSet
    /\ backend \in {"sqlite", "file"}
    /\ opened = FALSE
    /\ db = EmptyChangeSet

-----------------------------------------------------------------------------
\* A seeded bug: the genesis block is not staged.
NewStageWithoutGenesis(p) ==
    [EmptyChangeSet EXCEPT !.descriptor = p.descriptor,
                           !.change_descriptor = p.change_descriptor,
                           !.network = p.network]

\* What create_with_params stages, to be taken and persisted by create.
NewStage(p) ==
    [EmptyChangeSet EXCEPT !.descriptor = p.descriptor,
                           !.change_descriptor = p.change_descriptor,
                           !.network = p.network,
                           !.local_chain[0] = Genesis]

\* create: refused when the database has data (DataAlreadyExists) or the two
\* descriptors are the same; the wallet exists once its first changeset is
\* written.
Create(p) ==
    /\ ~opened
    /\ IsEmpty(db)
    /\ p.descriptor # p.change_descriptor
    /\ db' = Write(NewStage(p))
    /\ opened' = TRUE
    /\ descriptor' = p.descriptor
    /\ change_descriptor' = p.change_descriptor
    /\ network' = p.network
    /\ chain' = [NoChain EXCEPT ![0] = Genesis]
    /\ canonical_view' = CanonicalView(chain', graph)
    /\ UNCHANGED <<graph, index, locked_outpoints, stage, backend>>

\* create whose write is reported as failed: there is no wallet, but the
\* changeset may be in the database.
CreateFails(p) ==
    /\ ~opened
    /\ IsEmpty(db)
    /\ p.descriptor # p.change_descriptor
    /\ db' \in {db, Write(NewStage(p))}
    /\ UNCHANGED <<walletVars, backend, opened>>

\* The checks of load_with_params: "unchecked", or what must be found.
CheckPasses(cs, p) ==
    /\ p.check_network \in {"unchecked", cs.network}
    /\ p.check_genesis_hash \in {"unchecked", cs.local_chain[0]}
    /\ p.check_descriptor \in {"unchecked", cs.descriptor}
    /\ p.check_change_descriptor \in {"unchecked", cs.change_descriptor}

\* A seeded bug: floating outputs are not scanned again.
ReindexedTxsOnly(image, order) ==
    Matched(image.revealed, KeychainsOf(image.change_descriptor),
            OutputsOf(image.graph.txs), ScanOrder(image.graph.txs, order))

\* make_indexed_graph: every transaction of the graph is scanned again, in the
\* order of a hash map, then the floating outputs.
Reindexed(image, order) ==
    Matched(image.revealed, KeychainsOf(image.change_descriptor),
            OutputsOf(image.graph.txs) \cup image.graph.txouts,
            ScanOrder(image.graph.txs, order))

\* load: indices revealed by the scan are staged.
Load(p) ==
    /\ ~opened
    /\ ~IsEmpty(db)
    /\ Loadable(db)
    /\ CheckPasses(db, p)
    /\ LET image == LoadImage(db)
       IN  /\ descriptor' = image.descriptor
           /\ change_descriptor' = image.change_descriptor
           /\ network' = image.network
           /\ chain' = image.chain
           /\ graph' = image.graph
           /\ locked_outpoints' = image.locked
           /\ canonical_view' = CanonicalView(image.chain, image.graph)
           /\ \E order \in Orders(image.graph.txs) :
                LET ops == Reindexed(image, order)
                IN  /\ indexed' = ops
                    /\ used' = {ScriptOf(o) : o \in ops}
                    /\ revealed' = RevealedBy(image.revealed, ops)
                    /\ stage' = FromIndexer(RevealDiff(image.revealed,
                                                       RevealedBy(image.revealed, ops)))
    /\ opened' = TRUE
    /\ UNCHANGED <<backend, db>>

\* persist: the stage is cleared only after the write succeeds.
Persist ==
    /\ opened
    /\ ~IsEmpty(stage)
    /\ db' = Write(stage)
    /\ stage' = EmptyChangeSet
    /\ UNCHANGED <<identity, chain, graph, index, locked_outpoints, canonical_view, backend, opened>>

\* persist that returns an error: the write may have happened; the stage stays.
PersistFails ==
    /\ opened
    /\ ~IsEmpty(stage)
    /\ db' \in {db, Write(stage)}
    /\ UNCHANGED <<walletVars, backend, opened>>

\* The process ends, or the wallet is dropped: only the database is left.
Close ==
    /\ opened
    /\ opened' = FALSE
    /\ descriptor' = None /\ change_descriptor' = None /\ network' = None
    /\ chain' = NoChain
    /\ graph' = EmptyGraph
    /\ revealed' = [k \in Keychains |-> -1]
    /\ indexed' = {}
    /\ used' = {}
    /\ locked_outpoints' = {}
    /\ canonical_view' = <<>>
    /\ stage' = EmptyChangeSet
    /\ UNCHANGED <<backend, db>>

WalletOp == opened /\ (UserOp \/ ChainOp) /\ UNCHANGED <<backend, opened, db>>

Next ==
    \/ \E p \in CreateParams : Create(p)
    \/ \E p \in CreateParams : CreateFails(p)
    \/ \E p \in LoadParams : Load(p)
    \/ Persist
    \/ PersistFails
    \/ Close
    \/ WalletOp

Spec == Init /\ [][Next]_vars

-----------------------------------------------------------------------------
(***************************************************************************)
(* Properties.                                                             *)
(***************************************************************************)

\* Every field of the wallet and the database has its type.
TypeOK ==
    /\ descriptor \in Descriptors \cup {None}
    /\ change_descriptor \in Descriptors \cup {None}
    /\ network \in Networks \cup {None}
    /\ chain \in Chains
    /\ graph \in Graphs
    /\ revealed \in [Keychains -> RevealedIndex]
    /\ indexed \subseteq Outpoints
    /\ used \subseteq Scripts
    /\ locked_outpoints \subseteq Outpoints
    /\ canonical_view = [t \in DOMAIN canonical_view |-> canonical_view[t]]
    /\ DOMAIN canonical_view \subseteq Txs
    /\ stage \in ChangeSets
    /\ backend \in {"sqlite", "file"}
    /\ opened \in BOOLEAN
    /\ db \in ChangeSets

\* Nothing is lost: writing the stage now would leave a database from which
\* load restores the wallet's chain, graph, revealed indices and locks as they
\* are in memory, with either persister, after any sequence of calls, failed
\* writes, repeated writes and restarts.
StageCompletesDb == opened => LoadImage(Write(stage)) = MemoryImage

\* An output the wallet has found stays found: whatever the order in which
\* load walks the stored transactions, every indexed outpoint is indexed again
\* once the stage is written.
ReloadKeepsIndexed ==
    opened => LET image == LoadImage(Write(stage))
              IN  \A order \in Orders(image.graph.txs) : indexed \subseteq Reindexed(image, order)

\* The cached canonical view is the one of the current chain and graph.
CanonicalViewFresh == opened => canonical_view = CanonicalView(chain, graph)

\* A database with data can be loaded: no sequence of writes leaves one
\* without network, genesis block or descriptor.
DbLoadable == IsEmpty(db) \/ Loadable(db)

\* A step never takes back what the database has: its network and descriptors
\* never change, and revealed indices, times and transactions never go back.
DbOnlyAdvances ==
    [][ /\ DescriptorsAgree(db, db')
        /\ IsEmpty(db') => IsEmpty(db)
        /\ \A k \in Keychains : db'.indexer[k] >= db.indexer[k]
        /\ db.tx_graph.txs \subseteq db'.tx_graph.txs
        /\ \A t \in Txs : /\ db'.tx_graph.last_seen[t] >= db.tx_graph.last_seen[t]
                          /\ db'.tx_graph.last_evicted[t] >= db.tx_graph.last_evicted[t] ]_vars
=============================================================================

----------------------------- MODULE ChangeSet -----------------------------
(***************************************************************************)
(* wallet::ChangeSet: what a wallet hands to its persistence layer.  It is *)
(* both the record of what changed since the last write (the stage) and    *)
(* the aggregate a wallet is loaded from (the database).                   *)
(*                                                                         *)
(* The maps of the code are total functions here, with a value that says   *)
(* "no entry": Unset for checkpoints, "unset" for locks, -1 for the last   *)
(* revealed index, 0 for times.  A checkpoint entry NoHash is the code's   *)
(* None: the block at that height was removed.                             *)
(***************************************************************************)
EXTENDS BdkChain

CONSTANTS
    Descriptors,  \* descriptors of the two keychains
    Networks,     \* networks
    None,         \* no descriptor, no network
    Unset         \* no entry for a height

ASSUME OptionAssumption ==
    /\ None \notin Descriptors \cup Networks
    /\ Unset \notin Hashes \cup {NoHash}

LockStates == {"unset", "locked", "unlocked"}

ChangeSets ==
    [descriptor : Descriptors \cup {None},
     change_descriptor : Descriptors \cup {None},
     network : Networks \cup {None},
     local_chain : [Heights -> Hashes \cup {NoHash, Unset}],
     tx_graph : Graphs,
     indexer : [Keychains -> RevealedIndex],
     locked_outpoints : [Outpoints -> LockStates]]

\* ChangeSet::default.
EmptyChangeSet ==
    [descriptor |-> None,
     change_descriptor |-> None,
     network |-> None,
     local_chain |-> [h \in Heights |-> Unset],
     tx_graph |-> EmptyGraph,
     indexer |-> [k \in Keychains |-> -1],
     locked_outpoints |-> [o \in Outpoints |-> "unset"]]

\* Merge::is_empty: every field is empty.
IsEmpty(cs) == cs = EmptyChangeSet

-----------------------------------------------------------------------------
\* Merge::merge, field by field.  Descriptors and network keep their first
\* value; the debug_assert that the second one is equal is DescriptorsAgree.
MergeOption(x, y) == IF x = None THEN y ELSE x
MergeLocks(x, y) == [o \in Outpoints |-> IF y[o] = "unset" THEN x[o] ELSE y[o]]
MergeBlocks(x, y) == [h \in Heights |-> IF y[h] = Unset THEN x[h] ELSE y[h]]
MergeIndexer(x, y) == [k \in Keychains |-> MaxOf(x[k], y[k])]

Merge(cs, other) ==
    [descriptor |-> MergeOption(cs.descriptor, other.descriptor),
     change_descriptor |-> MergeOption(cs.change_descriptor, other.change_descriptor),
     network |-> MergeOption(cs.network, other.network),
     local_chain |-> MergeBlocks(cs.local_chain, other.local_chain),
     tx_graph |-> MergeGraph(cs.tx_graph, other.tx_graph),
     indexer |-> MergeIndexer(cs.indexer, other.indexer),
     locked_outpoints |-> MergeLocks(cs.locked_outpoints, other.locked_outpoints)]

\* The debug_asserts of merge.
DescriptorsAgree(cs, other) ==
    \A f \in {"descriptor", "change_descriptor", "network"} :
        other[f] = None \/ cs[f] = None \/ cs[f] = other[f]

\* The From impls: a changeset of one field.
FromChain(blocks) == [EmptyChangeSet EXCEPT !.local_chain = blocks]
FromGraph(graph, indexer) ==
    [EmptyChangeSet EXCEPT !.tx_graph = graph, !.indexer = indexer]
FromIndexer(indexer) == [EmptyChangeSet EXCEPT !.indexer = indexer]
FromLock(o, state) == [EmptyChangeSet EXCEPT !.locked_outpoints[o] = state]

\* The changeset LocalChain::apply_update returns for a change of chain.
ChainDiff(old, new) == [h \in Heights |-> IF new[h] = old[h] THEN Unset ELSE new[h]]

-----------------------------------------------------------------------------
(***************************************************************************)
(* Writing a changeset to a database.                                      *)
(***************************************************************************)

\* A seeded bug: only the last entry of the log counts.
LastEntry(db, cs) == cs

\* bdk_file_store appends the changeset to a log; reading the log back merges
\* its entries in order, so the log is kept here already merged.
PersistToFile(db, cs) == Merge(db, cs)

\* persist_to_sqlite.  The wallet's row keeps the first descriptor and network
\* (COALESCE), removed blocks and locks are DELETEd, and the tables of
\* bdk_chain overwrite the last revealed index and the times of a row.
Overwrite(old, new, none) == IF new = none THEN old ELSE new

PersistToSqlite(db, cs) ==
    [descriptor |-> MergeOption(db.descriptor, cs.descriptor),
     change_descriptor |-> MergeOption(db.change_descriptor, cs.change_descriptor),
     network |-> MergeOption(db.network, cs.network),
     local_chain |-> [h \in Heights |->
        IF cs.local_chain[h] = NoHash THEN Unset
        ELSE Overwrite(db.local_chain[h], cs.local_chain[h], Unset)],
     tx_graph |->
        [txs |-> db.tx_graph.txs \cup cs.tx_graph.txs,
         txouts |-> db.tx_graph.txouts \cup cs.tx_graph.txouts,
         anchors |-> db.tx_graph.anchors \cup cs.tx_graph.anchors,
         last_seen |-> [t \in Txs |->
            Overwrite(db.tx_graph.last_seen[t], cs.tx_graph.last_seen[t], 0)],
         last_evicted |-> [t \in Txs |->
            Overwrite(db.tx_graph.last_evicted[t], cs.tx_graph.last_evicted[t], 0)]],
     indexer |-> [k \in Keychains |-> Overwrite(db.indexer[k], cs.indexer[k], -1)],
     locked_outpoints |-> [o \in Outpoints |->
        CASE cs.locked_outpoints[o] = "locked" -> "locked"
          [] cs.locked_outpoints[o] = "unlocked" -> "unset"
          [] OTHER -> db.locked_outpoints[o]]]

-----------------------------------------------------------------------------
(***************************************************************************)
(* Reading one back.  The fields of a wallet that load_with_params takes   *)
(* from a changeset.                                                       *)
(***************************************************************************)
LoadChain(blocks) == [h \in Heights |-> IF blocks[h] = Unset THEN NoHash ELSE blocks[h]]
LoadLocked(locks) == {o \in Outpoints : locks[o] = "locked"}

LoadImage(cs) ==
    [descriptor |-> cs.descriptor,
     change_descriptor |-> cs.change_descriptor,
     network |-> cs.network,
     chain |-> LoadChain(cs.local_chain),
     graph |-> Whole(cs.tx_graph),
     revealed |-> cs.indexer,
     locked |-> LoadLocked(cs.locked_outpoints)]

\* The early returns of load_with_params that do not depend on its params:
\* MissingNetwork, MissingGenesis, MissingDescriptor.
Loadable(cs) ==
    /\ cs.network # None
    /\ cs.local_chain[0] \in Hashes
    /\ cs.descriptor # None

=============================================================================

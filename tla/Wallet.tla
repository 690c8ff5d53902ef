------------------------------- MODULE Wallet -------------------------------
(***************************************************************************)
(* The Wallet struct of src/src/wallet/mod.rs in memory: one action per    *)
(* method that changes it.  Every action updates the fields the method     *)
(* updates and merges into the stage exactly the changeset it stages; a    *)
(* method that returns an error before changing anything is disabled.      *)
(*                                                                         *)
(* What a wallet does to its database is in PersistedWallet; what it tells *)
(* a caller of the *_events methods is in WalletEvents.                    *)
(***************************************************************************)
EXTENDS ChangeSet

CONSTANTS
    Parent,       \* [Hashes -> Hashes \cup {NoHash}]: prev_blockhash
    BlockTxs,     \* [Hashes -> [txs of the block -> position in the block]]
    Updates,      \* updates a chain source may deliver (wallet::Update)
    Blocks,       \* blocks that may be delivered one by one
    Batches,      \* batches of unconfirmed transactions, [Txs -> Times]
    Evictions,    \* batches of evictions, [Txs -> Times]
    Lockable,     \* outpoints the user may lock
    Floating,     \* outpoints whose output the user may insert on its own
    Markable      \* scripts the user may mark as used

\* An update's parts: no chain, and nothing for an index.
NoChain == [h \in Heights |-> NoHash]
UpdateRecords == [chain : Chains, tx_update : Graphs,
                  last_active_indices : [Keychains -> RevealedIndex]]

ASSUME InputsAssumption ==
    /\ Parent \in [Hashes -> Hashes \cup {NoHash}]
    /\ DOMAIN BlockTxs = Hashes
    /\ \A b \in Hashes : DOMAIN BlockTxs[b] \subseteq Txs
    /\ \A b \in Hashes : \A t \in DOMAIN BlockTxs[b] : BlockTxs[b][t] \in Nat
    /\ Updates \subseteq UpdateRecords
    /\ \A u \in Updates : u.chain[0] \in {Genesis, NoHash}
    /\ Blocks \subseteq Hashes
    /\ \A b \in Hashes : HeightOf[b] = 0 => b = Genesis
    /\ Batches \subseteq [Txs -> Times]
    /\ Evictions \subseteq [Txs -> Times]
    /\ Lockable \subseteq Outpoints
    /\ Floating \subseteq Outpoints
    /\ Markable \subseteq Scripts

VARIABLES
    descriptor, change_descriptor, network,
    chain,             \* LocalChain
    graph,             \* TxGraph
    revealed,          \* last revealed index of each keychain, -1 for none
    indexed,           \* outpoints the index has found
    used,              \* derived scripts taken out of the index's unused set
    locked_outpoints,  \* HashSet<OutPoint>
    canonical_view,    \* the cached view: [canonical txs -> block or NoHash]
    stage              \* changes not persisted yet

identity == <<descriptor, change_descriptor, network>>
index == <<revealed, indexed, used>>
walletVars == <<identity, chain, graph, index, locked_outpoints, canonical_view, stage>>

-----------------------------------------------------------------------------
\* The keychains that have a descriptor, and the one that answers for k.
KeychainsOf(change) == IF change = None THEN {"External"} ELSE Keychains
Active == KeychainsOf(change_descriptor)
map_keychain(k) == IF Active = Keychains THEN k ELSE "External"

\* The canonical transactions and their positions.
CanonicalView(c, g) == [t \in Canonical(c, g) |-> Position(c, g, t)]

\* A seeded bug: the view is computed before the graph is updated.
update_canonical_view_early == canonical_view' = CanonicalView(chain', graph)

\* update_canonical_view, the last step of every method that applies chain data.
update_canonical_view == canonical_view' = CanonicalView(chain', graph')

\* Wallet::transactions: the canonical transactions relevant to the wallet.
transactions == {t \in DOMAIN canonical_view : IsRelevant(revealed, Active, indexed, t)}

\* The orders in which a set of transactions may be walked.
Orders(txs) == {f \in [txs -> 1..Cardinality(txs)] : \A t, u \in txs : f[t] = f[u] => t = u}

\* Full transactions are scanned first, in the given order, then floating
\* outputs, in the order of their txids.
ScanOrder(txs, order) ==
    [t \in Txs |-> IF t \in txs THEN order[t] ELSE Cardinality(txs) + 1 + TxRank[t]]

StageChange(cs) == stage' = Merge(stage, cs)

\* The index after the outpoints ops are indexed.
IndexOutpoints(ops) ==
    /\ indexed' = indexed \cup ops
    /\ used' = used \cup {ScriptOf(o) : o \in ops}

-----------------------------------------------------------------------------
(***************************************************************************)
(* Addresses.                                                              *)
(***************************************************************************)

\* Reveal up to index and stage the difference.
Reveal(k, i) ==
    /\ revealed' = RevealTo(revealed, k, i)
    /\ StageChange(FromIndexer(RevealDiff(revealed, RevealTo(revealed, k, i))))

\* A seeded bug: the new index is not staged.
reveal_next_address_unstaged(keychain) ==
    LET k == map_keychain(keychain)
    IN  /\ revealed' = RevealTo(revealed, k, NextIndex(revealed, k))
        /\ UNCHANGED <<identity, chain, graph, indexed, used, locked_outpoints, canonical_view, stage>>

reveal_next_address(keychain) ==
    /\ Reveal(map_keychain(keychain), NextIndex(revealed, map_keychain(keychain)))
    /\ UNCHANGED <<identity, chain, graph, indexed, used, locked_outpoints, canonical_view>>

\* An index past the last one is answered as far as possible.
reveal_addresses_to(keychain, i) ==
    /\ Reveal(map_keychain(keychain), i)
    /\ UNCHANGED <<identity, chain, graph, indexed, used, locked_outpoints, canonical_view>>

\* Revealed scripts of a keychain that are in the unused set.
Unused(k) == {i \in Indices : i <= revealed[k] /\ <<k, i>> \notin used}

\* The first unused index, or the next index when all revealed ones are used.
FirstUnused(k) == IF Unused(k) # {} THEN Min(Unused(k)) ELSE NextIndex(revealed, k)

\* next_unused_address: reveals only when no revealed script is unused.
next_unused_address(keychain) ==
    /\ Reveal(map_keychain(keychain), FirstUnused(map_keychain(keychain)))
    /\ UNCHANGED <<identity, chain, graph, indexed, used, locked_outpoints, canonical_view>>

\* mark_used and unmark_used change the index only: nothing is staged.
mark_used(s) ==
    /\ Derived(revealed, Active, s)
    /\ used' = used \cup {s}
    /\ UNCHANGED <<identity, chain, graph, revealed, indexed, locked_outpoints,
                   canonical_view, stage>>

unmark_used(s) ==
    /\ s \in used
    /\ \A o \in indexed : ScriptOf(o) # s
    /\ used' = used \ {s}
    /\ UNCHANGED <<identity, chain, graph, revealed, indexed, locked_outpoints,
                   canonical_view, stage>>

\* Two seeded bugs: the change script is not marked as used; its index is not
\* staged.
create_tx_unmarked ==
    /\ Reveal(map_keychain("Internal"), FirstUnused(map_keychain("Internal")))
    /\ UNCHANGED <<identity, chain, graph, indexed, used, locked_outpoints, canonical_view>>
create_tx_unstaged ==
    LET k == map_keychain("Internal")
    IN  /\ revealed' = RevealTo(revealed, k, FirstUnused(k))
        /\ used' = used \cup {<<k, FirstUnused(k)>>}
        /\ UNCHANGED <<identity, chain, graph, indexed, locked_outpoints, canonical_view, stage>>

\* create_tx, when coin selection leaves a change output and no drain_to is
\* set: the change script is revealed, staged and marked as used.
ChangeIndex == FirstUnused(map_keychain("Internal"))
create_tx ==
    /\ Reveal(map_keychain("Internal"), ChangeIndex)
    /\ used' = used \cup {<<map_keychain("Internal"), ChangeIndex>>}
    /\ UNCHANGED <<identity, chain, graph, indexed, locked_outpoints, canonical_view>>

-----------------------------------------------------------------------------
(***************************************************************************)
(* Locking of outpoints: staged only when the set changes.                 *)
(***************************************************************************)
lock_outpoint(o) ==
    /\ o \notin locked_outpoints
    /\ locked_outpoints' = locked_outpoints \cup {o}
    /\ StageChange(FromLock(o, "locked"))
    /\ UNCHANGED <<identity, chain, graph, index, canonical_view>>

\* A seeded bug: unlocking is not staged.
unlock_outpoint_unstaged(o) ==
    /\ o \in locked_outpoints
    /\ locked_outpoints' = locked_outpoints \ {o}
    /\ UNCHANGED <<identity, chain, graph, index, canonical_view, stage>>

unlock_outpoint(o) ==
    /\ o \in locked_outpoints
    /\ locked_outpoints' = locked_outpoints \ {o}
    /\ StageChange(FromLock(o, "unlocked"))
    /\ UNCHANGED <<identity, chain, graph, index, canonical_view>>

-----------------------------------------------------------------------------
(***************************************************************************)
(* Updates from a chain source.                                            *)
(***************************************************************************)

\* The chain after an update's chain part.
UpdatedChain(u) == IF u.chain = NoChain THEN chain ELSE Connected(chain, u.chain)

\* A seeded bug: the last active indices of an update are ignored.
RevealNothing(active_indices) == revealed

\* reveal_to_target_multi: keychains without a descriptor are ignored.
RevealMulti(active_indices) ==
    [k \in Keychains |->
        IF k \in Active THEN MaxOf(revealed[k], active_indices[k]) ELSE revealed[k]]

\* apply_update: the chain first (the only part that can fail), then the last
\* active indices, then the graph, whose new transactions are scanned in
\* some order.  One merge into the stage, then the view is recomputed.
apply_update(u) ==
    /\ u.chain = NoChain \/ CanConnect(chain, u.chain)
    /\ LET new_chain == UpdatedChain(u)
           revealed1 == RevealMulti(u.last_active_indices)
           diff == GraphDiff(graph, u.tx_update)
       IN \E order \in Orders(diff.txs) :
         LET ops == Matched(revealed1, Active, OutputsOf(diff.txs) \cup diff.txouts,
                            ScanOrder(diff.txs, order))
             revealed2 == RevealedBy(revealed1, ops)
         IN  /\ chain' = new_chain
             /\ graph' = ApplyGraph(graph, u.tx_update)
             /\ IndexOutpoints(ops)
             /\ revealed' = revealed2
             /\ StageChange(Merge(Merge(FromChain(ChainDiff(chain, new_chain)),
                                        FromIndexer(RevealDiff(revealed, revealed1))),
                                  FromGraph(diff, RevealDiff(revealed1, revealed2))))
    /\ update_canonical_view
    /\ UNCHANGED <<identity, locked_outpoints>>

\* The graph update that adds transactions seen, or found evicted, at a time.
SeenUpdate(txs, times) ==
    [EmptyGraph EXCEPT !.txs = txs,
                       !.last_seen = [t \in Txs |-> IF t \in txs THEN times[t] ELSE 0]]
EvictedUpdate(txs, times) ==
    [EmptyGraph EXCEPT !.last_evicted = [t \in Txs |-> IF t \in txs THEN times[t] ELSE 0]]

\* insert_txout is apply_update with a floating output.
insert_txout(o) ==
    apply_update([chain |-> NoChain,
                  tx_update |-> [EmptyGraph EXCEPT !.txouts = {o}],
                  last_active_indices |-> [k \in Keychains |-> -1]])

\* The blocks b may be said to connect to: its parent or an earlier ancestor
\* (apply_header_connected_to refuses the others).
Ancestors(b) ==
    LET anc[n \in 0..MaxHeight] == IF n = 0 THEN {Parent[b]}
                                   ELSE anc[n - 1] \cup {Parent[x] : x \in anc[n - 1] \ {NoHash}}
    IN  {x \in Hashes : x \in anc[MaxHeight]}

\* apply_block_connected_to: the header is a chain update; each transaction of
\* the block is scanned in order and kept, with its anchor, if it is relevant
\* by then.  With the parent as connected_to it is apply_block.
apply_block_connected_to(b, connected_to) ==
    LET upd == FromBlocks({connected_to, b} \cup ({Parent[b]} \ {NoHash}))
        pos == BlockTxs[b]
        txs == DOMAIN pos
        ops == Matched(revealed, Active, OutputsOf(txs), pos)
        upto(t) == {o \in ops : pos[o[1]] <= pos[t]}
        relevant == {t \in txs : IsRelevant(RevealedBy(revealed, upto(t)), Active,
                                            indexed \cup upto(t), t)}
        found == [EmptyGraph EXCEPT !.txs = relevant, !.anchors = {b} \X relevant]
    IN  /\ CanConnect(chain, upd)
        /\ chain' = Connected(chain, upd)
        /\ graph' = ApplyGraph(graph, found)
        /\ IndexOutpoints(ops)
        /\ revealed' = RevealedBy(revealed, ops)
        /\ StageChange(Merge(FromChain(ChainDiff(chain, Connected(chain, upd))),
                             FromGraph(GraphDiff(graph, found),
                                       RevealDiff(revealed, RevealedBy(revealed, ops)))))
        /\ update_canonical_view
        /\ UNCHANGED <<identity, locked_outpoints>>

\* apply_unconfirmed_txs: every transaction of the batch is scanned, then the
\* relevant ones are kept.
apply_unconfirmed_txs(batch) ==
    /\ LET txs == {t \in Txs : batch[t] > 0}
       IN \E order \in Orders(txs) :
         LET ops == Matched(revealed, Active, OutputsOf(txs), order)
             new_revealed == RevealedBy(revealed, ops)
             relevant == {t \in txs : IsRelevant(new_revealed, Active, indexed \cup ops, t)}
             seen == SeenUpdate(relevant, batch)
         IN  /\ graph' = ApplyGraph(graph, seen)
             /\ IndexOutpoints(ops)
             /\ revealed' = new_revealed
             /\ StageChange(FromGraph(GraphDiff(graph, seen), RevealDiff(revealed, new_revealed)))
    /\ UNCHANGED <<identity, chain, locked_outpoints>>
    /\ update_canonical_view

\* apply_evicted_txs: an apply_update with the evictions of the transactions
\* that are in the canonical view.
apply_evicted_txs(evicted) ==
    LET txs == {t \in Txs : evicted[t] > 0 /\ t \in DOMAIN canonical_view}
    IN  apply_update([chain |-> NoChain,
                      tx_update |-> EvictedUpdate(txs, evicted),
                      last_active_indices |-> [k \in Keychains |-> -1]])

-----------------------------------------------------------------------------
\* The methods that need no chain data, and those that apply it.
UserOp ==
    \/ \E k \in Keychains : reveal_next_address(k)
    \/ \E k \in Keychains, i \in 0..MaxIndex + 1 : reveal_addresses_to(k, i)
    \/ \E k \in Keychains : next_unused_address(k)
    \/ \E s \in Markable : mark_used(s)
    \/ \E s \in Markable : unmark_used(s)
    \/ create_tx
    \/ \E o \in Lockable : lock_outpoint(o)
    \/ \E o \in Lockable : unlock_outpoint(o)

ChainOp ==
    \/ \E u \in Updates : apply_update(u)
    \/ \E o \in Floating : insert_txout(o)
    \/ \E b \in Blocks : \E c \in Ancestors(b) \cup {b} : apply_block_connected_to(b, c)
    \/ \E batch \in Batches : apply_unconfirmed_txs(batch)
    \/ \E evicted \in Evictions : apply_evicted_txs(evicted)

=============================================================================

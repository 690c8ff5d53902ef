----------------------- MODULE PersistedWallet_proofs -----------------------
(***************************************************************************)
(* Proofs about PersistedWallet, for every value of its constants: the     *)
(* types, then that nothing the wallet learns is lost, then what load      *)
(* finds in a database.  At the end, about AddressReuse: no address is     *)
(* handed out twice.                                                       *)
(***************************************************************************)
EXTENDS AddressReuse, WellFoundedInduction, TLAPS

-----------------------------------------------------------------------------
(***************************************************************************)
(* Minimum and maximum, as FiniteSetsExt defines them, of bounded sets.    *)
(***************************************************************************)

\* A set of natural numbers that is not empty has a least element.
LEMMA NatMin ==
    ASSUME NEW T, T \subseteq Nat, T # {}
    PROVE  \E x \in T : \A y \in T : x <= y
<1>1. PICK x \in T : \A y \in T : ~ (<<y, x>> \in OpToRel(<, Nat))
    BY NatLessThanWellFounded, WFMin, Zenon
<1>2. \A y \in T : ~(y < x)
    BY <1>1 DEF OpToRel
<1> QED BY <1>2

\* Max is an element of a bounded set, and none is larger.
LEMMA BoundedMax ==
    ASSUME NEW S, NEW lo \in Int, NEW hi \in Int, S \subseteq lo..hi, S # {}
    PROVE  Max(S) \in S /\ \A y \in S : Max(S) >= y
<1> DEFINE T == {hi - y : y \in S}
<1>1. T \subseteq Nat /\ T # {}
    OBVIOUS
<1>2. PICK m \in T : \A n \in T : m <= n
    BY <1>1, NatMin
<1>3. PICK x \in S : m = hi - x
    OBVIOUS
<1>4. \A y \in S : hi - y \in T
    OBVIOUS
<1>5. ASSUME NEW y \in S PROVE x >= y
    <2>1. m <= hi - y
        BY <1>2, <1>4
    <2>2. x \in Int /\ y \in Int
        OBVIOUS
    <2> QED BY <1>3, <2>1, <2>2, SMT
<1> QED BY <1>5 DEF Max

-----------------------------------------------------------------------------
(***************************************************************************)
(* The types of what the operators of BdkChain return.                     *)
(***************************************************************************)

\* The empty graph is a graph.
LEMMA EmptyGraphType == EmptyGraph \in Graphs
BY BoundsAssumption DEF EmptyGraph, Graphs, Times

\* Merging two transaction graphs (tx_graph::ChangeSet::merge) gives a graph.
LEMMA MergeGraphType ==
    ASSUME NEW g \in Graphs, NEW u \in Graphs
    PROVE  MergeGraph(g, u) \in Graphs
BY BoundsAssumption DEF MergeGraph, Graphs, Times, MaxOf

\* A graph without the floating outputs of its whole transactions is a graph.
LEMMA WholeType ==
    ASSUME NEW g \in Graphs
    PROVE  Whole(g) \in Graphs
BY DEF Whole, Graphs

\* What applying an update adds to a graph is itself a graph changeset.
LEMMA GraphDiffType ==
    ASSUME NEW g \in Graphs, NEW u \in Graphs
    PROVE  GraphDiff(g, u) \in Graphs
BY BoundsAssumption DEF GraphDiff, Graphs, Times

\* Applying a graph update (TxGraph::apply_update) gives a graph.
LEMMA ApplyGraphType ==
    ASSUME NEW g \in Graphs, NEW u \in Graphs
    PROVE  ApplyGraph(g, u) \in Graphs
BY MergeGraphType, WholeType DEF ApplyGraph

\* Connecting an update to a chain (LocalChain::apply_update) gives a chain.
LEMMA ConnectedType ==
    ASSUME NEW c \in Chains, NEW u \in Chains
    PROVE  Connected(c, u) \in Chains
BY DEF Connected, Chains

\* The checkpoint list apply_block_connected_to builds is a chain.
LEMMA FromBlocksType ==
    ASSUME NEW hashes, hashes \subseteq Hashes
    PROVE  FromBlocks(hashes) \in Chains
BY DEF FromBlocks, Chains

\* An output's script is a pair, and its index one the descriptor derives.
LEMMA ScriptOfType ==
    ASSUME NEW o \in Outpoints
    PROVE  /\ ScriptOf(o)[2] \in Indices
           /\ ScriptOf(o)[1] \in Keychains => ScriptOf(o) \in Scripts
<1>1. PICK t \in Txs : o \in {t} \X DOMAIN Pays[t]
    BY DEF Outpoints
<1>2. o[1] = t /\ o[2] \in DOMAIN Pays[t]
    BY <1>1
<1>3. ScriptOf(o) = <<ScriptOf(o)[1], ScriptOf(o)[2]>> /\ ScriptOf(o)[2] \in Indices
    BY <1>2, TxsAssumption DEF ScriptOf
<1> QED BY <1>3 DEF Scripts

\* Indexing never takes a revealed index back, covers what it indexed and
\* stays within what a descriptor can derive.
LEMMA RevealedByBounds ==
    ASSUME NEW r \in [Keychains -> RevealedIndex], NEW ops, ops \subseteq Outpoints
    PROVE  /\ RevealedBy(r, ops) \in [Keychains -> RevealedIndex]
           /\ \A k \in Keychains : RevealedBy(r, ops)[k] >= r[k]
           /\ \A o \in ops : ScriptOf(o)[1] \in Keychains =>
                ScriptOf(o)[2] <= RevealedBy(r, ops)[ScriptOf(o)[1]]
<1> DEFINE S(k) == {r[k]} \cup {ScriptOf(o)[2] : o \in {p \in ops : ScriptOf(p)[1] = k}}
<1>1. ASSUME NEW k \in Keychains PROVE Max(S(k)) \in S(k) /\ \A y \in S(k) : Max(S(k)) >= y
    <2>1. S(k) \subseteq -1..MaxIndex
        BY ScriptOfType, BoundsAssumption DEF RevealedIndex, Indices
    <2>2. S(k) # {}
        OBVIOUS
    <2> HIDE DEF S
    <2> QED BY <2>1, <2>2, BoundedMax, BoundsAssumption
<1>2. \A k \in Keychains : S(k) \subseteq RevealedIndex
    BY ScriptOfType, BoundsAssumption DEF RevealedIndex, Indices
<1>3. RevealedBy(r, ops) = [k \in Keychains |-> Max(S(k))]
    BY DEF RevealedBy
<1>4. \A k \in Keychains : r[k] \in S(k)
    OBVIOUS
<1>5. \A o \in ops : ScriptOf(o)[2] \in S(ScriptOf(o)[1])
    OBVIOUS
<1> HIDE DEF S
<1> QED BY <1>1, <1>2, <1>3, <1>4, <1>5

\* The indexer changeset between two revelations is one.
LEMMA RevealDiffType ==
    ASSUME NEW r \in [Keychains -> RevealedIndex], NEW s \in [Keychains -> RevealedIndex]
    PROVE  RevealDiff(r, s) \in [Keychains -> RevealedIndex]
BY BoundsAssumption DEF RevealDiff, RevealedIndex

\* reveal_to_target stays within the derivation indices and never goes back.
LEMMA RevealToType ==
    ASSUME NEW r \in [Keychains -> RevealedIndex], NEW k \in Keychains, NEW i \in Nat
    PROVE  /\ RevealTo(r, k, i) \in [Keychains -> RevealedIndex]
           /\ \A j \in Keychains : RevealTo(r, k, i)[j] >= r[j]
BY BoundsAssumption DEF RevealTo, RevealedIndex, MaxOf

\* A scan indexes outputs it was given, of keychains that have a descriptor.
LEMMA MatchedSubset ==
    ASSUME NEW r, NEW active, NEW outs, NEW pos
    PROVE  /\ Matched(r, active, outs, pos) \subseteq outs
           /\ \A o \in Matched(r, active, outs, pos) : ScriptOf(o)[1] \in active
BY DEF Matched

\* Only transactions of the graph are canonical.
LEMMA CanonicalSubset ==
    ASSUME NEW c, NEW g
    PROVE  Canonical(c, g) \subseteq g.txs
BY DEF Canonical

-----------------------------------------------------------------------------
(***************************************************************************)
(* The types of changesets.                                                *)
(***************************************************************************)

\* The empty stage is a changeset.
LEMMA EmptyChangeSetType == EmptyChangeSet \in ChangeSets
BY EmptyGraphType, BoundsAssumption
   DEF EmptyChangeSet, ChangeSets, RevealedIndex, LockStates

\* Merge::merge of two wallet changesets is a changeset.
LEMMA MergeType ==
    ASSUME NEW cs \in ChangeSets, NEW other \in ChangeSets
    PROVE  Merge(cs, other) \in ChangeSets
<1>1. MergeGraph(cs.tx_graph, other.tx_graph) \in Graphs
    BY MergeGraphType DEF ChangeSets
<1>2. MergeIndexer(cs.indexer, other.indexer) \in [Keychains -> RevealedIndex]
    BY BoundsAssumption DEF ChangeSets, MergeIndexer, MaxOf, RevealedIndex
<1>3. MergeLocks(cs.locked_outpoints, other.locked_outpoints) \in [Outpoints -> LockStates]
    BY DEF ChangeSets, MergeLocks
<1>4. MergeBlocks(cs.local_chain, other.local_chain) \in [Heights -> Hashes \cup {NoHash, Unset}]
    BY DEF ChangeSets, MergeBlocks
<1> QED BY <1>1, <1>2, <1>3, <1>4 DEF Merge, ChangeSets, MergeOption

\* persist_to_sqlite leaves tables that read back as a changeset.
LEMMA PersistToSqliteType ==
    ASSUME NEW d \in ChangeSets, NEW cs \in ChangeSets
    PROVE  PersistToSqlite(d, cs) \in ChangeSets
<1> DEFINE p == PersistToSqlite(d, cs)
<1>1. p.tx_graph \in Graphs
    BY DEF PersistToSqlite, ChangeSets, Graphs, Overwrite
<1>2. p.indexer \in [Keychains -> RevealedIndex]
    BY DEF PersistToSqlite, ChangeSets, Overwrite
<1>3. p.locked_outpoints \in [Outpoints -> LockStates]
    BY DEF PersistToSqlite, ChangeSets, LockStates
<1>4. p.local_chain \in [Heights -> Hashes \cup {NoHash, Unset}]
    BY DEF PersistToSqlite, ChangeSets, Overwrite
<1>5. /\ p.descriptor \in Descriptors \cup {None}
      /\ p.change_descriptor \in Descriptors \cup {None}
      /\ p.network \in Networks \cup {None}
    BY DEF PersistToSqlite, ChangeSets, MergeOption
<1> QED BY <1>1, <1>2, <1>3, <1>4, <1>5 DEF PersistToSqlite, ChangeSets

\* What either backend holds after a write is a changeset.
LEMMA WriteType ==
    ASSUME db \in ChangeSets, NEW cs \in ChangeSets
    PROVE  Write(cs) \in ChangeSets
BY MergeType, PersistToSqliteType DEF Write, PersistToFile

\* From<local_chain::ChangeSet> gives a wallet changeset.
LEMMA FromChainType ==
    ASSUME NEW c \in Chains, NEW d \in Chains
    PROVE  FromChain(ChainDiff(c, d)) \in ChangeSets
BY EmptyChangeSetType DEF FromChain, ChainDiff, ChangeSets, Chains

\* From<indexed_tx_graph::ChangeSet> gives a wallet changeset.
LEMMA FromGraphType ==
    ASSUME NEW g \in Graphs, NEW r \in [Keychains -> RevealedIndex]
    PROVE  FromGraph(g, r) \in ChangeSets
BY EmptyChangeSetType DEF FromGraph, ChangeSets

\* From<keychain_txout::ChangeSet> gives a wallet changeset.
LEMMA FromIndexerType ==
    ASSUME NEW r \in [Keychains -> RevealedIndex]
    PROVE  FromIndexer(r) \in ChangeSets
BY EmptyChangeSetType DEF FromIndexer, ChangeSets

\* The changeset lock_outpoint and unlock_outpoint stage is one.
LEMMA FromLockType ==
    ASSUME NEW o \in Outpoints, NEW s \in LockStates
    PROVE  FromLock(o, s) \in ChangeSets
BY EmptyChangeSetType DEF FromLock, ChangeSets

\* The stage create_with_params starts with is a changeset.
LEMMA NewStageType ==
    ASSUME NEW p \in CreateParams
    PROVE  NewStage(p) \in ChangeSets
BY EmptyChangeSetType, ParamsAssumption, BlocksAssumption, BoundsAssumption
   DEF NewStage, ChangeSets, Heights

-----------------------------------------------------------------------------
(***************************************************************************)
(* Type correctness.  Every action keeps TypeOK; an action on the wallet   *)
(* in memory is typed by the operators it is made of.                      *)
(***************************************************************************)

\* The cached canonical view is a view of known transactions.
LEMMA CanonicalViewType ==
    ASSUME NEW c, NEW g \in Graphs
    PROVE  /\ CanonicalView(c, g) = [t \in DOMAIN CanonicalView(c, g) |-> CanonicalView(c, g)[t]]
           /\ DOMAIN CanonicalView(c, g) \subseteq Txs
BY CanonicalSubset DEF CanonicalView, Graphs

\* map_keychain answers with a keychain, whether or not there is a change descriptor.
LEMMA ActiveKeychains ==
    /\ Active \subseteq Keychains
    /\ \A k \in Keychains : map_keychain(k) \in Keychains
BY DEF Active, KeychainsOf, map_keychain, Keychains

\* next_index is a derivation index, at the last one too.
LEMMA NextIndexType ==
    ASSUME NEW r \in [Keychains -> RevealedIndex], NEW k \in Keychains
    PROVE  NextIndex(r, k) \in Indices
BY BoundsAssumption DEF NextIndex, RevealedIndex, Indices

\* next_unused_address hands out a derivation index.
LEMMA FirstUnusedType ==
    ASSUME revealed \in [Keychains -> RevealedIndex], NEW k \in Keychains
    PROVE  FirstUnused(k) \in Indices
<1>1. CASE Unused(k) # {}
    <2>1. Unused(k) \subseteq Nat
        BY BoundsAssumption DEF Unused, Indices
    <2>2. Min(Unused(k)) \in Unused(k)
        BY <1>1, <2>1, NatMin DEF Min
    <2> QED BY <1>1, <2>2 DEF FirstUnused, Unused
<1>2. CASE Unused(k) = {}
    BY <1>2, NextIndexType DEF FirstUnused
<1> QED BY <1>1, <1>2

\* Revealing to an index.
LEMMA RevealKeepsType ==
    ASSUME TypeOK, NEW k \in Keychains, NEW i \in Nat, Reveal(k, i)
    PROVE  revealed' \in [Keychains -> RevealedIndex] /\ stage' \in ChangeSets
<1>1. RevealTo(revealed, k, i) \in [Keychains -> RevealedIndex]
    BY RevealToType DEF TypeOK
<1>2. FromIndexer(RevealDiff(revealed, RevealTo(revealed, k, i))) \in ChangeSets
    BY <1>1, RevealDiffType, FromIndexerType DEF TypeOK
<1> QED BY <1>1, <1>2, MergeType DEF Reveal, StageChange, TypeOK

\* Indexing outpoints of keychains that have a descriptor.
LEMMA IndexKeepsType ==
    ASSUME TypeOK, NEW ops, ops \subseteq Outpoints,
           \A o \in ops : ScriptOf(o)[1] \in Keychains,
           IndexOutpoints(ops)
    PROVE  indexed' \subseteq Outpoints /\ used' \subseteq Scripts
<1>1. \A o \in ops : ScriptOf(o) \in Scripts
    BY ScriptOfType
<1> QED BY <1>1 DEF IndexOutpoints, TypeOK

\* An update is a record of a chain, a graph and indices.
LEMMA UpdateFields ==
    ASSUME NEW u \in UpdateRecords
    PROVE  /\ u.chain \in Chains
           /\ u.tx_update \in Graphs
           /\ u.last_active_indices \in [Keychains -> RevealedIndex]
BY DEF UpdateRecords

\* reveal_to_target_multi stays within the derivation indices and never goes back.
LEMMA RevealMultiType ==
    ASSUME revealed \in [Keychains -> RevealedIndex], NEW a \in [Keychains -> RevealedIndex]
    PROVE  /\ RevealMulti(a) \in [Keychains -> RevealedIndex]
           /\ \A k \in Keychains : RevealMulti(a)[k] >= revealed[k]
BY BoundsAssumption DEF RevealMulti, RevealedIndex, MaxOf

\* The chain apply_update leaves is a chain.
LEMMA UpdatedChainType ==
    ASSUME chain \in Chains, NEW u \in UpdateRecords
    PROVE  UpdatedChain(u) \in Chains
BY ConnectedType, UpdateFields DEF UpdatedChain

\* apply_update preserves the types.
LEMMA apply_update_type ==
    ASSUME TypeOK, NEW u \in UpdateRecords, apply_update(u), UNCHANGED <<backend, opened, db>>
    PROVE  TypeOK'
<1> DEFINE new_chain == UpdatedChain(u)
           revealed1 == RevealMulti(u.last_active_indices)
           diff == GraphDiff(graph, u.tx_update)
           outs == OutputsOf(diff.txs) \cup diff.txouts
<1>1. /\ new_chain \in Chains
      /\ revealed1 \in [Keychains -> RevealedIndex]
      /\ diff \in Graphs
      /\ ApplyGraph(graph, u.tx_update) \in Graphs
    BY UpdateFields, UpdatedChainType, RevealMultiType, GraphDiffType, ApplyGraphType DEF TypeOK
<1>2. PICK order \in Orders(diff.txs) :
        LET ops == Matched(revealed1, Active, outs, ScanOrder(diff.txs, order))
            revealed2 == RevealedBy(revealed1, ops)
        IN  /\ chain' = new_chain
            /\ graph' = ApplyGraph(graph, u.tx_update)
            /\ IndexOutpoints(ops)
            /\ revealed' = revealed2
            /\ StageChange(Merge(Merge(FromChain(ChainDiff(chain, new_chain)),
                                       FromIndexer(RevealDiff(revealed, revealed1))),
                                 FromGraph(diff, RevealDiff(revealed1, revealed2))))
    BY DEF apply_update
<1> DEFINE ops == Matched(revealed1, Active, outs, ScanOrder(diff.txs, order))
           revealed2 == RevealedBy(revealed1, ops)
<1>3. ops \subseteq Outpoints /\ \A o \in ops : ScriptOf(o)[1] \in Keychains
    <2>1. outs \subseteq Outpoints
        BY <1>1 DEF OutputsOf, Graphs
    <2> QED BY <2>1, MatchedSubset, ActiveKeychains
<1> HIDE DEF new_chain, revealed1, diff, outs, ops
<1>4. revealed2 \in [Keychains -> RevealedIndex]
    BY <1>1, <1>3, RevealedByBounds
<1>5. stage' \in ChangeSets
    <2>1. FromChain(ChainDiff(chain, new_chain)) \in ChangeSets
        BY <1>1, FromChainType DEF TypeOK
    <2>2. FromIndexer(RevealDiff(revealed, revealed1)) \in ChangeSets
        BY <1>1, FromIndexerType, RevealDiffType DEF TypeOK
    <2>3. FromGraph(diff, RevealDiff(revealed1, revealed2)) \in ChangeSets
        BY <1>1, <1>4, FromGraphType, RevealDiffType
    <2> QED BY <1>2, <2>1, <2>2, <2>3, MergeType DEF StageChange, TypeOK, ops
<1>6. indexed' \subseteq Outpoints /\ used' \subseteq Scripts
    BY <1>2, <1>3, IndexKeepsType DEF ops
<1>7. canonical_view' = CanonicalView(chain', graph') /\ UNCHANGED <<identity, locked_outpoints>>
    BY DEF apply_update, update_canonical_view
<1> QED BY <1>1, <1>2, <1>4, <1>5, <1>6, <1>7, CanonicalViewType DEF TypeOK, identity, ops

\* insert_txout and apply_evicted_txs are calls of apply_update.
LEMMA insert_txout_update ==
    ASSUME NEW o \in Floating
    PROVE  [chain |-> NoChain,
            tx_update |-> [EmptyGraph EXCEPT !.txouts = {o}],
            last_active_indices |-> [k \in Keychains |-> -1]] \in UpdateRecords
<1>1. NoChain \in Chains
    BY DEF NoChain, Chains
<1>2. [EmptyGraph EXCEPT !.txouts = {o}] \in Graphs
    BY EmptyGraphType, InputsAssumption DEF Graphs
<1>3. [k \in Keychains |-> -1] \in [Keychains -> RevealedIndex]
    BY BoundsAssumption DEF RevealedIndex
<1> QED BY <1>1, <1>2, <1>3 DEF UpdateRecords

\* The update apply_evicted_txs builds is an update.
LEMMA EvictedUpdateType ==
    ASSUME NEW txs, NEW evicted \in Evictions
    PROVE  [chain |-> NoChain,
            tx_update |-> EvictedUpdate(txs, evicted),
            last_active_indices |-> [k \in Keychains |-> -1]] \in UpdateRecords
<1>1. NoChain \in Chains
    BY DEF NoChain, Chains
<1>2. EvictedUpdate(txs, evicted) \in Graphs
    BY EmptyGraphType, InputsAssumption, BoundsAssumption DEF EvictedUpdate, Graphs, Times
<1>3. [k \in Keychains |-> -1] \in [Keychains -> RevealedIndex]
    BY BoundsAssumption DEF RevealedIndex
<1> QED BY <1>1, <1>2, <1>3 DEF UpdateRecords

\* apply_block_connected_to preserves the types.
LEMMA apply_block_type ==
    ASSUME TypeOK, NEW b \in Hashes, NEW connected_to \in Hashes,
           apply_block_connected_to(b, connected_to), UNCHANGED <<backend, opened, db>>
    PROVE  TypeOK'
<1> DEFINE upd == FromBlocks({connected_to, b} \cup ({Parent[b]} \ {NoHash}))
           pos == BlockTxs[b]
           txs == DOMAIN pos
           ops == Matched(revealed, Active, OutputsOf(txs), pos)
           upto(t) == {o \in ops : pos[o[1]] <= pos[t]}
           relevant == {t \in txs : IsRelevant(RevealedBy(revealed, upto(t)), Active,
                                               indexed \cup upto(t), t)}
           found == [EmptyGraph EXCEPT !.txs = relevant, !.anchors = {b} \X relevant]
<1>1. upd \in Chains
    BY FromBlocksType, InputsAssumption
<1>2. ops \subseteq Outpoints /\ \A o \in ops : ScriptOf(o)[1] \in Keychains
    BY MatchedSubset, ActiveKeychains DEF OutputsOf
<1>3. found \in Graphs
    <2>1. relevant \subseteq Txs
        BY InputsAssumption
    <2>2. {b} \X relevant \subseteq Anchors
        BY <2>1 DEF Anchors
    <2> HIDE DEF relevant
    <2> QED BY <2>1, <2>2, EmptyGraphType DEF Graphs
<1>4. /\ chain' = Connected(chain, upd)
      /\ graph' = ApplyGraph(graph, found)
      /\ IndexOutpoints(ops)
      /\ revealed' = RevealedBy(revealed, ops)
      /\ StageChange(Merge(FromChain(ChainDiff(chain, Connected(chain, upd))),
                           FromGraph(GraphDiff(graph, found),
                                     RevealDiff(revealed, RevealedBy(revealed, ops)))))
      /\ canonical_view' = CanonicalView(chain', graph')
      /\ UNCHANGED <<identity, locked_outpoints>>
    BY DEF apply_block_connected_to, update_canonical_view
<1> HIDE DEF upd, ops, found
<1>5. chain' \in Chains /\ graph' \in Graphs /\ revealed' \in [Keychains -> RevealedIndex]
    BY <1>1, <1>2, <1>3, <1>4, ConnectedType, ApplyGraphType, RevealedByBounds DEF TypeOK
<1>6. stage' \in ChangeSets
    <2>1. FromChain(ChainDiff(chain, Connected(chain, upd))) \in ChangeSets
        BY <1>4, <1>5, FromChainType DEF TypeOK
    <2>2. FromGraph(GraphDiff(graph, found), RevealDiff(revealed, RevealedBy(revealed, ops)))
            \in ChangeSets
        BY <1>3, <1>4, <1>5, FromGraphType, GraphDiffType, RevealDiffType DEF TypeOK
    <2> QED BY <1>4, <2>1, <2>2, MergeType DEF StageChange, TypeOK
<1>7. indexed' \subseteq Outpoints /\ used' \subseteq Scripts
    BY <1>2, <1>4, IndexKeepsType
<1> QED BY <1>4, <1>5, <1>6, <1>7, CanonicalViewType DEF TypeOK, identity

\* The graph update apply_unconfirmed_txs builds is a graph.
LEMMA SeenUpdateType ==
    ASSUME NEW txs, txs \subseteq Txs, NEW batch \in Batches
    PROVE  SeenUpdate(txs, batch) \in Graphs
<1>1. [t \in Txs |-> IF t \in txs THEN batch[t] ELSE 0] \in [Txs -> Times]
    BY InputsAssumption, BoundsAssumption DEF Times
<1> QED BY <1>1, EmptyGraphType DEF SeenUpdate, Graphs

\* apply_unconfirmed_txs preserves the types.
LEMMA apply_unconfirmed_type ==
    ASSUME TypeOK, NEW batch \in Batches, apply_unconfirmed_txs(batch),
           UNCHANGED <<backend, opened, db>>
    PROVE  TypeOK'
<1> DEFINE txs == {t \in Txs : batch[t] > 0}
           ops(order) == Matched(revealed, Active, OutputsOf(txs), order)
           new_revealed(order) == RevealedBy(revealed, ops(order))
           relevant(order) == {t \in txs : IsRelevant(new_revealed(order), Active,
                                                      indexed \cup ops(order), t)}
           seen(order) == SeenUpdate(relevant(order), batch)
<1>1. PICK order \in Orders(txs) :
        /\ graph' = ApplyGraph(graph, seen(order))
        /\ IndexOutpoints(ops(order))
        /\ revealed' = new_revealed(order)
        /\ StageChange(FromGraph(GraphDiff(graph, seen(order)),
                                 RevealDiff(revealed, new_revealed(order))))
    BY DEF apply_unconfirmed_txs
<1>2. ops(order) \subseteq Outpoints /\ \A o \in ops(order) : ScriptOf(o)[1] \in Keychains
    BY MatchedSubset, ActiveKeychains DEF OutputsOf
<1>3. seen(order) \in Graphs
    <2>1. relevant(order) \subseteq Txs
        OBVIOUS
    <2> HIDE DEF relevant
    <2> QED BY <2>1, SeenUpdateType
<1> HIDE DEF ops, seen
<1>4. graph' \in Graphs /\ revealed' \in [Keychains -> RevealedIndex]
    BY <1>1, <1>2, <1>3, ApplyGraphType, RevealedByBounds DEF TypeOK
<1>5. stage' \in ChangeSets
    <2>1. FromGraph(GraphDiff(graph, seen(order)), RevealDiff(revealed, revealed')) \in ChangeSets
        BY <1>3, <1>4, FromGraphType, GraphDiffType, RevealDiffType DEF TypeOK
    <2> QED BY <1>1, <2>1, MergeType DEF StageChange, TypeOK
<1>6. indexed' \subseteq Outpoints /\ used' \subseteq Scripts
    BY <1>1, <1>2, IndexKeepsType
<1>7. canonical_view' = CanonicalView(chain', graph') /\ UNCHANGED <<identity, chain, locked_outpoints>>
    BY DEF apply_unconfirmed_txs, update_canonical_view
<1> QED BY <1>4, <1>5, <1>6, <1>7, CanonicalViewType DEF TypeOK, identity

\* The methods that need no chain data.
LEMMA UserOpType ==
    ASSUME TypeOK, UserOp, UNCHANGED <<backend, opened, db>>
    PROVE  TypeOK'
<1>1. ASSUME NEW k \in Keychains, reveal_next_address(k) PROVE TypeOK'
    <2>1. map_keychain(k) \in Keychains /\ NextIndex(revealed, map_keychain(k)) \in Nat
        BY ActiveKeychains, NextIndexType, BoundsAssumption DEF TypeOK, Indices
    <2>2. revealed' \in [Keychains -> RevealedIndex] /\ stage' \in ChangeSets
        BY <1>1, <2>1, RevealKeepsType DEF reveal_next_address
    <2> QED BY <1>1, <2>2 DEF reveal_next_address, TypeOK, identity
<1>2. ASSUME NEW k \in Keychains, NEW i \in 0..MaxIndex + 1, reveal_addresses_to(k, i)
      PROVE  TypeOK'
    <2>1. map_keychain(k) \in Keychains /\ i \in Nat
        BY ActiveKeychains, BoundsAssumption
    <2>2. revealed' \in [Keychains -> RevealedIndex] /\ stage' \in ChangeSets
        BY <1>2, <2>1, RevealKeepsType DEF reveal_addresses_to
    <2> QED BY <1>2, <2>2 DEF reveal_addresses_to, TypeOK, identity
<1>3. ASSUME NEW k \in Keychains, next_unused_address(k) PROVE TypeOK'
    <2>1. map_keychain(k) \in Keychains /\ FirstUnused(map_keychain(k)) \in Nat
        BY ActiveKeychains, FirstUnusedType, BoundsAssumption DEF TypeOK, Indices
    <2>2. revealed' \in [Keychains -> RevealedIndex] /\ stage' \in ChangeSets
        BY <1>3, <2>1, RevealKeepsType DEF next_unused_address
    <2> QED BY <1>3, <2>2 DEF next_unused_address, TypeOK, identity
<1>4. ASSUME NEW s \in Markable, mark_used(s) PROVE TypeOK'
    BY <1>4, InputsAssumption DEF mark_used, TypeOK, identity
<1>5. ASSUME NEW s \in Markable, unmark_used(s) PROVE TypeOK'
    BY <1>5 DEF unmark_used, TypeOK, identity
<1>6. ASSUME create_tx PROVE TypeOK'
    <2>1. map_keychain("Internal") \in Keychains /\ ChangeIndex \in Indices /\ ChangeIndex \in Nat
        BY ActiveKeychains, FirstUnusedType, BoundsAssumption DEF TypeOK, Indices, ChangeIndex, Keychains
    <2>2. revealed' \in [Keychains -> RevealedIndex] /\ stage' \in ChangeSets
        BY <1>6, <2>1, RevealKeepsType DEF create_tx
    <2>3. used' \subseteq Scripts
        BY <1>6, <2>1 DEF create_tx, TypeOK, Scripts
    <2> QED BY <1>6, <2>2, <2>3 DEF create_tx, TypeOK, identity
<1>7. ASSUME NEW o \in Lockable, lock_outpoint(o) PROVE TypeOK'
    <2>1. FromLock(o, "locked") \in ChangeSets
        BY FromLockType, InputsAssumption DEF LockStates
    <2>2. stage' \in ChangeSets
        BY <1>7, <2>1, MergeType DEF lock_outpoint, StageChange, TypeOK
    <2> QED BY <1>7, <2>2, InputsAssumption DEF lock_outpoint, TypeOK, identity, index
<1>8. ASSUME NEW o \in Lockable, unlock_outpoint(o) PROVE TypeOK'
    <2>1. FromLock(o, "unlocked") \in ChangeSets
        BY FromLockType, InputsAssumption DEF LockStates
    <2>2. stage' \in ChangeSets
        BY <1>8, <2>1, MergeType DEF unlock_outpoint, StageChange, TypeOK
    <2> QED BY <1>8, <2>2 DEF unlock_outpoint, TypeOK, identity, index
<1> QED BY <1>1, <1>2, <1>3, <1>4, <1>5, <1>6, <1>7, <1>8 DEF UserOp

\* The methods that apply chain data.
LEMMA ChainOpType ==
    ASSUME TypeOK, ChainOp, UNCHANGED <<backend, opened, db>>
    PROVE  TypeOK'
<1>1. ASSUME NEW u \in Updates, apply_update(u) PROVE TypeOK'
    BY <1>1, apply_update_type, InputsAssumption
<1>2. ASSUME NEW o \in Floating, insert_txout(o) PROVE TypeOK'
    BY <1>2, apply_update_type, insert_txout_update DEF insert_txout
<1>3. ASSUME NEW b \in Blocks, NEW c \in Ancestors(b) \cup {b}, apply_block_connected_to(b, c)
      PROVE  TypeOK'
    <2>1. b \in Hashes /\ c \in Hashes
        BY InputsAssumption DEF Ancestors
    <2> QED BY <1>3, <2>1, apply_block_type
<1>4. ASSUME NEW batch \in Batches, apply_unconfirmed_txs(batch) PROVE TypeOK'
    BY <1>4, apply_unconfirmed_type
<1>5. ASSUME NEW evicted \in Evictions, apply_evicted_txs(evicted) PROVE TypeOK'
    BY <1>5, apply_update_type, EvictedUpdateType DEF apply_evicted_txs
<1> QED BY <1>1, <1>2, <1>3, <1>4, <1>5 DEF ChainOp

\* What load_with_params reads out of a changeset is well typed.
LEMMA LoadImageType ==
    ASSUME NEW cs \in ChangeSets
    PROVE  /\ LoadImage(cs).chain \in Chains
           /\ LoadImage(cs).graph \in Graphs
           /\ LoadImage(cs).revealed \in [Keychains -> RevealedIndex]
           /\ LoadImage(cs).locked \subseteq Outpoints
           /\ LoadImage(cs).descriptor \in Descriptors \cup {None}
           /\ LoadImage(cs).change_descriptor \in Descriptors \cup {None}
           /\ LoadImage(cs).network \in Networks \cup {None}
<1>1. Whole(cs.tx_graph) \in Graphs
    BY WholeType DEF ChangeSets
<1> QED BY <1>1 DEF LoadImage, ChangeSets, Chains, LoadChain, LoadLocked

\* What load finds in the stored graph, whatever the order of the scan.
LEMMA ReindexedType ==
    ASSUME NEW cs \in ChangeSets, NEW order
    PROVE  /\ Reindexed(LoadImage(cs), order) \subseteq Outpoints
           /\ \A o \in Reindexed(LoadImage(cs), order) : ScriptOf(o) \in Scripts
           /\ RevealedBy(LoadImage(cs).revealed, Reindexed(LoadImage(cs), order))
                \in [Keychains -> RevealedIndex]
<1> DEFINE image == LoadImage(cs)
           outs == OutputsOf(image.graph.txs) \cup image.graph.txouts
<1>1. outs \subseteq Outpoints
    BY LoadImageType DEF OutputsOf, Graphs
<1>2. KeychainsOf(image.change_descriptor) \subseteq Keychains
    BY DEF KeychainsOf, Keychains
<1> HIDE DEF image, outs
<1>3. /\ Reindexed(image, order) \subseteq Outpoints
      /\ \A o \in Reindexed(image, order) : ScriptOf(o)[1] \in Keychains
    BY <1>1, <1>2, MatchedSubset DEF Reindexed, outs
<1>4. image.revealed \in [Keychains -> RevealedIndex]
    BY LoadImageType DEF image
<1> QED BY <1>3, <1>4, ScriptOfType, RevealedByBounds DEF image

\* load_with_params, with whatever checks the caller asks for, preserves the types.
LEMMA LoadTypes ==
    ASSUME TypeOK, NEW p \in LoadParams, Load(p)
    PROVE  TypeOK'
<1> DEFINE image == LoadImage(db)
<1>1. PICK order \in Orders(image.graph.txs) :
        /\ indexed' = Reindexed(image, order)
        /\ used' = {ScriptOf(o) : o \in Reindexed(image, order)}
        /\ revealed' = RevealedBy(image.revealed, Reindexed(image, order))
        /\ stage' = FromIndexer(RevealDiff(image.revealed, revealed'))
    BY DEF Load
<1>2. /\ indexed' \subseteq Outpoints
      /\ used' \subseteq Scripts
      /\ revealed' \in [Keychains -> RevealedIndex]
    BY <1>1, ReindexedType DEF TypeOK
<1>3. stage' \in ChangeSets
    BY <1>1, <1>2, FromIndexerType, RevealDiffType, LoadImageType DEF TypeOK
<1>4. /\ descriptor' = image.descriptor
      /\ change_descriptor' = image.change_descriptor
      /\ network' = image.network
      /\ chain' = image.chain
      /\ graph' = image.graph
      /\ locked_outpoints' = image.locked
      /\ canonical_view' = CanonicalView(image.chain, image.graph)
      /\ opened' = TRUE
      /\ UNCHANGED <<backend, db>>
    BY DEF Load
<1> HIDE DEF image
<1>5. /\ image.chain \in Chains
      /\ image.graph \in Graphs
      /\ image.locked \subseteq Outpoints
      /\ image.descriptor \in Descriptors \cup {None}
      /\ image.change_descriptor \in Descriptors \cup {None}
      /\ image.network \in Networks \cup {None}
    BY LoadImageType DEF TypeOK, image
<1> QED BY <1>2, <1>3, <1>4, <1>5, CanonicalViewType DEF TypeOK

\* The initial states, and the wallet that Close leaves, are typed.
LEMMA BlankTypes ==
    /\ NoChain \in Chains
    /\ EmptyGraph \in Graphs
    /\ [k \in Keychains |-> -1] \in [Keychains -> RevealedIndex]
    /\ <<>> = [t \in DOMAIN <<>> |-> <<>>[t]]
    /\ DOMAIN <<>> \subseteq Txs
    /\ EmptyChangeSet \in ChangeSets
BY EmptyGraphType, EmptyChangeSetType, BoundsAssumption DEF NoChain, Chains, RevealedIndex

\* Every step of the persisted wallet preserves the types.
LEMMA TypeStep ==
    ASSUME TypeOK, [Next]_vars
    PROVE  TypeOK'
<1>1. ASSUME NEW p \in CreateParams, Create(p) PROVE TypeOK'
    <2>1. db' \in ChangeSets
        BY <1>1, NewStageType, WriteType DEF Create, TypeOK
    <2>2. chain' \in Chains
        BY <1>1, BlankTypes, BlocksAssumption, BoundsAssumption DEF Create, Chains, Heights
    <2>3. p.descriptor \in Descriptors /\ p.change_descriptor \in Descriptors \cup {None}
            /\ p.network \in Networks
        BY ParamsAssumption
    <2> QED BY <1>1, <2>1, <2>2, <2>3, CanonicalViewType DEF Create, TypeOK, index
<1>2. ASSUME NEW p \in CreateParams, CreateFails(p) PROVE TypeOK'
    <2>1. db' \in ChangeSets
        BY <1>2, NewStageType, WriteType DEF CreateFails, TypeOK
    <2> QED BY <1>2, <2>1 DEF CreateFails, TypeOK, walletVars, identity, index
<1>3. ASSUME NEW p \in LoadParams, Load(p) PROVE TypeOK'
    BY <1>3, LoadTypes
<1>4. ASSUME Persist PROVE TypeOK'
    <2>1. db' \in ChangeSets
        BY <1>4, WriteType DEF Persist, TypeOK
    <2> QED BY <1>4, <2>1, EmptyChangeSetType DEF Persist, TypeOK, identity, index
<1>5. ASSUME PersistFails PROVE TypeOK'
    <2>1. db' \in ChangeSets
        BY <1>5, WriteType DEF PersistFails, TypeOK
    <2> QED BY <1>5, <2>1 DEF PersistFails, TypeOK, walletVars, identity, index
<1>6. ASSUME Close PROVE TypeOK'
    BY <1>6, BlankTypes DEF Close, TypeOK
<1>7. ASSUME WalletOp PROVE TypeOK'
    BY <1>7, UserOpType, ChainOpType DEF WalletOp
<1>8. ASSUME UNCHANGED vars PROVE TypeOK'
    BY <1>8 DEF vars, walletVars, identity, index, TypeOK
<1> QED BY <1>1, <1>2, <1>3, <1>4, <1>5, <1>6, <1>7, <1>8 DEF Next

\* Whatever is created, loaded, applied, written or lost, every field of the
\* wallet, its stage and the database keeps its type.
THEOREM TypeCorrect == Spec => []TypeOK
<1>1. Init => TypeOK
    BY BlankTypes DEF Init, TypeOK
<1>2. TypeOK /\ [Next]_vars => TypeOK'
    BY TypeStep
<1> QED BY <1>1, <1>2, PTL DEF Spec

-----------------------------------------------------------------------------
(***************************************************************************)
(* The proof that nothing the wallet learns is lost: at any moment the     *)
(* database and the stage together hold what is in memory.                 *)
(*                                                                         *)
(* StageCompletesDb is not inductive.  SQLite overwrites a time or a last  *)
(* revealed index where the file store keeps the larger one, so the two    *)
(* agree only because the stage is never behind the database; and a        *)
(* created wallet starts with what closing left in memory, which is        *)
(* nothing.  Durable adds both facts.                                      *)
(***************************************************************************)

\* What is written from cs does not go back behind the database.
Ahead(d, cs) ==
    /\ \A k \in Keychains : cs.indexer[k] = -1 \/ cs.indexer[k] >= d.indexer[k]
    /\ \A t \in Txs : /\ \/ cs.tx_graph.last_seen[t] = 0
                         \/ cs.tx_graph.last_seen[t] >= d.tx_graph.last_seen[t]
                      /\ \/ cs.tx_graph.last_evicted[t] = 0
                         \/ cs.tx_graph.last_evicted[t] >= d.tx_graph.last_evicted[t]

\* A wallet that is not open left nothing in memory.
Blank == ~opened => /\ graph = EmptyGraph
                    /\ revealed = [k \in Keychains |-> -1]
                    /\ indexed = {}
                    /\ locked_outpoints = {}
                    /\ stage = EmptyChangeSet

Durable == TypeOK /\ StageCompletesDb /\ Ahead(db, stage) /\ Blank

\* The image of a wallet once a changeset without descriptors is applied to it.
Patched(m, cs) ==
    [descriptor |-> m.descriptor,
     change_descriptor |-> m.change_descriptor,
     network |-> m.network,
     chain |-> [h \in Heights |-> IF cs.local_chain[h] = Unset THEN m.chain[h]
                                  ELSE cs.local_chain[h]],
     graph |-> ApplyGraph(m.graph, cs.tx_graph),
     revealed |-> MergeIndexer(m.revealed, cs.indexer),
     locked |-> {o \in Outpoints : \/ cs.locked_outpoints[o] = "locked"
                                   \/ cs.locked_outpoints[o] = "unset" /\ o \in m.locked}]

Anonymous(cs) == cs.descriptor = None /\ cs.change_descriptor = None /\ cs.network = None

-----------------------------------------------------------------------------
(***************************************************************************)
(* Writing and merging.                                                    *)
(***************************************************************************)

\* Graphs are equal when their five parts are.
LEMMA GraphExtensional ==
    ASSUME NEW g \in Graphs, NEW u \in Graphs,
           g.txs = u.txs, g.txouts = u.txouts, g.anchors = u.anchors,
           \A t \in Txs : g.last_seen[t] = u.last_seen[t],
           \A t \in Txs : g.last_evicted[t] = u.last_evicted[t]
    PROVE  g = u
BY DEF Graphs

\* The empty graph, field by field.
LEMMA EmptyGraphFields ==
    /\ EmptyGraph.txs = {} /\ EmptyGraph.txouts = {} /\ EmptyGraph.anchors = {}
    /\ \A t \in Txs : EmptyGraph.last_seen[t] = 0 /\ EmptyGraph.last_evicted[t] = 0
BY DEF EmptyGraph

\* Whole drops only outputs the transactions themselves hold.
LEMMA WholeFields ==
    ASSUME NEW g \in Graphs
    PROVE  /\ Whole(g).txs = g.txs
           /\ Whole(g).txouts = {o \in g.txouts : o[1] \notin g.txs}
           /\ Whole(g).anchors = g.anchors
           /\ Whole(g).last_seen = g.last_seen
           /\ Whole(g).last_evicted = g.last_evicted
BY DEF Whole, Graphs

\* The merge of two graphs, field by field.
LEMMA MergeGraphFields ==
    ASSUME NEW g \in Graphs, NEW u \in Graphs
    PROVE  /\ MergeGraph(g, u).txs = g.txs \cup u.txs
           /\ MergeGraph(g, u).txouts = g.txouts \cup u.txouts
           /\ MergeGraph(g, u).anchors = g.anchors \cup u.anchors
           /\ \A t \in Txs :
                /\ MergeGraph(g, u).last_seen[t] = MaxOf(g.last_seen[t], u.last_seen[t])
                /\ MergeGraph(g, u).last_evicted[t] = MaxOf(g.last_evicted[t], u.last_evicted[t])
BY DEF MergeGraph

\* Dropping the outputs of known transactions early or late makes no
\* difference.
LEMMA MergeWhole ==
    ASSUME NEW a \in Graphs, NEW b \in Graphs, NEW c \in Graphs
    PROVE  Whole(MergeGraph(a, MergeGraph(b, c))) = ApplyGraph(Whole(MergeGraph(a, b)), c)
<1> DEFINE ab == MergeGraph(a, b)
           bc == MergeGraph(b, c)
           l == MergeGraph(a, bc)
           r == MergeGraph(Whole(ab), c)
<1>1. ab \in Graphs /\ bc \in Graphs /\ Whole(ab) \in Graphs
    BY MergeGraphType, WholeType
<1>2. l \in Graphs /\ r \in Graphs
    BY <1>1, MergeGraphType
<1>3. ab.txs = a.txs \cup b.txs /\ ab.txouts = a.txouts \cup b.txouts
        /\ ab.anchors = a.anchors \cup b.anchors
    BY MergeGraphFields
<1>4. bc.txs = b.txs \cup c.txs /\ bc.txouts = b.txouts \cup c.txouts
        /\ bc.anchors = b.anchors \cup c.anchors
    BY MergeGraphFields
<1>5. l.txs = a.txs \cup bc.txs /\ l.txouts = a.txouts \cup bc.txouts
        /\ l.anchors = a.anchors \cup bc.anchors
    BY <1>1, MergeGraphFields
<1>6. /\ r.txs = ab.txs \cup c.txs
      /\ r.txouts = {o \in ab.txouts : o[1] \notin ab.txs} \cup c.txouts
      /\ r.anchors = ab.anchors \cup c.anchors
    BY <1>1, MergeGraphFields, WholeFields
<1>7. ASSUME NEW t \in Txs
      PROVE  l.last_seen[t] = r.last_seen[t] /\ l.last_evicted[t] = r.last_evicted[t]
    <2>1. /\ a.last_seen[t] \in Nat /\ b.last_seen[t] \in Nat /\ c.last_seen[t] \in Nat
          /\ a.last_evicted[t] \in Nat /\ b.last_evicted[t] \in Nat /\ c.last_evicted[t] \in Nat
        BY BoundsAssumption DEF Graphs, Times
    <2>2. /\ r.last_seen[t] = MaxOf(ab.last_seen[t], c.last_seen[t])
          /\ r.last_evicted[t] = MaxOf(ab.last_evicted[t], c.last_evicted[t])
        BY <1>1, MergeGraphFields, WholeFields
    <2>3. /\ ab.last_seen[t] = MaxOf(a.last_seen[t], b.last_seen[t])
          /\ ab.last_evicted[t] = MaxOf(a.last_evicted[t], b.last_evicted[t])
          /\ bc.last_seen[t] = MaxOf(b.last_seen[t], c.last_seen[t])
          /\ bc.last_evicted[t] = MaxOf(b.last_evicted[t], c.last_evicted[t])
        BY MergeGraphFields
    <2>4. /\ l.last_seen[t] = MaxOf(a.last_seen[t], bc.last_seen[t])
          /\ l.last_evicted[t] = MaxOf(a.last_evicted[t], bc.last_evicted[t])
        BY <1>1, MergeGraphFields
    <2> QED BY <2>1, <2>2, <2>3, <2>4 DEF MaxOf
<1> HIDE DEF ab, bc, l, r
<1>8. Whole(l).txs = Whole(r).txs /\ Whole(l).anchors = Whole(r).anchors
    BY <1>2, <1>3, <1>4, <1>5, <1>6, WholeFields
<1>9. Whole(l).txouts = Whole(r).txouts
    <2>1. \A o : o \in Whole(l).txouts <=> o \in l.txouts /\ o[1] \notin l.txs
        BY <1>2, WholeFields
    <2>2. \A o : o \in Whole(r).txouts <=> o \in r.txouts /\ o[1] \notin r.txs
        BY <1>2, WholeFields
    <2>3. \A o : o \in Whole(l).txouts <=> o \in Whole(r).txouts
        BY <2>1, <2>2, <1>3, <1>4, <1>5, <1>6
    <2> QED BY <2>3
<1>10. \A t \in Txs : /\ Whole(l).last_seen[t] = Whole(r).last_seen[t]
                      /\ Whole(l).last_evicted[t] = Whole(r).last_evicted[t]
    BY <1>2, <1>7, WholeFields
<1>11. Whole(l) \in Graphs /\ Whole(r) \in Graphs
    BY <1>2, WholeType
<1>12. Whole(l) = Whole(r)
    BY <1>8, <1>9, <1>10, <1>11, GraphExtensional
<1> QED BY <1>12 DEF ApplyGraph, l, r, ab, bc

\* The two persisters leave databases that load the same wallet.  They differ
\* only in how they say that a block or a lock is gone.
LEMMA PersistersAgree ==
    ASSUME NEW d \in ChangeSets, NEW cs \in ChangeSets, Ahead(d, cs)
    PROVE  /\ LoadImage(PersistToSqlite(d, cs)) = LoadImage(Merge(d, cs))
           /\ PersistToSqlite(d, cs).indexer = Merge(d, cs).indexer
           /\ PersistToSqlite(d, cs).tx_graph = Merge(d, cs).tx_graph
<1> DEFINE p == PersistToSqlite(d, cs)
           m == Merge(d, cs)
<1>1. p.descriptor = m.descriptor /\ p.change_descriptor = m.change_descriptor
        /\ p.network = m.network
    BY DEF PersistToSqlite, Merge
<1>2. LoadChain(p.local_chain) = LoadChain(m.local_chain)
    BY OptionAssumption DEF PersistToSqlite, Merge, LoadChain, MergeBlocks, Overwrite
<1>3. LoadLocked(p.locked_outpoints) = LoadLocked(m.locked_outpoints)
    BY DEF PersistToSqlite, Merge, LoadLocked, MergeLocks, ChangeSets, LockStates
<1>4. p.indexer = m.indexer
    BY BoundsAssumption
       DEF PersistToSqlite, Merge, MergeIndexer, Overwrite, MaxOf, Ahead, ChangeSets, RevealedIndex
<1>5. p.tx_graph = m.tx_graph
    <2>1. \A t \in Txs : /\ d.tx_graph.last_seen[t] \in Nat
                         /\ cs.tx_graph.last_seen[t] \in Nat
                         /\ d.tx_graph.last_evicted[t] \in Nat
                         /\ cs.tx_graph.last_evicted[t] \in Nat
        BY BoundsAssumption DEF ChangeSets, Graphs, Times
    <2>2. p.tx_graph \in Graphs /\ m.tx_graph \in Graphs
        BY PersistToSqliteType, MergeType DEF ChangeSets
    <2>3. /\ p.tx_graph.txs = m.tx_graph.txs
          /\ p.tx_graph.txouts = m.tx_graph.txouts
          /\ p.tx_graph.anchors = m.tx_graph.anchors
        BY DEF PersistToSqlite, Merge, MergeGraph
    <2>4. \A t \in Txs : p.tx_graph.last_seen[t] = m.tx_graph.last_seen[t]
        BY <2>1 DEF PersistToSqlite, Merge, MergeGraph, Overwrite, MaxOf, Ahead
    <2>5. \A t \in Txs : p.tx_graph.last_evicted[t] = m.tx_graph.last_evicted[t]
        BY <2>1 DEF PersistToSqlite, Merge, MergeGraph, Overwrite, MaxOf, Ahead
    <2> HIDE DEF p, m
    <2> QED BY <2>2, <2>3, <2>4, <2>5, GraphExtensional
<1> QED BY <1>1, <1>2, <1>3, <1>4, <1>5 DEF LoadImage

\* Both backends, the overwriting one too, load a write as if it had been merged.
LEMMA WriteLoads ==
    ASSUME TypeOK, NEW cs \in ChangeSets, Ahead(db, cs)
    PROVE  LoadImage(Write(cs)) = LoadImage(Merge(db, cs))
BY PersistersAgree DEF Write, PersistToFile, TypeOK

\* Merging changes one after the other is merging their merge.
LEMMA MergePatches ==
    ASSUME NEW d \in ChangeSets, NEW s \in ChangeSets, NEW cs \in ChangeSets, Anonymous(cs)
    PROVE  LoadImage(Merge(d, Merge(s, cs))) = Patched(LoadImage(Merge(d, s)), cs)
<1> DEFINE m == Merge(d, Merge(s, cs))
           i == LoadImage(Merge(d, s))
           q == Patched(i, cs)
<1>1. m.descriptor = q.descriptor /\ m.change_descriptor = q.change_descriptor
        /\ m.network = q.network
    BY DEF Merge, MergeOption, Anonymous, Patched, LoadImage
<1>2. LoadChain(m.local_chain) = q.chain
    BY OptionAssumption DEF Merge, LoadChain, MergeBlocks, Patched, LoadImage
<1>3. LoadLocked(m.locked_outpoints) = q.locked
    BY DEF Merge, LoadLocked, MergeLocks, Patched, LoadImage, ChangeSets, LockStates
<1>4. m.indexer = q.revealed
    <2>1. /\ d.indexer \in [Keychains -> Int]
          /\ s.indexer \in [Keychains -> Int]
          /\ cs.indexer \in [Keychains -> Int]
        BY BoundsAssumption DEF ChangeSets, RevealedIndex
    <2>2. m.indexer = MergeIndexer(d.indexer, MergeIndexer(s.indexer, cs.indexer))
        BY DEF Merge
    <2>3. q.revealed = MergeIndexer(MergeIndexer(d.indexer, s.indexer), cs.indexer)
        BY DEF Merge, Patched, LoadImage
    <2> QED BY <2>1, <2>2, <2>3 DEF MergeIndexer, MaxOf
<1>5. Whole(m.tx_graph) = q.graph
    <2>1. q.graph = ApplyGraph(Whole(MergeGraph(d.tx_graph, s.tx_graph)), cs.tx_graph)
        BY DEF Patched, LoadImage, Merge
    <2>2. m.tx_graph = MergeGraph(d.tx_graph, MergeGraph(s.tx_graph, cs.tx_graph))
        BY DEF Merge
    <2>3. d.tx_graph \in Graphs /\ s.tx_graph \in Graphs /\ cs.tx_graph \in Graphs
        BY DEF ChangeSets
    <2> QED BY <2>1, <2>2, <2>3, MergeWhole
<1> QED BY <1>1, <1>2, <1>3, <1>4, <1>5 DEF LoadImage, Patched

-----------------------------------------------------------------------------
(***************************************************************************)
(* A method that stages exactly the difference it makes to memory keeps    *)
(* database and stage complete.                                            *)
(***************************************************************************)

\* What cs stages is not behind what is in memory.
AheadOfMemory(cs) ==
    /\ \A k \in Keychains : cs.indexer[k] = -1 \/ cs.indexer[k] >= revealed[k]
    /\ \A t \in Txs : /\ \/ cs.tx_graph.last_seen[t] = 0
                         \/ cs.tx_graph.last_seen[t] >= graph.last_seen[t]
                      /\ \/ cs.tx_graph.last_evicted[t] = 0
                         \/ cs.tx_graph.last_evicted[t] >= graph.last_evicted[t]

\* Memory is what the merge of database and stage loads.
LEMMA MemoryIsMerge ==
    ASSUME Durable, opened
    PROVE  /\ MemoryImage = LoadImage(Merge(db, stage))
           /\ revealed = MergeIndexer(db.indexer, stage.indexer)
           /\ graph = Whole(MergeGraph(db.tx_graph, stage.tx_graph))
<1>1. MemoryImage = LoadImage(Merge(db, stage))
    BY WriteLoads DEF Durable, StageCompletesDb, TypeOK
<1>2. MemoryImage.revealed = revealed /\ MemoryImage.graph = graph
    BY DEF MemoryImage
<1>3. /\ LoadImage(Merge(db, stage)).revealed = MergeIndexer(db.indexer, stage.indexer)
      /\ LoadImage(Merge(db, stage)).graph = Whole(MergeGraph(db.tx_graph, stage.tx_graph))
    BY DEF LoadImage, Merge
<1> QED BY <1>1, <1>2, <1>3

\* A change computed against memory keeps the stage ahead of the database.
LEMMA AheadKept ==
    ASSUME Durable, opened, NEW cs \in ChangeSets, AheadOfMemory(cs)
    PROVE  Ahead(db, Merge(stage, cs))
<1> DEFINE m == Merge(stage, cs)
<1>1. ASSUME NEW k \in Keychains
      PROVE  m.indexer[k] = -1 \/ m.indexer[k] >= db.indexer[k]
    <2>1. db.indexer[k] \in -1..MaxIndex /\ stage.indexer[k] \in -1..MaxIndex
            /\ cs.indexer[k] \in -1..MaxIndex
        BY DEF Durable, TypeOK, ChangeSets, RevealedIndex
    <2>2. revealed[k] = MaxOf(db.indexer[k], stage.indexer[k])
        <3>1. revealed = MergeIndexer(db.indexer, stage.indexer)
            BY MemoryIsMerge
        <3> QED BY <3>1 DEF MergeIndexer
    <2>3. m.indexer[k] = MaxOf(stage.indexer[k], cs.indexer[k])
        BY DEF Merge, MergeIndexer
    <2>4. stage.indexer[k] = -1 \/ stage.indexer[k] >= db.indexer[k]
        BY DEF Durable, Ahead
    <2>5. cs.indexer[k] = -1 \/ cs.indexer[k] >= revealed[k]
        BY DEF AheadOfMemory
    <2> QED BY <2>1, <2>2, <2>3, <2>4, <2>5, BoundsAssumption DEF MaxOf
<1>2. ASSUME NEW t \in Txs
      PROVE  /\ m.tx_graph.last_seen[t] = 0 \/ m.tx_graph.last_seen[t] >= db.tx_graph.last_seen[t]
             /\ m.tx_graph.last_evicted[t] = 0
                \/ m.tx_graph.last_evicted[t] >= db.tx_graph.last_evicted[t]
    <2>1. db.tx_graph \in Graphs /\ stage.tx_graph \in Graphs /\ cs.tx_graph \in Graphs
        BY DEF Durable, TypeOK, ChangeSets
    <2>2. /\ db.tx_graph.last_seen[t] \in Nat /\ stage.tx_graph.last_seen[t] \in Nat
          /\ cs.tx_graph.last_seen[t] \in Nat
          /\ db.tx_graph.last_evicted[t] \in Nat /\ stage.tx_graph.last_evicted[t] \in Nat
          /\ cs.tx_graph.last_evicted[t] \in Nat
        BY <2>1, BoundsAssumption DEF Graphs, Times
    <2>3. /\ graph.last_seen[t] = MaxOf(db.tx_graph.last_seen[t], stage.tx_graph.last_seen[t])
          /\ graph.last_evicted[t] = MaxOf(db.tx_graph.last_evicted[t], stage.tx_graph.last_evicted[t])
        <3> DEFINE both == MergeGraph(db.tx_graph, stage.tx_graph)
        <3>1. graph = Whole(both)
            BY MemoryIsMerge
        <3>2. both \in Graphs
            BY <2>1, MergeGraphType
        <3>3. graph.last_seen = both.last_seen /\ graph.last_evicted = both.last_evicted
            BY <3>1, <3>2, WholeFields
        <3> QED BY <2>1, <3>3, MergeGraphFields
    <2>4. m.tx_graph = MergeGraph(stage.tx_graph, cs.tx_graph)
        BY DEF Merge
    <2>5. /\ m.tx_graph.last_seen[t] = MaxOf(stage.tx_graph.last_seen[t], cs.tx_graph.last_seen[t])
          /\ m.tx_graph.last_evicted[t] = MaxOf(stage.tx_graph.last_evicted[t], cs.tx_graph.last_evicted[t])
        BY <2>1, <2>4, MergeGraphFields
    <2>6. /\ stage.tx_graph.last_seen[t] = 0 \/ stage.tx_graph.last_seen[t] >= db.tx_graph.last_seen[t]
          /\ stage.tx_graph.last_evicted[t] = 0
             \/ stage.tx_graph.last_evicted[t] >= db.tx_graph.last_evicted[t]
        BY DEF Durable, Ahead
    <2>7. /\ cs.tx_graph.last_seen[t] = 0 \/ cs.tx_graph.last_seen[t] >= graph.last_seen[t]
          /\ cs.tx_graph.last_evicted[t] = 0 \/ cs.tx_graph.last_evicted[t] >= graph.last_evicted[t]
        BY DEF AheadOfMemory
    <2> HIDE DEF m
    <2> QED BY <2>2, <2>3, <2>5, <2>6, <2>7 DEF MaxOf
<1> HIDE DEF m
<1>3. Ahead(db, m)
    BY <1>1, <1>2 DEF Ahead
<1> QED BY <1>3 DEF m

\* The step lemma.
LEMMA StagingKeeps ==
    ASSUME Durable, opened, TypeOK', NEW cs \in ChangeSets, Anonymous(cs), AheadOfMemory(cs),
           StageChange(cs), UNCHANGED <<backend, opened, db>>,
           MemoryImage' = Patched(MemoryImage, cs)
    PROVE  Durable'
<1>1. stage' = Merge(stage, cs)
    BY DEF StageChange
<1>2. Ahead(db, Merge(stage, cs))
    BY AheadKept
<1>3. Merge(stage, cs) \in ChangeSets
    BY MergeType DEF Durable, TypeOK
<1>4. LoadImage(Write(Merge(stage, cs))) = LoadImage(Merge(db, Merge(stage, cs)))
    BY <1>2, <1>3, WriteLoads DEF Durable
<1>5. LoadImage(Merge(db, Merge(stage, cs))) = Patched(LoadImage(Merge(db, stage)), cs)
    BY MergePatches DEF Durable, TypeOK
<1>6. LoadImage(Write(Merge(stage, cs))) = MemoryImage'
    BY <1>4, <1>5, MemoryIsMerge
<1>7. Write(stage)' = Write(Merge(stage, cs))
    BY <1>1 DEF Write
<1>8. StageCompletesDb'
    BY <1>6, <1>7 DEF StageCompletesDb
<1>9. Ahead(db, stage)' /\ Blank'
    BY <1>1, <1>2 DEF Blank, Ahead
<1> QED BY <1>8, <1>9 DEF Durable

-----------------------------------------------------------------------------
(***************************************************************************)
(* Differences: applying one gives what it is the difference to.           *)
(***************************************************************************)

\* A chain changeset, merged, reproduces the chain it was computed for.
LEMMA ChainDiffApplies ==
    ASSUME NEW c \in Chains, NEW d \in Chains
    PROVE  d = [h \in Heights |-> IF ChainDiff(c, d)[h] = Unset THEN c[h] ELSE ChainDiff(c, d)[h]]
BY OptionAssumption DEF ChainDiff, Chains

\* An indexer changeset, merged, reproduces the revelation it was computed for.
LEMMA RevealDiffApplies ==
    ASSUME NEW r \in [Keychains -> RevealedIndex], NEW s \in [Keychains -> RevealedIndex],
           \A k \in Keychains : s[k] >= r[k]
    PROVE  /\ MergeIndexer(r, RevealDiff(r, s)) = s
           /\ \A k \in Keychains : RevealDiff(r, s)[k] = -1 \/ RevealDiff(r, s)[k] >= r[k]
BY BoundsAssumption DEF MergeIndexer, RevealDiff, MaxOf, RevealedIndex

\* Two differences in a row, staged together, are one.
LEMMA RevealDiffsCompose ==
    ASSUME NEW r \in [Keychains -> RevealedIndex], NEW s \in [Keychains -> RevealedIndex],
           NEW q \in [Keychains -> RevealedIndex],
           \A k \in Keychains : s[k] >= r[k] /\ q[k] >= s[k]
    PROVE  MergeIndexer(RevealDiff(r, s), RevealDiff(s, q)) = RevealDiff(r, q)
BY BoundsAssumption DEF MergeIndexer, RevealDiff, MaxOf, RevealedIndex

\* The graph changeset, field by field.
LEMMA GraphDiffFields ==
    ASSUME NEW g \in Graphs, NEW u \in Graphs
    PROVE  /\ GraphDiff(g, u).txs = u.txs \ g.txs
           /\ GraphDiff(g, u).txouts = {o \in u.txouts \ g.txouts : o[1] \notin g.txs \cup u.txs}
           /\ GraphDiff(g, u).anchors = u.anchors \ g.anchors
           /\ \A t \in Txs :
                /\ GraphDiff(g, u).last_seen[t]
                     = IF u.last_seen[t] > g.last_seen[t] THEN u.last_seen[t] ELSE 0
                /\ GraphDiff(g, u).last_evicted[t]
                     = IF u.last_evicted[t] > g.last_evicted[t] THEN u.last_evicted[t] ELSE 0
BY DEF GraphDiff

\* A graph changeset, applied, does what the update it was computed for does.
LEMMA GraphDiffApplies ==
    ASSUME NEW g \in Graphs, NEW u \in Graphs
    PROVE  ApplyGraph(g, GraphDiff(g, u)) = ApplyGraph(g, u)
<1> DEFINE d == GraphDiff(g, u)
           l == MergeGraph(g, d)
           r == MergeGraph(g, u)
<1>1. d \in Graphs /\ l \in Graphs /\ r \in Graphs
    BY GraphDiffType, MergeGraphType
<1>2. /\ l.txs = g.txs \cup (u.txs \ g.txs)
      /\ l.txouts = g.txouts \cup {o \in u.txouts \ g.txouts : o[1] \notin g.txs \cup u.txs}
      /\ l.anchors = g.anchors \cup (u.anchors \ g.anchors)
    BY <1>1, GraphDiffFields, MergeGraphFields
<1>3. r.txs = g.txs \cup u.txs /\ r.txouts = g.txouts \cup u.txouts /\ r.anchors = g.anchors \cup u.anchors
    BY MergeGraphFields
<1>4. ASSUME NEW t \in Txs
      PROVE  l.last_seen[t] = r.last_seen[t] /\ l.last_evicted[t] = r.last_evicted[t]
    <2>1. /\ g.last_seen[t] \in Nat /\ u.last_seen[t] \in Nat
          /\ g.last_evicted[t] \in Nat /\ u.last_evicted[t] \in Nat
        BY BoundsAssumption DEF Graphs, Times
    <2>2. /\ l.last_seen[t] = MaxOf(g.last_seen[t], d.last_seen[t])
          /\ l.last_evicted[t] = MaxOf(g.last_evicted[t], d.last_evicted[t])
        BY <1>1, MergeGraphFields
    <2>3. /\ r.last_seen[t] = MaxOf(g.last_seen[t], u.last_seen[t])
          /\ r.last_evicted[t] = MaxOf(g.last_evicted[t], u.last_evicted[t])
        BY MergeGraphFields
    <2>4. /\ d.last_seen[t] = IF u.last_seen[t] > g.last_seen[t] THEN u.last_seen[t] ELSE 0
          /\ d.last_evicted[t] = IF u.last_evicted[t] > g.last_evicted[t] THEN u.last_evicted[t] ELSE 0
        BY GraphDiffFields
    <2> QED BY <2>1, <2>2, <2>3, <2>4 DEF MaxOf
<1> HIDE DEF d, l, r
<1>5. Whole(l).txs = Whole(r).txs /\ Whole(l).anchors = Whole(r).anchors
    BY <1>1, <1>2, <1>3, WholeFields
<1>6. Whole(l).txouts = Whole(r).txouts
    <2>1. \A o : o \in Whole(l).txouts <=> o \in l.txouts /\ o[1] \notin l.txs
        BY <1>1, WholeFields
    <2>2. \A o : o \in Whole(r).txouts <=> o \in r.txouts /\ o[1] \notin r.txs
        BY <1>1, WholeFields
    <2>3. \A o : o \in Whole(l).txouts <=> o \in Whole(r).txouts
        BY <2>1, <2>2, <1>2, <1>3
    <2> QED BY <2>3
<1>7. \A t \in Txs : /\ Whole(l).last_seen[t] = Whole(r).last_seen[t]
                     /\ Whole(l).last_evicted[t] = Whole(r).last_evicted[t]
    BY <1>1, <1>4, WholeFields
<1>8. Whole(l) = Whole(r)
    BY <1>1, <1>5, <1>6, <1>7, WholeType, GraphExtensional
<1> QED BY <1>8 DEF ApplyGraph, d, l, r

\* The graph in memory has no output of a transaction it holds, so nothing
\* changes when nothing is added.
LEMMA NothingAdded ==
    ASSUME NEW x \in Graphs, NEW g, g = Whole(x)
    PROVE  ApplyGraph(g, EmptyGraph) = g
<1> DEFINE r == MergeGraph(g, EmptyGraph)
<1>1. g \in Graphs /\ EmptyGraph \in Graphs
    BY WholeType, EmptyGraphType
<1>2. r \in Graphs
    BY <1>1, MergeGraphType
<1>3. r.txs = g.txs /\ r.txouts = g.txouts /\ r.anchors = g.anchors
    <2>1. /\ r.txs = g.txs \cup EmptyGraph.txs
          /\ r.txouts = g.txouts \cup EmptyGraph.txouts
          /\ r.anchors = g.anchors \cup EmptyGraph.anchors
        BY <1>1, MergeGraphFields
    <2> HIDE DEF r
    <2> QED BY <2>1, EmptyGraphFields
<1>4. ASSUME NEW t \in Txs
      PROVE  r.last_seen[t] = g.last_seen[t] /\ r.last_evicted[t] = g.last_evicted[t]
    <2>1. g.last_seen[t] \in Nat /\ g.last_evicted[t] \in Nat
        BY <1>1, BoundsAssumption DEF Graphs, Times
    <2>2. EmptyGraph.last_seen[t] = 0 /\ EmptyGraph.last_evicted[t] = 0
        BY EmptyGraphFields
    <2> QED BY <1>1, <2>1, <2>2, MergeGraphFields DEF MaxOf
<1>5. \A o \in g.txouts : o[1] \notin g.txs
    BY WholeFields
<1> HIDE DEF r
<1>6. Whole(r).txouts = g.txouts
    BY <1>2, <1>3, <1>5, WholeFields
<1>7. Whole(r).txs = g.txs /\ Whole(r).anchors = g.anchors
    BY <1>2, <1>3, WholeFields
<1>8. \A t \in Txs : /\ Whole(r).last_seen[t] = g.last_seen[t]
                     /\ Whole(r).last_evicted[t] = g.last_evicted[t]
    BY <1>2, <1>4, WholeFields
<1>9. Whole(r) \in Graphs
    BY <1>2, WholeType
<1>10. Whole(r) = g
    BY <1>1, <1>6, <1>7, <1>8, <1>9, GraphExtensional
<1> QED BY <1>10 DEF ApplyGraph, r

-----------------------------------------------------------------------------
(***************************************************************************)
(* The methods of the wallet.                                              *)
(***************************************************************************)

NoLocks == [o \in Outpoints |-> "unset"]

\* The graph in memory holds no floating output of a transaction it has.
LEMMA GraphIsWhole ==
    ASSUME Durable, opened
    PROVE  ApplyGraph(graph, EmptyGraph) = graph
<1>1. MergeGraph(db.tx_graph, stage.tx_graph) \in Graphs
    BY MergeGraphType DEF Durable, TypeOK, ChangeSets
<1> QED BY <1>1, MemoryIsMerge, NothingAdded

\* A step that stages the differences of chain, graph and revealed indices.
LEMMA DifferenceKeeps ==
    ASSUME Durable, opened, TypeOK', NEW cs \in ChangeSets, NEW u \in Graphs, Anonymous(cs),
           cs.local_chain = ChainDiff(chain, chain'),
           cs.tx_graph = GraphDiff(graph, u),
           cs.indexer = RevealDiff(revealed, revealed'),
           cs.locked_outpoints = NoLocks,
           graph' = ApplyGraph(graph, u),
           \A k \in Keychains : revealed'[k] >= revealed[k],
           StageChange(cs), UNCHANGED <<identity, locked_outpoints, backend, opened, db>>
    PROVE  Durable'
<1>1. AheadOfMemory(cs)
    <2>1. \A k \in Keychains : cs.indexer[k] = -1 \/ cs.indexer[k] >= revealed[k]
        BY RevealDiffApplies DEF Durable, TypeOK
    <2>2. ASSUME NEW t \in Txs
          PROVE  /\ cs.tx_graph.last_seen[t] = 0 \/ cs.tx_graph.last_seen[t] >= graph.last_seen[t]
                 /\ cs.tx_graph.last_evicted[t] = 0
                    \/ cs.tx_graph.last_evicted[t] >= graph.last_evicted[t]
        <3>1. graph \in Graphs
            BY DEF Durable, TypeOK
        <3>2. /\ graph.last_seen[t] \in Nat /\ u.last_seen[t] \in Nat
              /\ graph.last_evicted[t] \in Nat /\ u.last_evicted[t] \in Nat
            BY <3>1, BoundsAssumption DEF Graphs, Times
        <3> QED BY <3>1, <3>2, GraphDiffFields
    <2> QED BY <2>1, <2>2 DEF AheadOfMemory
<1>2. chain' = [h \in Heights |-> IF cs.local_chain[h] = Unset THEN chain[h] ELSE cs.local_chain[h]]
    BY ChainDiffApplies DEF Durable, TypeOK
<1>3. graph' = ApplyGraph(graph, cs.tx_graph)
    BY GraphDiffApplies DEF Durable, TypeOK
<1>4. revealed' = MergeIndexer(revealed, cs.indexer)
    BY RevealDiffApplies DEF Durable, TypeOK
<1>5. locked_outpoints' = {o \in Outpoints : \/ cs.locked_outpoints[o] = "locked"
                                             \/ cs.locked_outpoints[o] = "unset" /\ o \in locked_outpoints}
    BY DEF NoLocks, Durable, TypeOK
<1>6. MemoryImage' = Patched(MemoryImage, cs)
    BY <1>2, <1>3, <1>4, <1>5 DEF MemoryImage, Patched, identity
<1> QED BY <1>1, <1>6, StagingKeeps

\* What the From impls and their merges hold.
LEMMA FromFields ==
    ASSUME NEW c, NEW g \in Graphs, NEW r
    PROVE  /\ Anonymous(FromChain(c))
           /\ FromChain(c).local_chain = c
           /\ FromChain(c).tx_graph = EmptyGraph
           /\ FromChain(c).indexer = [k \in Keychains |-> -1]
           /\ FromChain(c).locked_outpoints = NoLocks
           /\ Anonymous(FromIndexer(r))
           /\ FromIndexer(r).local_chain = [h \in Heights |-> Unset]
           /\ FromIndexer(r).tx_graph = EmptyGraph
           /\ FromIndexer(r).indexer = r
           /\ FromIndexer(r).locked_outpoints = NoLocks
           /\ Anonymous(FromGraph(g, r))
           /\ FromGraph(g, r).local_chain = [h \in Heights |-> Unset]
           /\ FromGraph(g, r).tx_graph = g
           /\ FromGraph(g, r).indexer = r
           /\ FromGraph(g, r).locked_outpoints = NoLocks
BY DEF FromChain, FromIndexer, FromGraph, EmptyChangeSet, Anonymous, NoLocks

\* Merging an empty graph changes nothing.
LEMMA MergeEmptyGraph ==
    ASSUME NEW g \in Graphs
    PROVE  MergeGraph(EmptyGraph, g) = g
<1> DEFINE r == MergeGraph(EmptyGraph, g)
<1>1. r \in Graphs
    BY EmptyGraphType, MergeGraphType
<1>2. r.txs = g.txs /\ r.txouts = g.txouts /\ r.anchors = g.anchors
    <2>1. /\ r.txs = EmptyGraph.txs \cup g.txs
          /\ r.txouts = EmptyGraph.txouts \cup g.txouts
          /\ r.anchors = EmptyGraph.anchors \cup g.anchors
        BY EmptyGraphType, MergeGraphFields
    <2> HIDE DEF r
    <2> QED BY <2>1, EmptyGraphFields
<1>3. ASSUME NEW t \in Txs
      PROVE  r.last_seen[t] = g.last_seen[t] /\ r.last_evicted[t] = g.last_evicted[t]
    <2>1. g.last_seen[t] \in Nat /\ g.last_evicted[t] \in Nat
        BY BoundsAssumption DEF Graphs, Times
    <2>2. EmptyGraph.last_seen[t] = 0 /\ EmptyGraph.last_evicted[t] = 0
        BY EmptyGraphFields
    <2> QED BY <2>1, <2>2, EmptyGraphType, MergeGraphFields DEF MaxOf
<1> HIDE DEF r
<1>4. r = g
    BY <1>1, <1>2, <1>3, GraphExtensional
<1> QED BY <1>4 DEF r

\* What apply_update and apply_block stage: a chain difference, merged with
\* differences of the index and of the graph.
LEMMA ChainAndGraphStaged ==
    ASSUME NEW c \in [Heights -> Hashes \cup {NoHash, Unset}],
           NEW g \in Graphs, NEW r \in [Keychains -> RevealedIndex],
           NEW b, Anonymous(b), b.local_chain = [h \in Heights |-> Unset], b.tx_graph = g,
           b.indexer = r, b.locked_outpoints = NoLocks
    PROVE  LET cs == Merge(FromChain(c), b)
           IN  /\ Anonymous(cs)
               /\ cs.local_chain = c
               /\ cs.tx_graph = g
               /\ cs.indexer = r
               /\ cs.locked_outpoints = NoLocks
<1> DEFINE a == FromChain(c)
           cs == Merge(a, b)
<1>1. /\ cs.descriptor = MergeOption(a.descriptor, b.descriptor)
      /\ cs.change_descriptor = MergeOption(a.change_descriptor, b.change_descriptor)
      /\ cs.network = MergeOption(a.network, b.network)
      /\ cs.local_chain = MergeBlocks(a.local_chain, b.local_chain)
      /\ cs.tx_graph = MergeGraph(a.tx_graph, b.tx_graph)
      /\ cs.indexer = MergeIndexer(a.indexer, b.indexer)
      /\ cs.locked_outpoints = MergeLocks(a.locked_outpoints, b.locked_outpoints)
    BY DEF Merge
<1> HIDE DEF cs
<1>2. Anonymous(cs)
    BY <1>1, FromFields DEF Anonymous, MergeOption
<1>3. cs.local_chain = c
    BY <1>1, FromFields DEF MergeBlocks
<1>4. cs.tx_graph = g
    BY <1>1, FromFields, MergeEmptyGraph
<1>5. cs.indexer = r
    <2>1. cs.indexer = MergeIndexer([k \in Keychains |-> -1], r)
        BY <1>1, FromFields
    <2> QED BY <2>1, BoundsAssumption DEF MergeIndexer, MaxOf, RevealedIndex
<1>6. cs.locked_outpoints = NoLocks
    BY <1>1, FromFields DEF MergeLocks, NoLocks
<1> QED BY <1>2, <1>3, <1>4, <1>5, <1>6 DEF cs

\* apply_update: the indices are staged in two parts.
LEMMA apply_update_keeps ==
    ASSUME Durable, opened, TypeOK', NEW u \in UpdateRecords, apply_update(u),
           UNCHANGED <<backend, opened, db>>
    PROVE  Durable'
<1> DEFINE revealed1 == RevealMulti(u.last_active_indices)
           diff == GraphDiff(graph, u.tx_update)
           outs == OutputsOf(diff.txs) \cup diff.txouts
<1>1. PICK order \in Orders(diff.txs) :
        LET ops == Matched(revealed1, Active, outs, ScanOrder(diff.txs, order))
            revealed2 == RevealedBy(revealed1, ops)
        IN  /\ chain' = UpdatedChain(u)
            /\ graph' = ApplyGraph(graph, u.tx_update)
            /\ revealed' = revealed2
            /\ StageChange(Merge(Merge(FromChain(ChainDiff(chain, UpdatedChain(u))),
                                       FromIndexer(RevealDiff(revealed, revealed1))),
                                 FromGraph(diff, RevealDiff(revealed1, revealed2))))
    BY DEF apply_update
<1> DEFINE ops == Matched(revealed1, Active, outs, ScanOrder(diff.txs, order))
           c == ChainDiff(chain, chain')
           r1 == RevealDiff(revealed, revealed1)
           r2 == RevealDiff(revealed1, revealed')
           cs == Merge(Merge(FromChain(c), FromIndexer(r1)), FromGraph(diff, r2))
<1>2. /\ chain' = UpdatedChain(u)
      /\ graph' = ApplyGraph(graph, u.tx_update)
      /\ revealed' = RevealedBy(revealed1, ops)
      /\ StageChange(cs)
      /\ UNCHANGED <<identity, locked_outpoints>>
    BY <1>1 DEF apply_update
<1>3. /\ graph \in Graphs /\ u.tx_update \in Graphs /\ diff \in Graphs
      /\ revealed \in [Keychains -> RevealedIndex]
      /\ revealed1 \in [Keychains -> RevealedIndex]
      /\ revealed' \in [Keychains -> RevealedIndex]
      /\ \A k \in Keychains : revealed1[k] >= revealed[k]
    BY UpdateFields, GraphDiffType, RevealMultiType DEF Durable, TypeOK
<1>4. \A k \in Keychains : revealed'[k] >= revealed1[k]
    <2>1. ops \subseteq Outpoints
        <3>1. outs \subseteq Outpoints
            BY <1>3 DEF OutputsOf, Graphs
        <3> QED BY <3>1, MatchedSubset
    <2> HIDE DEF ops, revealed1
    <2> QED BY <1>2, <1>3, <2>1, RevealedByBounds
<1> HIDE DEF ops, revealed1, diff, outs
<1>5. r1 \in [Keychains -> RevealedIndex] /\ r2 \in [Keychains -> RevealedIndex]
    BY <1>3, RevealDiffType
<1>6. c \in [Heights -> Hashes \cup {NoHash, Unset}]
    BY DEF ChainDiff, Durable, TypeOK, Chains
<1>7. /\ Anonymous(cs)
      /\ cs.local_chain = c
      /\ cs.tx_graph = diff
      /\ cs.indexer = MergeIndexer(r1, r2)
      /\ cs.locked_outpoints = NoLocks
    <2> DEFINE a == Merge(FromChain(c), FromIndexer(r1))
               b == FromGraph(diff, r2)
    <2>1. /\ Anonymous(a) /\ a.local_chain = c /\ a.tx_graph = EmptyGraph
          /\ a.indexer = r1 /\ a.locked_outpoints = NoLocks
        <3> HIDE DEF c, r1
        <3> QED BY <1>5, <1>6, EmptyGraphType, FromFields, ChainAndGraphStaged
    <2>2. /\ Anonymous(b) /\ b.local_chain = [h \in Heights |-> Unset] /\ b.tx_graph = diff
          /\ b.indexer = r2 /\ b.locked_outpoints = NoLocks
        BY <1>3, FromFields
    <2> HIDE DEF a, b, c, r1, r2
    <2>3. /\ Anonymous(Merge(a, b))
          /\ Merge(a, b).local_chain = c
          /\ Merge(a, b).tx_graph = MergeGraph(EmptyGraph, diff)
          /\ Merge(a, b).indexer = MergeIndexer(r1, r2)
          /\ Merge(a, b).locked_outpoints = NoLocks
        BY <1>6, <2>1, <2>2 DEF Merge, Anonymous, MergeOption, MergeBlocks, MergeLocks, NoLocks
    <2> QED BY <1>3, <2>3, MergeEmptyGraph DEF a, b
<1>8. cs.indexer = RevealDiff(revealed, revealed')
    BY <1>3, <1>4, <1>7, RevealDiffsCompose
<1>9. cs \in ChangeSets
    BY <1>3, <1>5, FromChainType, FromIndexerType, FromGraphType, MergeType DEF Durable, TypeOK
<1>10. \A k \in Keychains : revealed'[k] >= revealed[k]
    BY <1>3, <1>4, BoundsAssumption DEF RevealedIndex
<1> HIDE DEF cs
<1> QED BY <1>2, <1>3, <1>7, <1>8, <1>9, <1>10, DifferenceKeeps DEF diff, c

\* apply_block_connected_to stages everything it changes.
LEMMA apply_block_keeps ==
    ASSUME Durable, opened, TypeOK', NEW b \in Hashes, NEW connected_to \in Hashes,
           apply_block_connected_to(b, connected_to), UNCHANGED <<backend, opened, db>>
    PROVE  Durable'
<1> DEFINE upd == FromBlocks({connected_to, b} \cup ({Parent[b]} \ {NoHash}))
           pos == BlockTxs[b]
           txs == DOMAIN pos
           ops == Matched(revealed, Active, OutputsOf(txs), pos)
           upto(t) == {o \in ops : pos[o[1]] <= pos[t]}
           relevant == {t \in txs : IsRelevant(RevealedBy(revealed, upto(t)), Active,
                                               indexed \cup upto(t), t)}
           found == [EmptyGraph EXCEPT !.txs = relevant, !.anchors = {b} \X relevant]
           c == ChainDiff(chain, chain')
           r == RevealDiff(revealed, revealed')
           cs == Merge(FromChain(c), FromGraph(GraphDiff(graph, found), r))
<1>1. ops \subseteq Outpoints
    BY MatchedSubset DEF OutputsOf
<1>2. found \in Graphs
    <2>1. relevant \subseteq Txs
        BY InputsAssumption
    <2>2. {b} \X relevant \subseteq Anchors
        BY <2>1 DEF Anchors
    <2> HIDE DEF relevant
    <2> QED BY <2>1, <2>2, EmptyGraphType DEF Graphs
<1>3. /\ graph' = ApplyGraph(graph, found)
      /\ revealed' = RevealedBy(revealed, ops)
      /\ StageChange(cs)
      /\ UNCHANGED <<identity, locked_outpoints>>
    BY DEF apply_block_connected_to
<1> HIDE DEF upd, ops, found
<1>4. \A k \in Keychains : revealed'[k] >= revealed[k]
    BY <1>1, <1>3, RevealedByBounds DEF Durable, TypeOK
<1>5. /\ c \in [Heights -> Hashes \cup {NoHash, Unset}]
      /\ GraphDiff(graph, found) \in Graphs
      /\ r \in [Keychains -> RevealedIndex]
    BY <1>2, GraphDiffType, RevealDiffType DEF ChainDiff, Durable, TypeOK, Chains
<1>6. cs \in ChangeSets
    BY <1>5, FromChainType, FromGraphType, MergeType DEF Durable, TypeOK
<1>7. /\ Anonymous(cs) /\ cs.local_chain = c /\ cs.tx_graph = GraphDiff(graph, found)
      /\ cs.indexer = r /\ cs.locked_outpoints = NoLocks
    BY <1>5, FromFields, ChainAndGraphStaged
<1> HIDE DEF cs
<1> QED BY <1>2, <1>3, <1>4, <1>6, <1>7, DifferenceKeeps

\* apply_unconfirmed_txs stages everything it changes.
LEMMA apply_unconfirmed_keeps ==
    ASSUME Durable, opened, TypeOK', NEW batch \in Batches, apply_unconfirmed_txs(batch),
           UNCHANGED <<backend, opened, db>>
    PROVE  Durable'
<1> DEFINE txs == {t \in Txs : batch[t] > 0}
           ops(order) == Matched(revealed, Active, OutputsOf(txs), order)
           relevant(order) == {t \in txs : IsRelevant(RevealedBy(revealed, ops(order)), Active,
                                                      indexed \cup ops(order), t)}
           seen(order) == SeenUpdate(relevant(order), batch)
           r == RevealDiff(revealed, revealed')
<1>1. PICK order \in Orders(txs) :
        /\ graph' = ApplyGraph(graph, seen(order))
        /\ revealed' = RevealedBy(revealed, ops(order))
        /\ StageChange(FromGraph(GraphDiff(graph, seen(order)), r))
    BY DEF apply_unconfirmed_txs
<1>2. ops(order) \subseteq Outpoints
    BY MatchedSubset DEF OutputsOf
<1>3. seen(order) \in Graphs
    <2>1. relevant(order) \subseteq Txs
        OBVIOUS
    <2> HIDE DEF relevant
    <2> QED BY <2>1, SeenUpdateType
<1> HIDE DEF ops, seen
<1>4. \A k \in Keychains : revealed'[k] >= revealed[k]
    BY <1>1, <1>2, RevealedByBounds DEF Durable, TypeOK
<1>5. GraphDiff(graph, seen(order)) \in Graphs /\ r \in [Keychains -> RevealedIndex]
    BY <1>3, GraphDiffType, RevealDiffType DEF Durable, TypeOK
<1>6. UNCHANGED <<identity, chain, locked_outpoints>>
    BY DEF apply_unconfirmed_txs
<1>7. ChainDiff(chain, chain') = [h \in Heights |-> Unset]
    BY <1>6 DEF ChainDiff
<1> DEFINE cs == FromGraph(GraphDiff(graph, seen(order)), r)
<1>8. cs \in ChangeSets
    BY <1>5, FromGraphType
<1>9. /\ Anonymous(cs) /\ cs.local_chain = [h \in Heights |-> Unset]
      /\ cs.tx_graph = GraphDiff(graph, seen(order)) /\ cs.indexer = r
      /\ cs.locked_outpoints = NoLocks
    BY <1>5, FromFields
<1>10. StageChange(cs)
    BY <1>1
<1> HIDE DEF cs
<1> QED BY <1>1, <1>3, <1>4, <1>6, <1>7, <1>8, <1>9, <1>10, DifferenceKeeps

\* Revealing stages the index alone.
LEMMA RevealKeeps ==
    ASSUME Durable, opened, TypeOK', NEW k \in Keychains, NEW i \in Nat, Reveal(k, i),
           UNCHANGED <<identity, chain, graph, locked_outpoints, backend, opened, db>>
    PROVE  Durable'
<1> DEFINE r == RevealDiff(revealed, revealed')
           cs == FromIndexer(r)
<1>1. StageChange(cs) /\ revealed' = RevealTo(revealed, k, i)
    BY DEF Reveal
<1>2. \A j \in Keychains : revealed'[j] >= revealed[j]
    BY <1>1, RevealToType DEF Durable, TypeOK
<1>3. r \in [Keychains -> RevealedIndex]
    BY RevealDiffType DEF Durable, TypeOK
<1>4. cs \in ChangeSets
    BY <1>3, FromIndexerType
<1>5. /\ Anonymous(cs) /\ cs.local_chain = [h \in Heights |-> Unset]
      /\ cs.tx_graph = EmptyGraph /\ cs.indexer = r /\ cs.locked_outpoints = NoLocks
    BY EmptyGraphType, FromFields
<1>6. MergeIndexer(revealed, r) = revealed' /\ \A j \in Keychains : r[j] = -1 \/ r[j] >= revealed[j]
    BY <1>2, RevealDiffApplies DEF Durable, TypeOK
<1> HIDE DEF cs, r
<1>7. AheadOfMemory(cs)
    BY <1>5, <1>6, EmptyGraphFields DEF AheadOfMemory
<1>8. chain' = [h \in Heights |-> IF cs.local_chain[h] = Unset THEN chain[h] ELSE cs.local_chain[h]]
    BY <1>5 DEF Durable, TypeOK, Chains
<1>9. locked_outpoints' = {o \in Outpoints : \/ cs.locked_outpoints[o] = "locked"
                                             \/ cs.locked_outpoints[o] = "unset" /\ o \in locked_outpoints}
    BY <1>5 DEF NoLocks, Durable, TypeOK
<1>10. graph' = ApplyGraph(graph, cs.tx_graph)
    BY <1>5, GraphIsWhole
<1>11. MemoryImage' = Patched(MemoryImage, cs)
    BY <1>5, <1>6, <1>8, <1>9, <1>10 DEF MemoryImage, Patched, identity
<1> QED BY <1>1, <1>4, <1>5, <1>7, <1>11, StagingKeeps

\* So do locks, with the outpoint alone.
LEMMA LockKeeps ==
    ASSUME Durable, opened, TypeOK', NEW o \in Outpoints, NEW s \in {"locked", "unlocked"},
           locked_outpoints' = IF s = "locked" THEN locked_outpoints \cup {o}
                               ELSE locked_outpoints \ {o},
           StageChange(FromLock(o, s)),
           UNCHANGED <<identity, chain, graph, revealed, backend, opened, db>>
    PROVE  Durable'
<1> DEFINE cs == FromLock(o, s)
<1>1. cs \in ChangeSets
    BY FromLockType DEF LockStates
<1>2. /\ Anonymous(cs) /\ cs.local_chain = [h \in Heights |-> Unset]
      /\ cs.tx_graph = EmptyGraph /\ cs.indexer = [k \in Keychains |-> -1]
      /\ cs.locked_outpoints = [NoLocks EXCEPT ![o] = s]
    BY DEF FromLock, EmptyChangeSet, Anonymous, NoLocks
<1>3. StageChange(cs)
    OBVIOUS
<1> HIDE DEF cs
<1>4. AheadOfMemory(cs)
    BY <1>2, EmptyGraphFields DEF AheadOfMemory
<1>5. chain' = [h \in Heights |-> IF cs.local_chain[h] = Unset THEN chain[h] ELSE cs.local_chain[h]]
    BY <1>2 DEF Durable, TypeOK, Chains
<1>6. locked_outpoints' = {p \in Outpoints : \/ cs.locked_outpoints[p] = "locked"
                                             \/ cs.locked_outpoints[p] = "unset" /\ p \in locked_outpoints}
    BY <1>2 DEF NoLocks, Durable, TypeOK
<1>7. graph' = ApplyGraph(graph, cs.tx_graph)
    BY <1>2, GraphIsWhole
<1>8. revealed' = MergeIndexer(revealed, cs.indexer)
    BY <1>2, BoundsAssumption DEF MergeIndexer, MaxOf, Durable, TypeOK, RevealedIndex
<1>9. MemoryImage' = Patched(MemoryImage, cs)
    BY <1>5, <1>6, <1>7, <1>8 DEF MemoryImage, Patched, identity
<1> QED BY <1>1, <1>2, <1>3, <1>4, <1>9, StagingKeeps

\* A step that touches neither memory's restorable part nor the stage.
LEMMA UntouchedKeeps ==
    ASSUME Durable, opened, TypeOK',
           UNCHANGED <<identity, chain, graph, revealed, locked_outpoints, stage, backend, opened, db>>
    PROVE  Durable'
<1>1. MemoryImage' = MemoryImage /\ Write(stage)' = Write(stage)
    BY DEF MemoryImage, Write, identity
<1>2. StageCompletesDb'
    BY <1>1 DEF StageCompletesDb, Durable
<1> QED BY <1>2 DEF Durable, Ahead, Blank

\* Address, lock and build operations stage everything they change.
LEMMA UserOpKeeps ==
    ASSUME Durable, opened, UserOp, UNCHANGED <<backend, opened, db>>
    PROVE  Durable'
<1>0. TypeOK'
    BY UserOpType DEF Durable
<1>1. ASSUME NEW k \in Keychains, reveal_next_address(k) PROVE Durable'
    <2>1. map_keychain(k) \in Keychains /\ NextIndex(revealed, map_keychain(k)) \in Nat
        BY ActiveKeychains, NextIndexType, BoundsAssumption DEF Durable, TypeOK, Indices
    <2> QED BY <1>0, <1>1, <2>1, RevealKeeps DEF reveal_next_address
<1>2. ASSUME NEW k \in Keychains, NEW i \in 0..MaxIndex + 1, reveal_addresses_to(k, i)
      PROVE  Durable'
    <2>1. map_keychain(k) \in Keychains /\ i \in Nat
        BY ActiveKeychains, BoundsAssumption
    <2> QED BY <1>0, <1>2, <2>1, RevealKeeps DEF reveal_addresses_to
<1>3. ASSUME NEW k \in Keychains, next_unused_address(k) PROVE Durable'
    <2>1. map_keychain(k) \in Keychains /\ FirstUnused(map_keychain(k)) \in Nat
        BY ActiveKeychains, FirstUnusedType, BoundsAssumption DEF Durable, TypeOK, Indices
    <2> QED BY <1>0, <1>3, <2>1, RevealKeeps DEF next_unused_address
<1>4. ASSUME NEW s \in Markable, mark_used(s) PROVE Durable'
    BY <1>0, <1>4, UntouchedKeeps DEF mark_used
<1>5. ASSUME NEW s \in Markable, unmark_used(s) PROVE Durable'
    BY <1>0, <1>5, UntouchedKeeps DEF unmark_used
<1>6. ASSUME create_tx PROVE Durable'
    <2>1. map_keychain("Internal") \in Keychains /\ ChangeIndex \in Nat
        BY ActiveKeychains, FirstUnusedType, BoundsAssumption
           DEF Durable, TypeOK, Indices, ChangeIndex, Keychains
    <2> QED BY <1>0, <1>6, <2>1, RevealKeeps DEF create_tx
<1>7. ASSUME NEW o \in Lockable, lock_outpoint(o) PROVE Durable'
    BY <1>0, <1>7, LockKeeps, InputsAssumption DEF lock_outpoint, index
<1>8. ASSUME NEW o \in Lockable, unlock_outpoint(o) PROVE Durable'
    BY <1>0, <1>8, LockKeeps, InputsAssumption DEF unlock_outpoint, index
<1> QED BY <1>1, <1>2, <1>3, <1>4, <1>5, <1>6, <1>7, <1>8 DEF UserOp

\* Updates, blocks and mempool changes stage everything they change.
LEMMA ChainOpKeeps ==
    ASSUME Durable, opened, ChainOp, UNCHANGED <<backend, opened, db>>
    PROVE  Durable'
<1>0. TypeOK'
    BY ChainOpType DEF Durable
<1>1. ASSUME NEW u \in Updates, apply_update(u) PROVE Durable'
    BY <1>0, <1>1, apply_update_keeps, InputsAssumption
<1>2. ASSUME NEW o \in Floating, insert_txout(o) PROVE Durable'
    BY <1>0, <1>2, apply_update_keeps, insert_txout_update DEF insert_txout
<1>3. ASSUME NEW b \in Blocks, NEW c \in Ancestors(b) \cup {b}, apply_block_connected_to(b, c)
      PROVE  Durable'
    <2>1. b \in Hashes /\ c \in Hashes
        BY InputsAssumption DEF Ancestors
    <2> QED BY <1>0, <1>3, <2>1, apply_block_keeps
<1>4. ASSUME NEW batch \in Batches, apply_unconfirmed_txs(batch) PROVE Durable'
    BY <1>0, <1>4, apply_unconfirmed_keeps
<1>5. ASSUME NEW evicted \in Evictions, apply_evicted_txs(evicted) PROVE Durable'
    BY <1>0, <1>5, apply_update_keeps, EvictedUpdateType DEF apply_evicted_txs
<1> QED BY <1>1, <1>2, <1>3, <1>4, <1>5 DEF ChainOp

-----------------------------------------------------------------------------
(***************************************************************************)
(* The life of a wallet: created, loaded, persisted, closed.               *)
(***************************************************************************)

\* Merging the empty graph changes nothing.
LEMMA MergeGraphEmpty ==
    ASSUME NEW g \in Graphs
    PROVE  MergeGraph(g, EmptyGraph) = g
<1> DEFINE r == MergeGraph(g, EmptyGraph)
<1>1. r \in Graphs
    BY EmptyGraphType, MergeGraphType
<1>2. r.txs = g.txs /\ r.txouts = g.txouts /\ r.anchors = g.anchors
    <2>1. /\ r.txs = g.txs \cup EmptyGraph.txs
          /\ r.txouts = g.txouts \cup EmptyGraph.txouts
          /\ r.anchors = g.anchors \cup EmptyGraph.anchors
        BY EmptyGraphType, MergeGraphFields
    <2> HIDE DEF r
    <2> QED BY <2>1, EmptyGraphFields
<1>3. ASSUME NEW t \in Txs
      PROVE  r.last_seen[t] = g.last_seen[t] /\ r.last_evicted[t] = g.last_evicted[t]
    <2>1. g.last_seen[t] \in Nat /\ g.last_evicted[t] \in Nat
        BY BoundsAssumption DEF Graphs, Times
    <2>2. EmptyGraph.last_seen[t] = 0 /\ EmptyGraph.last_evicted[t] = 0
        BY EmptyGraphFields
    <2> QED BY <2>1, <2>2, EmptyGraphType, MergeGraphFields DEF MaxOf
<1> HIDE DEF r
<1>4. r = g
    BY <1>1, <1>2, <1>3, GraphExtensional
<1> QED BY <1>4 DEF r

\* What an empty changeset holds, and what writing it does.
LEMMA EmptyFields ==
    /\ EmptyChangeSet.descriptor = None /\ EmptyChangeSet.change_descriptor = None
    /\ EmptyChangeSet.network = None
    /\ EmptyChangeSet.local_chain = [h \in Heights |-> Unset]
    /\ EmptyChangeSet.tx_graph = EmptyGraph
    /\ EmptyChangeSet.indexer = [k \in Keychains |-> -1]
    /\ EmptyChangeSet.locked_outpoints = NoLocks
BY DEF EmptyChangeSet, NoLocks

\* An empty stage is ahead of any database.
LEMMA EmptyAhead ==
    ASSUME NEW d
    PROVE  Ahead(d, EmptyChangeSet)
BY EmptyFields, EmptyGraphFields DEF Ahead

\* A stage that only reveals changes only what was revealed.
LEMMA MergeWithIndexer ==
    ASSUME NEW d \in ChangeSets, NEW s \in ChangeSets, Anonymous(s),
           s.local_chain = [h \in Heights |-> Unset], s.tx_graph = EmptyGraph,
           s.locked_outpoints = NoLocks
    PROVE  LoadImage(Merge(d, s)) = [LoadImage(d) EXCEPT !.revealed = MergeIndexer(d.indexer, s.indexer)]
<1> DEFINE m == Merge(d, s)
<1>1. m.descriptor = d.descriptor /\ m.change_descriptor = d.change_descriptor /\ m.network = d.network
    BY DEF Merge, MergeOption, Anonymous
<1>2. LoadChain(m.local_chain) = LoadChain(d.local_chain)
    BY DEF Merge, MergeBlocks, LoadChain
<1>3. m.tx_graph = d.tx_graph
    BY MergeGraphEmpty DEF Merge, ChangeSets
<1>4. LoadLocked(m.locked_outpoints) = LoadLocked(d.locked_outpoints)
    BY DEF Merge, MergeLocks, LoadLocked, NoLocks
<1>5. m.indexer = MergeIndexer(d.indexer, s.indexer)
    BY DEF Merge
<1> QED BY <1>1, <1>2, <1>3, <1>4, <1>5 DEF LoadImage

\* Merging the empty stage changes nothing that loads.
LEMMA MergeEmpty ==
    ASSUME NEW d \in ChangeSets
    PROVE  LoadImage(Merge(d, EmptyChangeSet)) = LoadImage(d)
<1>1. MergeIndexer(d.indexer, EmptyChangeSet.indexer) = d.indexer
    BY EmptyFields, BoundsAssumption DEF MergeIndexer, MaxOf, ChangeSets, RevealedIndex
<1>2. LoadImage(Merge(d, EmptyChangeSet)) = [LoadImage(d) EXCEPT !.revealed = d.indexer]
    BY <1>1, EmptyFields, EmptyChangeSetType, MergeWithIndexer DEF Anonymous
<1> QED BY <1>2 DEF LoadImage

\* Writing a changeset a second time, after an error that came too late,
\* changes nothing that load reads.
LEMMA WriteAgain ==
    ASSUME NEW d \in ChangeSets, NEW s \in ChangeSets, Ahead(d, s),
           NEW w \in {Merge(d, s), PersistToSqlite(d, s)}
    PROVE  Ahead(w, s) /\ LoadImage(Merge(w, s)) = LoadImage(Merge(d, s))
<1> DEFINE m == Merge(d, s)
           a == Merge(w, s)
<1>1. w.tx_graph = m.tx_graph /\ w.indexer = m.indexer
    BY PersistersAgree
<1>2. d.tx_graph \in Graphs /\ s.tx_graph \in Graphs /\ m.tx_graph \in Graphs
        /\ m.tx_graph = MergeGraph(d.tx_graph, s.tx_graph)
    BY MergeType DEF ChangeSets, Merge
<1>3. m.indexer = MergeIndexer(d.indexer, s.indexer)
    BY DEF Merge
<1>4. d.indexer \in [Keychains -> -1..MaxIndex] /\ s.indexer \in [Keychains -> -1..MaxIndex]
    BY DEF ChangeSets, RevealedIndex
<1>5. ASSUME NEW t \in Txs
      PROVE  /\ d.tx_graph.last_seen[t] \in Nat /\ s.tx_graph.last_seen[t] \in Nat
             /\ d.tx_graph.last_evicted[t] \in Nat /\ s.tx_graph.last_evicted[t] \in Nat
             /\ w.tx_graph.last_seen[t] = MaxOf(d.tx_graph.last_seen[t], s.tx_graph.last_seen[t])
             /\ w.tx_graph.last_evicted[t] = MaxOf(d.tx_graph.last_evicted[t], s.tx_graph.last_evicted[t])
    <2>1. /\ d.tx_graph.last_seen[t] \in Nat /\ s.tx_graph.last_seen[t] \in Nat
          /\ d.tx_graph.last_evicted[t] \in Nat /\ s.tx_graph.last_evicted[t] \in Nat
        BY <1>2, BoundsAssumption DEF Graphs, Times
    <2> HIDE DEF m
    <2> QED BY <1>1, <1>2, <2>1, MergeGraphFields
<1>6. Ahead(w, s)
    <2>1. \A k \in Keychains : s.indexer[k] = -1 \/ s.indexer[k] >= w.indexer[k]
        <3> HIDE DEF m
        <3> QED BY <1>1, <1>3, <1>4, BoundsAssumption DEF Ahead, MergeIndexer, MaxOf
    <2>2. ASSUME NEW t \in Txs
          PROVE  /\ s.tx_graph.last_seen[t] = 0 \/ s.tx_graph.last_seen[t] >= w.tx_graph.last_seen[t]
                 /\ s.tx_graph.last_evicted[t] = 0
                    \/ s.tx_graph.last_evicted[t] >= w.tx_graph.last_evicted[t]
        <3>1. /\ s.tx_graph.last_seen[t] = 0 \/ s.tx_graph.last_seen[t] >= d.tx_graph.last_seen[t]
              /\ s.tx_graph.last_evicted[t] = 0
                 \/ s.tx_graph.last_evicted[t] >= d.tx_graph.last_evicted[t]
            BY DEF Ahead
        <3> QED BY <1>5, <3>1 DEF MaxOf
    <2> QED BY <2>1, <2>2 DEF Ahead
<1>7. a.descriptor = m.descriptor /\ a.change_descriptor = m.change_descriptor /\ a.network = m.network
    BY DEF Merge, MergeOption, PersistToSqlite
<1>8. LoadChain(a.local_chain) = LoadChain(m.local_chain)
    <2>1. a.local_chain = MergeBlocks(w.local_chain, s.local_chain)
            /\ m.local_chain = MergeBlocks(d.local_chain, s.local_chain)
        BY DEF Merge
    <2>2. ASSUME NEW h \in Heights, s.local_chain[h] = Unset PROVE w.local_chain[h] = d.local_chain[h]
        BY <2>2, OptionAssumption DEF Merge, PersistToSqlite, MergeBlocks, Overwrite
    <2> HIDE DEF a, m
    <2> QED BY <2>1, <2>2 DEF LoadChain, MergeBlocks
<1>9. LoadLocked(a.locked_outpoints) = LoadLocked(m.locked_outpoints)
    <2>1. a.locked_outpoints = MergeLocks(w.locked_outpoints, s.locked_outpoints)
            /\ m.locked_outpoints = MergeLocks(d.locked_outpoints, s.locked_outpoints)
        BY DEF Merge
    <2>2. ASSUME NEW o \in Outpoints, s.locked_outpoints[o] = "unset"
          PROVE  w.locked_outpoints[o] = d.locked_outpoints[o]
        BY <2>2 DEF Merge, PersistToSqlite, MergeLocks
    <2> HIDE DEF a, m
    <2> QED BY <2>1, <2>2 DEF LoadLocked, MergeLocks
<1>10. a.indexer = m.indexer
    <2>1. a.indexer = MergeIndexer(m.indexer, s.indexer)
        BY <1>1 DEF Merge
    <2> HIDE DEF a, m
    <2> QED BY <2>1, <1>3, <1>4, BoundsAssumption DEF MergeIndexer, MaxOf
<1>11. a.tx_graph = m.tx_graph
    <2>1. a.tx_graph = MergeGraph(m.tx_graph, s.tx_graph)
        BY <1>1 DEF Merge
    <2>2. a.tx_graph \in Graphs
        BY <1>2, <2>1, MergeGraphType
    <2> HIDE DEF a, m
    <2>3. /\ a.tx_graph.txs = m.tx_graph.txs \cup s.tx_graph.txs
          /\ a.tx_graph.txouts = m.tx_graph.txouts \cup s.tx_graph.txouts
          /\ a.tx_graph.anchors = m.tx_graph.anchors \cup s.tx_graph.anchors
          /\ m.tx_graph.txs = d.tx_graph.txs \cup s.tx_graph.txs
          /\ m.tx_graph.txouts = d.tx_graph.txouts \cup s.tx_graph.txouts
          /\ m.tx_graph.anchors = d.tx_graph.anchors \cup s.tx_graph.anchors
        BY <1>2, <2>1, MergeGraphFields
    <2>4. /\ a.tx_graph.txs = m.tx_graph.txs
          /\ a.tx_graph.txouts = m.tx_graph.txouts
          /\ a.tx_graph.anchors = m.tx_graph.anchors
        BY <2>3
    <2>5. ASSUME NEW t \in Txs
          PROVE  /\ a.tx_graph.last_seen[t] = m.tx_graph.last_seen[t]
                 /\ a.tx_graph.last_evicted[t] = m.tx_graph.last_evicted[t]
        <3>1. /\ a.tx_graph.last_seen[t] = MaxOf(m.tx_graph.last_seen[t], s.tx_graph.last_seen[t])
              /\ a.tx_graph.last_evicted[t] = MaxOf(m.tx_graph.last_evicted[t], s.tx_graph.last_evicted[t])
            BY <1>2, <2>1, MergeGraphFields
        <3> QED BY <1>1, <1>5, <3>1 DEF MaxOf
    <2> QED BY <1>2, <2>2, <2>4, <2>5, GraphExtensional
<1> HIDE DEF a, m
<1>12. LoadImage(a) = LoadImage(m)
    BY <1>7, <1>8, <1>9, <1>10, <1>11 DEF LoadImage
<1> QED BY <1>6, <1>12 DEF a, m

\* With nothing staged, memory is what the database loads.
LEMMA NothingStaged ==
    ASSUME TypeOK, stage = EmptyChangeSet
    PROVE  LoadImage(Write(stage)) = LoadImage(db)
BY EmptyChangeSetType, EmptyAhead, WriteLoads, MergeEmpty DEF TypeOK

\* persist writes the stage and then clears it: nothing is lost in between.
LEMMA PersistKeeps ==
    ASSUME Durable, Persist
    PROVE  Durable'
<1>1. TypeOK'
    BY TypeStep DEF Durable, Next
<1>2. /\ opened /\ opened' = opened /\ db' = Write(stage) /\ stage' = EmptyChangeSet
      /\ UNCHANGED <<identity, chain, graph, revealed, locked_outpoints>>
    BY DEF Persist, index
<1>3. (TypeOK /\ stage = EmptyChangeSet => LoadImage(Write(stage)) = LoadImage(db))'
    BY NothingStaged, PTL
<1>4. LoadImage(Write(stage))' = LoadImage(Write(stage))
    BY <1>1, <1>2, <1>3
<1>5. MemoryImage' = MemoryImage
    BY <1>2 DEF MemoryImage, identity
<1>6. StageCompletesDb'
    BY <1>2, <1>4, <1>5 DEF StageCompletesDb, Durable
<1>7. Ahead(db, stage)'
    BY <1>2, EmptyAhead
<1>8. Blank'
    BY <1>2 DEF Blank
<1> QED BY <1>1, <1>6, <1>7, <1>8 DEF Durable

\* A failed persist leaves the stage, so that a retry completes the database.
LEMMA PersistFailsKeeps ==
    ASSUME Durable, PersistFails
    PROVE  Durable'
<1>1. TypeOK'
    BY TypeStep DEF Durable, Next
<1>2. /\ opened
      /\ UNCHANGED <<identity, chain, graph, revealed, indexed, locked_outpoints, stage, backend, opened>>
    BY DEF PersistFails, walletVars, index
<1>3. CASE db' = db
    BY <1>1, <1>2, <1>3, UntouchedKeeps
<1>4. CASE db' = Write(stage)
    <2>1. db' \in {Merge(db, stage), PersistToSqlite(db, stage)}
        BY <1>4 DEF Write, PersistToFile
    <2>2. Ahead(db', stage) /\ LoadImage(Merge(db', stage)) = LoadImage(Merge(db, stage))
        BY <2>1, WriteAgain DEF Durable, TypeOK
    <2>3. LoadImage(Write(stage))' = LoadImage(Merge(db', stage'))
        BY <1>1, <1>2, <2>2, PersistersAgree DEF Write, PersistToFile, TypeOK
    <2>4. LoadImage(Write(stage))' = LoadImage(Merge(db, stage))
        BY <1>2, <2>2, <2>3
    <2>5. MemoryImage' = MemoryImage
        BY <1>2 DEF MemoryImage, identity
    <2>6. StageCompletesDb'
        BY <1>2, <2>4, <2>5, MemoryIsMerge DEF StageCompletesDb
    <2>7. Ahead(db, stage)' /\ Blank'
        BY <1>2, <2>2 DEF Blank, Ahead
    <2> QED BY <1>1, <2>6, <2>7 DEF Durable
<1> QED BY <1>3, <1>4 DEF PersistFails

\* What create writes to an empty database is the wallet it returns.
LEMMA NewStageLoads ==
    ASSUME TypeOK, db = EmptyChangeSet, NEW p \in CreateParams
    PROVE  LoadImage(Write(NewStage(p)))
             = [descriptor |-> p.descriptor,
                change_descriptor |-> p.change_descriptor,
                network |-> p.network,
                chain |-> [NoChain EXCEPT ![0] = Genesis],
                graph |-> EmptyGraph,
                revealed |-> [k \in Keychains |-> -1],
                locked |-> {}]
<1> DEFINE s == NewStage(p)
           m == Merge(EmptyChangeSet, s)
<1>1. /\ s.descriptor = p.descriptor
      /\ s.change_descriptor = p.change_descriptor
      /\ s.network = p.network
      /\ s.local_chain = [[h \in Heights |-> Unset] EXCEPT ![0] = Genesis]
      /\ s.tx_graph = EmptyGraph
      /\ s.indexer = [k \in Keychains |-> -1]
      /\ s.locked_outpoints = NoLocks
    BY DEF NewStage, EmptyChangeSet, NoLocks
<1>2. s \in ChangeSets
    BY NewStageType
<1> HIDE DEF s
<1>3. Ahead(db, s)
    BY <1>1, EmptyGraphFields DEF Ahead
<1>4. LoadImage(Write(s)) = LoadImage(m)
    BY <1>2, <1>3, WriteLoads
<1>5. m.descriptor = p.descriptor /\ m.change_descriptor = p.change_descriptor /\ m.network = p.network
    BY <1>1, EmptyFields DEF Merge, MergeOption
<1>6. LoadChain(m.local_chain) = [NoChain EXCEPT ![0] = Genesis]
    <2>1. m.local_chain = MergeBlocks([h \in Heights |-> Unset], s.local_chain)
        BY EmptyFields DEF Merge
    <2> HIDE DEF m
    <2>2. 0 \in Heights
        BY BoundsAssumption DEF Heights
    <2>3. \A h \in Heights : s.local_chain[h] = IF h = 0 THEN Genesis ELSE Unset
        BY <1>1, <2>2
    <2>4. \A h \in Heights : m.local_chain[h] = IF h = 0 THEN Genesis ELSE Unset
        BY <2>1, <2>3 DEF MergeBlocks
    <2>5. \A h \in Heights : [NoChain EXCEPT ![0] = Genesis][h] = IF h = 0 THEN Genesis ELSE NoHash
        BY DEF NoChain
    <2>6. Genesis # Unset
        BY OptionAssumption, BlocksAssumption
    <2>7. \A h \in Heights : LoadChain(m.local_chain)[h] = [NoChain EXCEPT ![0] = Genesis][h]
        BY <2>4, <2>5, <2>6 DEF LoadChain
    <2> QED BY <2>7 DEF LoadChain, NoChain
<1>7. Whole(m.tx_graph) = EmptyGraph
    <2>1. m.tx_graph = EmptyGraph
        BY <1>1, EmptyFields, MergeEmptyGraph, EmptyGraphType DEF Merge
    <2>2. Whole(EmptyGraph) = EmptyGraph
        BY DEF Whole, EmptyGraph
    <2> QED BY <2>1, <2>2
<1>8. m.indexer = [k \in Keychains |-> -1]
    BY <1>1, EmptyFields DEF Merge, MergeIndexer, MaxOf
<1>9. LoadLocked(m.locked_outpoints) = {}
    BY <1>1, EmptyFields DEF Merge, MergeLocks, LoadLocked, NoLocks
<1> HIDE DEF m
<1> QED BY <1>4, <1>5, <1>6, <1>7, <1>8, <1>9 DEF LoadImage, s

\* create_with_params and its first write leave memory and database agreeing.
LEMMA CreateKeeps ==
    ASSUME Durable, NEW p \in CreateParams, Create(p)
    PROVE  Durable'
<1>1. TypeOK'
    BY TypeStep DEF Durable, Next
<1>2. /\ graph' = EmptyGraph /\ revealed' = [k \in Keychains |-> -1]
      /\ locked_outpoints' = {} /\ stage' = EmptyChangeSet
    BY DEF Create, Durable, Blank, index
<1>3. db' = Write(NewStage(p)) /\ db = EmptyChangeSet /\ opened' = TRUE
      /\ descriptor' = p.descriptor /\ change_descriptor' = p.change_descriptor
      /\ network' = p.network /\ chain' = [NoChain EXCEPT ![0] = Genesis]
    BY DEF Create, IsEmpty
<1>4. (TypeOK /\ stage = EmptyChangeSet => LoadImage(Write(stage)) = LoadImage(db))'
    BY NothingStaged, PTL
<1>5. LoadImage(Write(stage))' = LoadImage(Write(NewStage(p)))
    BY <1>1, <1>2, <1>3, <1>4
<1>6. LoadImage(Write(NewStage(p))) = MemoryImage'
    BY <1>2, <1>3, NewStageLoads DEF MemoryImage, Durable
<1>7. StageCompletesDb'
    BY <1>5, <1>6 DEF StageCompletesDb
<1>8. Ahead(db, stage)' /\ Blank'
    BY <1>2, <1>3, EmptyAhead DEF Blank
<1> QED BY <1>1, <1>7, <1>8 DEF Durable

\* load_with_params leaves memory, stage and database agreeing.
LEMMA LoadKeeps ==
    ASSUME Durable, NEW p \in LoadParams, Load(p)
    PROVE  Durable'
<1> DEFINE image == LoadImage(db)
<1>1. TypeOK'
    BY TypeStep DEF Durable, Next
<1>2. PICK order \in Orders(image.graph.txs) :
        /\ revealed' = RevealedBy(image.revealed, Reindexed(image, order))
        /\ stage' = FromIndexer(RevealDiff(image.revealed, revealed'))
    BY DEF Load
<1>3. /\ descriptor' = image.descriptor /\ change_descriptor' = image.change_descriptor
      /\ network' = image.network /\ chain' = image.chain /\ graph' = image.graph
      /\ locked_outpoints' = image.locked /\ opened' = TRUE /\ UNCHANGED <<backend, db>>
    BY DEF Load
<1>4. image.revealed = db.indexer /\ db.indexer \in [Keychains -> RevealedIndex]
    BY DEF LoadImage, Durable, TypeOK, ChangeSets
<1>5. \A k \in Keychains : revealed'[k] >= db.indexer[k]
    BY <1>2, <1>4, ReindexedType, RevealedByBounds DEF Durable, TypeOK
<1> DEFINE r == RevealDiff(db.indexer, revealed')
<1>6. stage' = FromIndexer(r)
    BY <1>2, <1>4
<1>7. MergeIndexer(db.indexer, r) = revealed' /\ \A k \in Keychains : r[k] = -1 \/ r[k] >= db.indexer[k]
    BY <1>1, <1>4, <1>5, RevealDiffApplies DEF TypeOK
<1>8. /\ Anonymous(stage') /\ stage'.local_chain = [h \in Heights |-> Unset]
      /\ stage'.tx_graph = EmptyGraph /\ stage'.indexer = r /\ stage'.locked_outpoints = NoLocks
    BY <1>6, EmptyGraphType, FromFields
<1> HIDE DEF r
<1>9. Ahead(db, stage')
    BY <1>7, <1>8, EmptyGraphFields DEF Ahead
<1>10. LoadImage(Write(stage)') = LoadImage(Merge(db, stage'))
    BY <1>1, <1>3, <1>9, PersistersAgree DEF Write, PersistToFile, TypeOK
<1>11. LoadImage(Merge(db, stage')) = [image EXCEPT !.revealed = revealed']
    BY <1>1, <1>7, <1>8, MergeWithIndexer DEF Durable, TypeOK
<1>12. MemoryImage' = [image EXCEPT !.revealed = revealed']
    BY <1>3 DEF MemoryImage, LoadImage
<1>13. StageCompletesDb'
    BY <1>10, <1>11, <1>12 DEF StageCompletesDb
<1>14. Ahead(db, stage)' /\ Blank'
    BY <1>3, <1>9 DEF Blank, Ahead
<1> QED BY <1>1, <1>13, <1>14 DEF Durable

\* Every step keeps the inductive invariant.
LEMMA DurableStep ==
    ASSUME Durable, [Next]_vars
    PROVE  Durable'
<1>0. TypeOK'
    BY TypeStep DEF Durable
<1>1. ASSUME NEW p \in CreateParams, Create(p) PROVE Durable'
    BY <1>1, CreateKeeps
<1>2. ASSUME NEW p \in CreateParams, CreateFails(p) PROVE Durable'
    <2>1. ~opened /\ ~opened' /\ UNCHANGED <<graph, revealed, indexed, locked_outpoints, stage>>
        BY <1>2 DEF CreateFails, walletVars, index
    <2>2. stage' = EmptyChangeSet
        BY <2>1 DEF Durable, Blank
    <2> QED BY <1>0, <2>1, <2>2, EmptyAhead DEF Durable, Blank, StageCompletesDb
<1>3. ASSUME NEW p \in LoadParams, Load(p) PROVE Durable'
    BY <1>3, LoadKeeps
<1>4. ASSUME Persist PROVE Durable'
    BY <1>4, PersistKeeps
<1>5. ASSUME PersistFails PROVE Durable'
    BY <1>5, PersistFailsKeeps
<1>6. ASSUME Close PROVE Durable'
    BY <1>0, <1>6, EmptyAhead DEF Close, Durable, Blank, StageCompletesDb
<1>7. ASSUME WalletOp PROVE Durable'
    BY <1>7, UserOpKeeps, ChainOpKeeps DEF WalletOp
<1>8. ASSUME UNCHANGED vars PROVE Durable'
    <2>1. UNCHANGED <<identity, chain, graph, revealed, indexed, locked_outpoints, stage, backend, opened, db>>
        BY <1>8 DEF vars, walletVars, index
    <2>2. MemoryImage' = MemoryImage /\ Write(stage)' = Write(stage)
        BY <2>1 DEF MemoryImage, Write, identity
    <2> QED BY <1>0, <2>1, <2>2 DEF Durable, Ahead, Blank, StageCompletesDb
<1> QED BY <1>1, <1>2, <1>3, <1>4, <1>5, <1>6, <1>7, <1>8 DEF Next

\* The inductive invariant holds in every reachable state.
LEMMA DurableAlways == Spec => []Durable
<1>1. Init => Durable
    <2> SUFFICES ASSUME Init PROVE Durable
        OBVIOUS
    <2>1. TypeOK
        BY BlankTypes DEF Init, TypeOK
    <2> QED BY <2>1, EmptyAhead DEF Init, Durable, Blank, StageCompletesDb
<1>2. Durable /\ [Next]_vars => Durable'
    BY DurableStep
<1> QED BY <1>1, <1>2, PTL DEF Spec

\* Nothing is lost: with the SQLite and with the file persister, after any
\* calls, failed writes, writes repeated after a late error and restarts, the
\* database and the stage together restore the wallet in memory.
THEOREM NothingLost == Spec => []StageCompletesDb
<1>1. Durable => StageCompletesDb
    BY DEF Durable
<1> QED BY <1>1, DurableAlways, PTL

-----------------------------------------------------------------------------
(***************************************************************************)
(* What load finds in a database, and what memory keeps true of itself:    *)
(* the cached canonical view is fresh, a database with data loads, a write *)
(* never takes anything back, and every output the wallet has found is     *)
(* found again after a restart.                                            *)
(***************************************************************************)

\* A database with data, and the chain of an open wallet, start with a block;
\* nothing staged removes it.
Rooted ==
    /\ DbLoadable
    /\ opened => Loadable(db) /\ chain[0] \in Hashes
    /\ stage.local_chain[0] # NoHash

\* An indexed output is one the graph holds, and its script is revealed.
Found ==
    opened => \A o \in indexed :
        /\ o \in OutputsOf(graph.txs) \cup graph.txouts
        /\ ScriptOf(o)[1] \in Active
        /\ ScriptOf(o)[2] <= revealed[ScriptOf(o)[1]]

-----------------------------------------------------------------------------
(***************************************************************************)
(* What the methods of the wallet leave alone.                             *)
(***************************************************************************)

\* A method that needs no chain data touches neither chain nor graph, and
\* stages no block.
LEMMA UserOpLeaves ==
    ASSUME TypeOK, UserOp
    PROVE  /\ UNCHANGED <<identity, chain, graph, indexed, canonical_view>>
           /\ stage'.local_chain = stage.local_chain
           /\ \A k \in Keychains : revealed'[k] >= revealed[k]
<1>0. stage.local_chain \in [Heights -> Hashes \cup {NoHash, Unset}]
    BY DEF TypeOK, ChangeSets
<1>1. ASSUME NEW cs, cs.local_chain = [h \in Heights |-> Unset], StageChange(cs)
      PROVE  stage'.local_chain = stage.local_chain
    BY <1>0, <1>1 DEF StageChange, Merge, MergeBlocks
<1>2. ASSUME NEW k \in Keychains, NEW i \in Nat, Reveal(k, i)
      PROVE  /\ stage'.local_chain = stage.local_chain
             /\ \A j \in Keychains : revealed'[j] >= revealed[j]
    <2>1. FromIndexer(RevealDiff(revealed, RevealTo(revealed, k, i))).local_chain
            = [h \in Heights |-> Unset]
        BY EmptyGraphType, FromFields
    <2> QED BY <1>1, <1>2, <2>1, RevealToType DEF Reveal, TypeOK
<1>3. ASSUME NEW o, NEW s, StageChange(FromLock(o, s)) PROVE stage'.local_chain = stage.local_chain
    <2>1. FromLock(o, s).local_chain = [h \in Heights |-> Unset]
        BY DEF FromLock, EmptyChangeSet
    <2> QED BY <1>1, <1>3, <2>1
<1>4. ASSUME UNCHANGED revealed PROVE \A k \in Keychains : revealed'[k] >= revealed[k]
    BY <1>4, BoundsAssumption DEF TypeOK, RevealedIndex
<1>5. \A k \in Keychains : map_keychain(k) \in Keychains /\ NextIndex(revealed, map_keychain(k)) \in Nat
                           /\ FirstUnused(map_keychain(k)) \in Nat
    BY ActiveKeychains, NextIndexType, FirstUnusedType, BoundsAssumption DEF TypeOK, Indices
<1>6. ASSUME NEW k \in Keychains, reveal_next_address(k) \/ next_unused_address(k)
      PROVE  /\ UNCHANGED <<identity, chain, graph, indexed, canonical_view>>
             /\ stage'.local_chain = stage.local_chain
             /\ \A j \in Keychains : revealed'[j] >= revealed[j]
    BY <1>2, <1>5, <1>6 DEF reveal_next_address, next_unused_address
<1>7. ASSUME NEW k \in Keychains, NEW i \in 0..MaxIndex + 1, reveal_addresses_to(k, i)
      PROVE  /\ UNCHANGED <<identity, chain, graph, indexed, canonical_view>>
             /\ stage'.local_chain = stage.local_chain
             /\ \A j \in Keychains : revealed'[j] >= revealed[j]
    <2>1. i \in Nat
        BY BoundsAssumption
    <2> QED BY <1>2, <1>5, <1>7, <2>1 DEF reveal_addresses_to
<1>8. ASSUME NEW s \in Markable, mark_used(s) \/ unmark_used(s)
      PROVE  /\ UNCHANGED <<identity, chain, graph, indexed, canonical_view>>
             /\ stage'.local_chain = stage.local_chain
             /\ \A j \in Keychains : revealed'[j] >= revealed[j]
    BY <1>4, <1>8 DEF mark_used, unmark_used
<1>9. ASSUME create_tx
      PROVE  /\ UNCHANGED <<identity, chain, graph, indexed, canonical_view>>
             /\ stage'.local_chain = stage.local_chain
             /\ \A j \in Keychains : revealed'[j] >= revealed[j]
    <2>1. "Internal" \in Keychains
        BY DEF Keychains
    <2> QED BY <1>2, <1>5, <1>9, <2>1 DEF create_tx, ChangeIndex
<1>10. ASSUME NEW o \in Lockable, lock_outpoint(o) \/ unlock_outpoint(o)
      PROVE  /\ UNCHANGED <<identity, chain, graph, indexed, canonical_view>>
             /\ stage'.local_chain = stage.local_chain
             /\ \A j \in Keychains : revealed'[j] >= revealed[j]
    BY <1>3, <1>4, <1>10 DEF lock_outpoint, unlock_outpoint, index
<1> QED BY <1>6, <1>7, <1>8, <1>9, <1>10 DEF UserOp

\* Every method that applies chain data ends by computing the view anew.
LEMMA ChainOpRefreshes ==
    ASSUME ChainOp
    PROVE  /\ UNCHANGED <<identity, locked_outpoints>>
           /\ canonical_view' = CanonicalView(chain', graph')
<1>1. ASSUME NEW u, apply_update(u)
      PROVE  UNCHANGED <<identity, locked_outpoints>> /\ canonical_view' = CanonicalView(chain', graph')
    BY <1>1 DEF apply_update, update_canonical_view
<1>2. ASSUME NEW b, NEW c, apply_block_connected_to(b, c)
      PROVE  UNCHANGED <<identity, locked_outpoints>> /\ canonical_view' = CanonicalView(chain', graph')
    BY <1>2 DEF apply_block_connected_to, update_canonical_view
<1>3. ASSUME NEW batch, apply_unconfirmed_txs(batch)
      PROVE  UNCHANGED <<identity, locked_outpoints>> /\ canonical_view' = CanonicalView(chain', graph')
    BY <1>3 DEF apply_unconfirmed_txs, update_canonical_view
<1> QED BY <1>1, <1>2, <1>3 DEF ChainOp, insert_txout, apply_evicted_txs

-----------------------------------------------------------------------------
(***************************************************************************)
(* The cached canonical view.                                              *)
(***************************************************************************)

\* Every step leaves the cached view of an open wallet fresh.
LEMMA FreshStep ==
    ASSUME TypeOK, CanonicalViewFresh, [Next]_vars
    PROVE  CanonicalViewFresh'
<1>1. ASSUME NEW p \in CreateParams, Create(p) PROVE CanonicalViewFresh'
    BY <1>1 DEF Create, CanonicalViewFresh
<1>2. ASSUME NEW p \in CreateParams, CreateFails(p) PROVE CanonicalViewFresh'
    BY <1>2 DEF CreateFails, CanonicalViewFresh, walletVars
<1>3. ASSUME NEW p \in LoadParams, Load(p) PROVE CanonicalViewFresh'
    BY <1>3 DEF Load, CanonicalViewFresh
<1>4. ASSUME Persist \/ PersistFails PROVE CanonicalViewFresh'
    BY <1>4 DEF Persist, PersistFails, CanonicalViewFresh, walletVars
<1>5. ASSUME Close PROVE CanonicalViewFresh'
    BY <1>5 DEF Close, CanonicalViewFresh
<1>6. ASSUME WalletOp PROVE CanonicalViewFresh'
    <2>1. CASE UserOp
        BY <1>6, <2>1, UserOpLeaves DEF WalletOp, CanonicalViewFresh
    <2>2. CASE ChainOp
        BY <2>2, ChainOpRefreshes DEF CanonicalViewFresh
    <2> QED BY <1>6, <2>1, <2>2 DEF WalletOp
<1>7. ASSUME UNCHANGED vars PROVE CanonicalViewFresh'
    BY <1>7 DEF vars, walletVars, CanonicalViewFresh
<1> QED BY <1>1, <1>2, <1>3, <1>4, <1>5, <1>6, <1>7 DEF Next

\* No method leaves a stale view behind: transactions, balances and coins are
\* always those of the current chain and graph.
THEOREM ViewAlwaysFresh == Spec => []CanonicalViewFresh
<1>1. Init => CanonicalViewFresh
    BY DEF Init, CanonicalViewFresh
<1>2. TypeOK /\ CanonicalViewFresh /\ [Next]_vars => CanonicalViewFresh'
    BY FreshStep
<1> QED BY <1>1, <1>2, TypeCorrect, PTL DEF Spec

-----------------------------------------------------------------------------
(***************************************************************************)
(* A database with data loads.                                             *)
(***************************************************************************)

\* An update that connects leaves a block at height 0: it either brings one or
\* agrees with the chain somewhere, and only what is above that is dropped.
LEMMA ConnectedKeepsRoot ==
    ASSUME NEW c \in Chains, NEW upd \in Chains, CanConnect(c, upd), c[0] \in Hashes
    PROVE  Connected(c, upd)[0] \in Hashes
<1>1. 0 \in Heights /\ \A h \in Heights : h \in Nat
    BY BoundsAssumption DEF Heights
<1>2. PICK a \in Agreement(c, upd) : TRUE
    BY DEF CanConnect
<1>3. ~(\A b \in Agreement(c, upd) : 0 > b)
    BY <1>1, <1>2 DEF Agreement
<1>4. upd[0] \in Hashes \cup {NoHash}
    BY <1>1 DEF Chains
<1> QED BY <1>1, <1>3, <1>4 DEF Connected

\* The difference to a chain that starts with a block removes no first block.
LEMMA DiffKeepsRoot ==
    ASSUME NEW c \in Chains, NEW d \in Chains, d[0] \in Hashes
    PROVE  ChainDiff(c, d)[0] # NoHash
<1>1. 0 \in Heights
    BY BoundsAssumption DEF Heights
<1> QED BY <1>1, OptionAssumption, BlocksAssumption DEF ChainDiff

\* Merging stages that keep the first block keeps it.
LEMMA MergeKeepsRoot ==
    ASSUME NEW x, NEW y, x.local_chain[0] # NoHash, y.local_chain[0] # NoHash
    PROVE  Merge(x, y).local_chain[0] # NoHash
<1>1. 0 \in Heights
    BY BoundsAssumption DEF Heights
<1> QED BY <1>1 DEF Merge, MergeBlocks

\* Applying chain data keeps the first block of an open wallet, and stages no
\* removal of it.
LEMMA ChainOpKeepsRoot ==
    ASSUME TypeOK, Rooted, opened, ChainOp
    PROVE  chain'[0] \in Hashes /\ stage'.local_chain[0] # NoHash
<1>0. 0 \in Heights /\ chain \in Chains /\ graph \in Graphs /\ chain[0] \in Hashes
        /\ stage.local_chain[0] # NoHash
    BY BoundsAssumption DEF Heights, TypeOK, Rooted
<1>1. \A r : FromIndexer(r).local_chain[0] # NoHash
    BY <1>0, EmptyGraphType, FromFields, OptionAssumption
<1>2. \A g, r : FromGraph(g, r).local_chain[0] # NoHash
    BY <1>0, OptionAssumption DEF FromGraph, EmptyChangeSet
<1>3. ASSUME NEW u \in UpdateRecords, apply_update(u)
      PROVE  chain'[0] \in Hashes /\ stage'.local_chain[0] # NoHash
    <2>1. UpdatedChain(u)[0] \in Hashes /\ UpdatedChain(u) \in Chains
        BY <1>0, <1>3, UpdateFields, UpdatedChainType, ConnectedKeepsRoot DEF apply_update, UpdatedChain
    <2> DEFINE c == FromChain(ChainDiff(chain, UpdatedChain(u)))
    <2>2. c.local_chain[0] # NoHash
        BY <1>0, <2>1, DiffKeepsRoot, FromFields
    <2> HIDE DEF c
    <2>3. \A r, g, q : Merge(stage, Merge(Merge(c, FromIndexer(r)), FromGraph(g, q))).local_chain[0] # NoHash
        BY <1>0, <1>1, <1>2, <2>2, MergeKeepsRoot
    <2>4. chain' = UpdatedChain(u)
        BY <1>3 DEF apply_update
    <2>5. \E r, g, q : stage' = Merge(stage, Merge(Merge(c, FromIndexer(r)), FromGraph(g, q)))
        BY <1>3 DEF apply_update, StageChange, c
    <2> QED BY <2>1, <2>3, <2>4, <2>5
<1>4. ASSUME NEW b \in Hashes, NEW a \in Hashes, apply_block_connected_to(b, a)
      PROVE  chain'[0] \in Hashes /\ stage'.local_chain[0] # NoHash
    <2> DEFINE upd == FromBlocks({a, b} \cup ({Parent[b]} \ {NoHash}))
               new == Connected(chain, upd)
               c == FromChain(ChainDiff(chain, new))
    <2>1. upd \in Chains
        BY FromBlocksType, InputsAssumption
    <2>2. CanConnect(chain, upd) /\ chain' = new
        BY <1>4 DEF apply_block_connected_to
    <2>3. \E g, q : stage' = Merge(stage, Merge(c, FromGraph(g, q)))
        BY <1>4 DEF apply_block_connected_to, StageChange
    <2> HIDE DEF upd
    <2>4. new \in Chains /\ new[0] \in Hashes
        BY <1>0, <2>1, <2>2, ConnectedType, ConnectedKeepsRoot
    <2>5. c.local_chain[0] # NoHash
        BY <1>0, <2>4, DiffKeepsRoot, FromFields
    <2> HIDE DEF c, new
    <2>6. \A g, q : Merge(stage, Merge(c, FromGraph(g, q))).local_chain[0] # NoHash
        BY <1>0, <1>2, <2>5, MergeKeepsRoot
    <2> QED BY <2>2, <2>3, <2>4, <2>6
<1>5. ASSUME NEW batch, apply_unconfirmed_txs(batch)
      PROVE  chain'[0] \in Hashes /\ stage'.local_chain[0] # NoHash
    <2>1. \E g, q : stage' = Merge(stage, FromGraph(g, q))
        BY <1>5 DEF apply_unconfirmed_txs, StageChange
    <2> QED BY <1>0, <1>2, <1>5, <2>1, MergeKeepsRoot DEF apply_unconfirmed_txs
<1>6. ASSUME NEW u \in Updates, apply_update(u)
      PROVE  chain'[0] \in Hashes /\ stage'.local_chain[0] # NoHash
    BY <1>3, <1>6, InputsAssumption
<1>7. ASSUME NEW o \in Floating, insert_txout(o)
      PROVE  chain'[0] \in Hashes /\ stage'.local_chain[0] # NoHash
    BY <1>3, <1>7, insert_txout_update DEF insert_txout
<1>8. ASSUME NEW b \in Blocks, NEW a \in Ancestors(b) \cup {b}, apply_block_connected_to(b, a)
      PROVE  chain'[0] \in Hashes /\ stage'.local_chain[0] # NoHash
    BY <1>4, <1>8, InputsAssumption DEF Ancestors
<1>9. ASSUME NEW evicted \in Evictions, apply_evicted_txs(evicted)
      PROVE  chain'[0] \in Hashes /\ stage'.local_chain[0] # NoHash
    BY <1>3, <1>9, EvictedUpdateType DEF apply_evicted_txs
<1> QED BY <1>5, <1>6, <1>7, <1>8, <1>9 DEF ChainOp

\* Either persister keeps network, descriptor and first block of a database.
LEMMA WriteKeepsLoadable ==
    ASSUME TypeOK, Rooted, opened
    PROVE  Loadable(Write(stage))
<1>1. 0 \in Heights
    BY BoundsAssumption DEF Heights
<1>2. Loadable(db) /\ stage.local_chain[0] # NoHash
    BY DEF Rooted
<1>3. stage.local_chain[0] \in Hashes \cup {Unset}
    BY <1>1, <1>2 DEF TypeOK, ChangeSets
<1>4. Loadable(Merge(db, stage))
    BY <1>1, <1>2, <1>3 DEF Loadable, Merge, MergeOption, MergeBlocks
<1>5. Loadable(PersistToSqlite(db, stage))
    BY <1>1, <1>2, <1>3 DEF Loadable, PersistToSqlite, MergeOption, Overwrite
<1> QED BY <1>4, <1>5 DEF Write, PersistToFile

\* What create writes loads.
LEMMA NewStageLoadable ==
    ASSUME TypeOK, IsEmpty(db), NEW p \in CreateParams
    PROVE  Loadable(Write(NewStage(p)))
<1>1. 0 \in Heights /\ Genesis \in Hashes /\ Genesis # Unset /\ Genesis # NoHash
    BY BoundsAssumption, BlocksAssumption, OptionAssumption DEF Heights
<1>2. p.descriptor # None /\ p.network # None
    BY ParamsAssumption, OptionAssumption
<1>3. /\ NewStage(p).descriptor = p.descriptor /\ NewStage(p).network = p.network
      /\ NewStage(p).local_chain[0] = Genesis
    BY <1>1 DEF NewStage, EmptyChangeSet
<1>4. db.descriptor = None /\ db.network = None
    BY DEF IsEmpty, EmptyChangeSet
<1>5. Loadable(Merge(db, NewStage(p)))
    BY <1>1, <1>2, <1>3, <1>4 DEF Loadable, Merge, MergeOption, MergeBlocks
<1>6. Loadable(PersistToSqlite(db, NewStage(p)))
    BY <1>1, <1>2, <1>3, <1>4 DEF Loadable, PersistToSqlite, MergeOption, Overwrite
<1> QED BY <1>5, <1>6 DEF Write, PersistToFile

\* Every step keeps the first block.
LEMMA RootedStep ==
    ASSUME Durable, Rooted, [Next]_vars
    PROVE  Rooted'
<1>0. TypeOK /\ 0 \in Heights /\ EmptyChangeSet.local_chain[0] # NoHash
    BY BoundsAssumption, OptionAssumption DEF Durable, EmptyChangeSet, Heights
<1>1. ASSUME NEW p \in CreateParams, Create(p) PROVE Rooted'
    <2>1. Loadable(db')
        BY <1>0, <1>1, NewStageLoadable DEF Create
    <2>2. chain'[0] \in Hashes
        BY <1>0, <1>1, BlocksAssumption DEF Create, NoChain
    <2> QED BY <1>1, <2>1, <2>2 DEF Create, Rooted, DbLoadable
<1>2. ASSUME NEW p \in CreateParams, CreateFails(p) PROVE Rooted'
    <2>1. Loadable(Write(NewStage(p)))
        BY <1>0, <1>2, NewStageLoadable DEF CreateFails
    <2> QED BY <1>2, <2>1 DEF CreateFails, Rooted, DbLoadable, walletVars
<1>3. ASSUME NEW p \in LoadParams, Load(p) PROVE Rooted'
    <2>1. Loadable(db) /\ chain' = LoadImage(db).chain /\ UNCHANGED db
        BY <1>3 DEF Load
    <2>2. chain'[0] \in Hashes
        BY <1>0, <2>1, OptionAssumption DEF Loadable, LoadImage, LoadChain
    <2>3. \E r : stage' = FromIndexer(r)
        BY <1>3 DEF Load
    <2>4. stage'.local_chain[0] # NoHash
        BY <1>0, <2>3, EmptyGraphType, FromFields, OptionAssumption
    <2> QED BY <2>1, <2>2, <2>4 DEF Rooted, DbLoadable
<1>4. ASSUME Persist PROVE Rooted'
    BY <1>0, <1>4, WriteKeepsLoadable DEF Persist, Rooted, DbLoadable
<1>5. ASSUME PersistFails PROVE Rooted'
    BY <1>0, <1>5, WriteKeepsLoadable DEF PersistFails, Rooted, DbLoadable, walletVars
<1>6. ASSUME Close PROVE Rooted'
    BY <1>0, <1>6 DEF Close, Rooted, DbLoadable
<1>7. ASSUME WalletOp PROVE Rooted'
    <2>1. UNCHANGED <<opened, db>> /\ opened
        BY <1>7 DEF WalletOp
    <2>2. CASE UserOp
        BY <1>0, <2>1, <2>2, UserOpLeaves DEF Rooted, DbLoadable
    <2>3. CASE ChainOp
        BY <1>0, <2>1, <2>3, ChainOpKeepsRoot DEF Rooted, DbLoadable
    <2> QED BY <1>7, <2>2, <2>3 DEF WalletOp
<1>8. ASSUME UNCHANGED vars PROVE Rooted'
    BY <1>8 DEF vars, walletVars, Rooted, DbLoadable
<1> QED BY <1>1, <1>2, <1>3, <1>4, <1>5, <1>6, <1>7, <1>8 DEF Next

\* The first block is never lost.
LEMMA RootedAlways == Spec => []Rooted
<1>1. Init => Rooted
    BY BoundsAssumption, OptionAssumption DEF Init, Rooted, DbLoadable, IsEmpty, EmptyChangeSet, Heights
<1>2. Durable /\ Rooted /\ [Next]_vars => Rooted'
    BY RootedStep
<1> QED BY <1>1, <1>2, DurableAlways, PTL DEF Spec

\* A database with data can be loaded: reorganisations, failed writes and
\* repeated ones never leave one without network, genesis block or descriptor.
THEOREM AlwaysLoadable == Spec => []DbLoadable
<1>1. Rooted => DbLoadable
    BY DEF Rooted
<1> QED BY <1>1, RootedAlways, PTL

-----------------------------------------------------------------------------
(***************************************************************************)
(* A write never takes back what the database has.                         *)
(***************************************************************************)

\* What one step may do to a database.
Advances(d, w) ==
    /\ DescriptorsAgree(d, w)
    /\ IsEmpty(w) => IsEmpty(d)
    /\ \A k \in Keychains : w.indexer[k] >= d.indexer[k]
    /\ d.tx_graph.txs \subseteq w.tx_graph.txs
    /\ \A t \in Txs : /\ w.tx_graph.last_seen[t] >= d.tx_graph.last_seen[t]
                      /\ w.tx_graph.last_evicted[t] >= d.tx_graph.last_evicted[t]

\* Staying as it is is an advance.
LEMMA StayingAdvances ==
    ASSUME NEW d \in ChangeSets
    PROVE  Advances(d, d)
<1>1. \A k \in Keychains : d.indexer[k] \in Int
    BY BoundsAssumption DEF ChangeSets, RevealedIndex
<1>2. \A t \in Txs : d.tx_graph.last_seen[t] \in Int /\ d.tx_graph.last_evicted[t] \in Int
    BY BoundsAssumption DEF ChangeSets, Graphs, Times
<1> QED BY <1>1, <1>2 DEF Advances, DescriptorsAgree

\* With a stage that is ahead, the persister that overwrites advances as the
\* one that merges does.
LEMMA WriteAdvances ==
    ASSUME NEW d \in ChangeSets, NEW cs \in ChangeSets, Ahead(d, cs),
           NEW w \in {Merge(d, cs), PersistToSqlite(d, cs)}, IsEmpty(w) => IsEmpty(d)
    PROVE  Advances(d, w)
<1>1. w.indexer = Merge(d, cs).indexer /\ w.tx_graph = Merge(d, cs).tx_graph
    BY PersistersAgree
<1>2. w.indexer = MergeIndexer(d.indexer, cs.indexer) /\ w.tx_graph = MergeGraph(d.tx_graph, cs.tx_graph)
    BY <1>1 DEF Merge
<1>3. DescriptorsAgree(d, w)
    <2>1. /\ d.descriptor = None \/ w.descriptor = d.descriptor
          /\ d.change_descriptor = None \/ w.change_descriptor = d.change_descriptor
          /\ d.network = None \/ w.network = d.network
        BY DEF Merge, PersistToSqlite, MergeOption
    <2> QED BY <2>1 DEF DescriptorsAgree
<1>4. \A k \in Keychains : w.indexer[k] >= d.indexer[k]
    <2>1. \A k \in Keychains : d.indexer[k] \in Int /\ cs.indexer[k] \in Int
        BY BoundsAssumption DEF ChangeSets, RevealedIndex
    <2> QED BY <1>2, <2>1 DEF MergeIndexer, MaxOf
<1>5. d.tx_graph \in Graphs /\ cs.tx_graph \in Graphs
    BY DEF ChangeSets
<1>6. d.tx_graph.txs \subseteq w.tx_graph.txs
    BY <1>2, <1>5, MergeGraphFields
<1>7. ASSUME NEW t \in Txs
      PROVE  /\ w.tx_graph.last_seen[t] >= d.tx_graph.last_seen[t]
             /\ w.tx_graph.last_evicted[t] >= d.tx_graph.last_evicted[t]
    <2>1. /\ d.tx_graph.last_seen[t] \in Nat /\ cs.tx_graph.last_seen[t] \in Nat
          /\ d.tx_graph.last_evicted[t] \in Nat /\ cs.tx_graph.last_evicted[t] \in Nat
        BY <1>5, BoundsAssumption DEF Graphs, Times
    <2> QED BY <1>2, <1>5, <2>1, MergeGraphFields DEF MaxOf
<1> QED BY <1>3, <1>4, <1>6, <1>7 DEF Advances

\* Anything is an advance over an empty database.
LEMMA EmptyAdvances ==
    ASSUME NEW d, IsEmpty(d), NEW w \in ChangeSets
    PROVE  Advances(d, w)
<1>1. /\ d.descriptor = None /\ d.change_descriptor = None /\ d.network = None
      /\ d.indexer = [k \in Keychains |-> -1] /\ d.tx_graph = EmptyGraph
    BY EmptyFields DEF IsEmpty
<1>2. \A k \in Keychains : w.indexer[k] \in -1..MaxIndex
    BY DEF ChangeSets, RevealedIndex
<1>3. \A t \in Txs : w.tx_graph.last_seen[t] \in Nat /\ w.tx_graph.last_evicted[t] \in Nat
    BY BoundsAssumption DEF ChangeSets, Graphs, Times
<1>4. DescriptorsAgree(d, w)
    BY <1>1 DEF DescriptorsAgree
<1>5. \A k \in Keychains : w.indexer[k] >= d.indexer[k]
    BY <1>1, <1>2, BoundsAssumption
<1> QED BY <1>1, <1>3, <1>4, <1>5, EmptyGraphFields DEF Advances

\* Every step advances the database or leaves it.
LEMMA AdvanceStep ==
    ASSUME Durable, Rooted, [Next]_vars
    PROVE  Advances(db, db')
<1>0. db \in ChangeSets /\ stage \in ChangeSets /\ Ahead(db, stage) /\ TypeOK
    BY DEF Durable, TypeOK
<1>1. ASSUME NEW p \in CreateParams, Create(p) \/ CreateFails(p) PROVE Advances(db, db')
    <2>1. IsEmpty(db) /\ (db' = db \/ db' = Write(NewStage(p)))
        BY <1>1 DEF Create, CreateFails
    <2> QED BY <1>0, <2>1, EmptyAdvances, NewStageType, WriteType
<1>2. ASSUME Persist \/ PersistFails PROVE Advances(db, db')
    <2>1. opened /\ (db' = db \/ db' = Write(stage))
        BY <1>2 DEF Persist, PersistFails
    <2>2. CASE db' = db
        BY <1>0, <2>2, StayingAdvances
    <2>3. CASE db' = Write(stage)
        <3>1. db' \in {Merge(db, stage), PersistToSqlite(db, stage)}
            BY <2>3 DEF Write, PersistToFile
        <3>2. ~IsEmpty(db')
            BY <1>0, <2>1, <2>3, WriteKeepsLoadable DEF IsEmpty, Loadable, EmptyChangeSet
        <3> QED BY <1>0, <3>1, <3>2, WriteAdvances
    <2> QED BY <2>1, <2>2, <2>3
<1>3. ASSUME UNCHANGED db PROVE Advances(db, db')
    BY <1>0, <1>3, StayingAdvances
<1> QED BY <1>1, <1>2, <1>3 DEF Next, Load, Close, WalletOp, vars

\* No step of the wallet, and no failed or repeated write, takes back what the
\* database has: descriptors, revealed indices, times and transactions.
THEOREM NeverTakesBack == Spec => DbOnlyAdvances
<1>1. Durable /\ Rooted /\ [Next]_vars =>
        [ /\ DescriptorsAgree(db, db')
          /\ IsEmpty(db') => IsEmpty(db)
          /\ \A k \in Keychains : db'.indexer[k] >= db.indexer[k]
          /\ db.tx_graph.txs \subseteq db'.tx_graph.txs
          /\ \A t \in Txs : /\ db'.tx_graph.last_seen[t] >= db.tx_graph.last_seen[t]
                            /\ db'.tx_graph.last_evicted[t] >= db.tx_graph.last_evicted[t] ]_vars
    BY AdvanceStep DEF Advances
<1> QED BY <1>1, DurableAlways, RootedAlways, PTL DEF Spec, DbOnlyAdvances

-----------------------------------------------------------------------------
(***************************************************************************)
(* An output the wallet has found is found again.                          *)
(***************************************************************************)

\* Every output a graph holds is held after an update is applied: as it was,
\* or by the transaction that has come.
LEMMA OutputsKept ==
    ASSUME NEW g \in Graphs, NEW u \in Graphs, NEW o \in OutputsOf(g.txs) \cup g.txouts
    PROVE  o \in OutputsOf(ApplyGraph(g, u).txs) \cup ApplyGraph(g, u).txouts
<1> DEFINE m == MergeGraph(g, u)
<1>1. m \in Graphs /\ m.txs = g.txs \cup u.txs /\ m.txouts = g.txouts \cup u.txouts
    BY MergeGraphType, MergeGraphFields
<1>2. o \in Outpoints
    BY DEF Graphs, OutputsOf
<1>3. Whole(m).txs = m.txs /\ Whole(m).txouts = {x \in m.txouts : x[1] \notin m.txs}
    BY <1>1, WholeFields
<1> HIDE DEF m
<1>4. o \in OutputsOf(Whole(m).txs) \cup Whole(m).txouts
    BY <1>1, <1>2, <1>3 DEF OutputsOf
<1> QED BY <1>4 DEF ApplyGraph, m

\* So is every output that the update's difference brings.
LEMMA OutputsAdded ==
    ASSUME NEW g \in Graphs, NEW u \in Graphs,
           NEW o \in OutputsOf(GraphDiff(g, u).txs) \cup GraphDiff(g, u).txouts
    PROVE  o \in OutputsOf(ApplyGraph(g, u).txs) \cup ApplyGraph(g, u).txouts
<1> DEFINE m == MergeGraph(g, u)
           d == GraphDiff(g, u)
<1>1. m \in Graphs /\ m.txs = g.txs \cup u.txs /\ m.txouts = g.txouts \cup u.txouts
    BY MergeGraphType, MergeGraphFields
<1>2. d.txs = u.txs \ g.txs /\ d.txouts = {x \in u.txouts \ g.txouts : x[1] \notin g.txs \cup u.txs}
    BY GraphDiffFields
<1>3. Whole(m).txs = m.txs /\ Whole(m).txouts = {x \in m.txouts : x[1] \notin m.txs}
    BY <1>1, WholeFields
<1> HIDE DEF m, d
<1>4. o \in OutputsOf(d.txs) \cup d.txouts
    BY DEF d
<1>5. o \in OutputsOf(Whole(m).txs) \cup Whole(m).txouts
    BY <1>1, <1>2, <1>3, <1>4 DEF OutputsOf
<1> QED BY <1>5 DEF ApplyGraph, m

\* A script that is revealed is derived.
LEMMA RevealedIsDerived ==
    ASSUME NEW r \in [Keychains -> RevealedIndex], NEW active, active \subseteq Keychains,
           NEW o \in Outpoints, ScriptOf(o)[1] \in active, ScriptOf(o)[2] <= r[ScriptOf(o)[1]]
    PROVE  Derived(r, active, ScriptOf(o))
<1>1. ScriptOf(o)[2] \in Indices /\ r[ScriptOf(o)[1]] \in Int
    BY ScriptOfType, BoundsAssumption DEF RevealedIndex
<1> QED BY <1>1, BoundsAssumption DEF Derived, Indices

\* The state after outputs the graph has got by then are indexed.
LEMMA IndexingFinds ==
    ASSUME TypeOK, Found, opened, NEW r \in [Keychains -> RevealedIndex],
           \A k \in Keychains : r[k] >= revealed[k],
           NEW ops, ops \subseteq OutputsOf(graph'.txs) \cup graph'.txouts, ops \subseteq Outpoints,
           \A o \in ops : ScriptOf(o)[1] \in Active,
           NEW u \in Graphs, graph' = ApplyGraph(graph, u),
           indexed' = indexed \cup ops, revealed' = RevealedBy(r, ops), UNCHANGED identity
    PROVE  Found'
<1>1. Active' = Active
    BY DEF Active, identity
<1>2. /\ \A k \in Keychains : revealed'[k] >= r[k] /\ revealed'[k] \in Int
      /\ \A o \in ops : ScriptOf(o)[2] <= revealed'[ScriptOf(o)[1]]
    BY RevealedByBounds, ActiveKeychains, BoundsAssumption DEF RevealedIndex
<1>3. ASSUME NEW o \in indexed
      PROVE  /\ o \in OutputsOf(graph'.txs) \cup graph'.txouts
             /\ ScriptOf(o)[1] \in Active
             /\ ScriptOf(o)[2] <= revealed'[ScriptOf(o)[1]]
    <2>1. /\ o \in OutputsOf(graph.txs) \cup graph.txouts /\ ScriptOf(o)[1] \in Active
          /\ ScriptOf(o)[2] <= revealed[ScriptOf(o)[1]]
        BY DEF Found
    <2>2. ScriptOf(o)[1] \in Keychains /\ o \in Outpoints
        BY <2>1, ActiveKeychains DEF TypeOK
    <2>3. ScriptOf(o)[2] \in Nat
        BY <2>2, ScriptOfType, BoundsAssumption DEF Indices
    <2>4. /\ revealed[ScriptOf(o)[1]] \in Int /\ r[ScriptOf(o)[1]] \in Int
          /\ revealed'[ScriptOf(o)[1]] \in Int
          /\ r[ScriptOf(o)[1]] >= revealed[ScriptOf(o)[1]]
          /\ revealed'[ScriptOf(o)[1]] >= r[ScriptOf(o)[1]]
        BY <1>2, <2>2, BoundsAssumption DEF TypeOK, RevealedIndex
    <2>5. ScriptOf(o)[2] <= revealed'[ScriptOf(o)[1]]
        BY <2>1, <2>3, <2>4
    <2> QED BY <2>1, <2>5, OutputsKept DEF TypeOK
<1> QED BY <1>1, <1>2, <1>3 DEF Found, OutputsOf

\* apply_update indexes outputs of what it adds to the graph.
LEMMA apply_update_finds ==
    ASSUME TypeOK, Found, opened, NEW u \in UpdateRecords, apply_update(u)
    PROVE  Found'
<1> DEFINE revealed1 == RevealMulti(u.last_active_indices)
           diff == GraphDiff(graph, u.tx_update)
           outs == OutputsOf(diff.txs) \cup diff.txouts
<1>1. PICK order \in Orders(diff.txs) :
        LET ops == Matched(revealed1, Active, outs, ScanOrder(diff.txs, order))
        IN  /\ graph' = ApplyGraph(graph, u.tx_update)
            /\ IndexOutpoints(ops)
            /\ revealed' = RevealedBy(revealed1, ops)
    BY DEF apply_update
<1> DEFINE ops == Matched(revealed1, Active, outs, ScanOrder(diff.txs, order))
<1>2. /\ graph' = ApplyGraph(graph, u.tx_update)
      /\ indexed' = indexed \cup ops
      /\ revealed' = RevealedBy(revealed1, ops)
      /\ UNCHANGED identity
    BY <1>1 DEF apply_update, IndexOutpoints
<1>3. /\ graph \in Graphs /\ u.tx_update \in Graphs /\ diff \in Graphs
      /\ revealed1 \in [Keychains -> RevealedIndex]
      /\ \A k \in Keychains : revealed1[k] >= revealed[k]
    BY UpdateFields, GraphDiffType, RevealMultiType DEF TypeOK
<1>4. ops \subseteq outs /\ \A o \in ops : ScriptOf(o)[1] \in Active
    BY MatchedSubset
<1>5. outs \subseteq Outpoints
    BY <1>3 DEF OutputsOf, Graphs
<1>6. outs \subseteq OutputsOf(graph'.txs) \cup graph'.txouts
    BY <1>2, <1>3, OutputsAdded
<1> HIDE DEF ops, outs, revealed1, diff
<1> QED BY <1>2, <1>3, <1>4, <1>5, <1>6, IndexingFinds

\* An output that is indexed makes its transaction relevant, so the graph
\* gets it: its own script is revealed by then.
LEMMA IndexedIsRelevant ==
    ASSUME revealed \in [Keychains -> RevealedIndex], NEW ops, ops \subseteq Outpoints,
           NEW o \in ops, ScriptOf(o)[1] \in Active, NEW known
    PROVE  IsRelevant(RevealedBy(revealed, ops), Active, known, o[1])
<1>1. PICK t \in Txs : o \in {t} \X DOMAIN Pays[t]
    BY DEF Outpoints
<1>2. o[1] = t /\ o[2] \in DOMAIN Pays[t]
    BY <1>1
<1>3. Derived(RevealedBy(revealed, ops), Active, ScriptOf(o))
    BY RevealedByBounds, RevealedIsDerived, ActiveKeychains
<1> QED BY <1>2, <1>3 DEF IsRelevant, ScriptOf

\* apply_block_connected_to keeps every transaction whose output it indexes.
LEMMA apply_block_finds ==
    ASSUME TypeOK, Found, opened, NEW b \in Hashes, NEW connected_to \in Hashes,
           apply_block_connected_to(b, connected_to)
    PROVE  Found'
<1> DEFINE pos == BlockTxs[b]
           txs == DOMAIN pos
           ops == Matched(revealed, Active, OutputsOf(txs), pos)
           upto(t) == {o \in ops : pos[o[1]] <= pos[t]}
           relevant == {t \in txs : IsRelevant(RevealedBy(revealed, upto(t)), Active,
                                               indexed \cup upto(t), t)}
           found == [EmptyGraph EXCEPT !.txs = relevant, !.anchors = {b} \X relevant]
<1>1. /\ graph' = ApplyGraph(graph, found)
      /\ indexed' = indexed \cup ops
      /\ revealed' = RevealedBy(revealed, ops)
      /\ UNCHANGED identity
    BY DEF apply_block_connected_to, IndexOutpoints
<1>2. ops \subseteq OutputsOf(txs) /\ ops \subseteq Outpoints /\ \A o \in ops : ScriptOf(o)[1] \in Active
    BY MatchedSubset DEF OutputsOf
<1>3. ASSUME NEW o \in ops PROVE o[1] \in relevant
    <2>1. o[1] \in txs
        BY <1>2 DEF OutputsOf
    <2>2. pos[o[1]] \in Nat
        BY <2>1, InputsAssumption
    <2>3. o \in upto(o[1]) /\ upto(o[1]) \subseteq Outpoints
        BY <1>2, <2>2
    <2> HIDE DEF upto, ops
    <2>4. IsRelevant(RevealedBy(revealed, upto(o[1])), Active, indexed \cup upto(o[1]), o[1])
        BY <1>2, <2>3, IndexedIsRelevant DEF TypeOK
    <2> QED BY <2>1, <2>4
<1>4. found \in Graphs /\ found.txs = relevant
    <2>1. relevant \subseteq Txs
        BY InputsAssumption
    <2>2. {b} \X relevant \subseteq Anchors
        BY <2>1 DEF Anchors
    <2> HIDE DEF relevant
    <2> QED BY <2>1, <2>2, EmptyGraphType DEF Graphs, EmptyGraph
<1> HIDE DEF found, relevant, ops
<1>5. ops \subseteq OutputsOf(graph'.txs)
    <2>1. MergeGraph(graph, found).txs = graph.txs \cup relevant
        BY <1>4, MergeGraphFields DEF TypeOK
    <2>2. graph'.txs = graph.txs \cup relevant
        BY <1>1, <1>4, <2>1, MergeGraphType, WholeFields DEF TypeOK, ApplyGraph
    <2> QED BY <1>2, <1>3, <2>2 DEF OutputsOf
<1>6. revealed \in [Keychains -> RevealedIndex] /\ \A k \in Keychains : revealed[k] >= revealed[k]
    BY BoundsAssumption DEF TypeOK, RevealedIndex
<1> QED BY <1>1, <1>2, <1>4, <1>5, <1>6, IndexingFinds

\* apply_unconfirmed_txs keeps every transaction whose output it indexes.
LEMMA apply_unconfirmed_finds ==
    ASSUME TypeOK, Found, opened, NEW batch \in Batches, apply_unconfirmed_txs(batch)
    PROVE  Found'
<1> DEFINE txs == {t \in Txs : batch[t] > 0}
           opsOf(order) == Matched(revealed, Active, OutputsOf(txs), order)
           relevantOf(order) == {t \in txs : IsRelevant(RevealedBy(revealed, opsOf(order)), Active,
                                                        indexed \cup opsOf(order), t)}
<1>1. PICK order \in Orders(txs) :
        /\ graph' = ApplyGraph(graph, SeenUpdate(relevantOf(order), batch))
        /\ IndexOutpoints(opsOf(order))
        /\ revealed' = RevealedBy(revealed, opsOf(order))
    BY DEF apply_unconfirmed_txs
<1> DEFINE ops == opsOf(order)
           relevant == relevantOf(order)
           seen == SeenUpdate(relevant, batch)
<1>2. /\ graph' = ApplyGraph(graph, seen)
      /\ indexed' = indexed \cup ops
      /\ revealed' = RevealedBy(revealed, ops)
      /\ UNCHANGED identity
    BY <1>1 DEF apply_unconfirmed_txs, IndexOutpoints
<1>3. ops \subseteq OutputsOf(txs) /\ ops \subseteq Outpoints /\ \A o \in ops : ScriptOf(o)[1] \in Active
    BY MatchedSubset DEF OutputsOf
<1>4. relevant = {t \in txs : IsRelevant(RevealedBy(revealed, ops), Active, indexed \cup ops, t)}
    OBVIOUS
<1>5. relevant \subseteq Txs
    OBVIOUS
<1> HIDE DEF ops, relevant, opsOf, relevantOf
<1>6. ASSUME NEW o \in ops PROVE o[1] \in relevant
    BY <1>3, <1>4, IndexedIsRelevant DEF TypeOK, OutputsOf
<1>7. seen \in Graphs /\ seen.txs = relevant
    BY <1>5, SeenUpdateType DEF SeenUpdate, EmptyGraph
<1> HIDE DEF seen
<1>8. ops \subseteq OutputsOf(graph'.txs)
    <2>1. MergeGraph(graph, seen).txs = graph.txs \cup relevant
        BY <1>7, MergeGraphFields DEF TypeOK
    <2>2. graph'.txs = graph.txs \cup relevant
        BY <1>2, <1>7, <2>1, MergeGraphType, WholeFields DEF TypeOK, ApplyGraph
    <2> QED BY <1>3, <1>6, <2>2 DEF OutputsOf
<1>9. revealed \in [Keychains -> RevealedIndex] /\ \A k \in Keychains : revealed[k] >= revealed[k]
    BY BoundsAssumption DEF TypeOK, RevealedIndex
<1> QED BY <1>2, <1>3, <1>7, <1>8, <1>9, IndexingFinds

\* Applying chain data indexes only outputs that the graph then holds.
LEMMA ChainOpFinds ==
    ASSUME TypeOK, Found, opened, ChainOp
    PROVE  Found'
<1>1. ASSUME NEW u \in Updates, apply_update(u) PROVE Found'
    BY <1>1, apply_update_finds, InputsAssumption
<1>2. ASSUME NEW o \in Floating, insert_txout(o) PROVE Found'
    BY <1>2, apply_update_finds, insert_txout_update DEF insert_txout
<1>3. ASSUME NEW b \in Blocks, NEW c \in Ancestors(b) \cup {b}, apply_block_connected_to(b, c)
      PROVE  Found'
    <2>1. b \in Hashes /\ c \in Hashes
        BY InputsAssumption DEF Ancestors
    <2> QED BY <1>3, <2>1, apply_block_finds
<1>4. ASSUME NEW batch \in Batches, apply_unconfirmed_txs(batch) PROVE Found'
    BY <1>4, apply_unconfirmed_finds
<1>5. ASSUME NEW evicted \in Evictions, apply_evicted_txs(evicted) PROVE Found'
    BY <1>5, apply_update_finds, EvictedUpdateType DEF apply_evicted_txs
<1> QED BY <1>1, <1>2, <1>3, <1>4, <1>5 DEF ChainOp

\* A step that changes nothing of the index but reveals more.
LEMMA RevealingFinds ==
    ASSUME TypeOK, TypeOK', Found, opened, \A k \in Keychains : revealed'[k] >= revealed[k],
           UNCHANGED <<identity, graph, indexed>>
    PROVE  Found'
<1>1. Active' = Active
    BY DEF Active, identity
<1>2. ASSUME NEW o \in indexed PROVE ScriptOf(o)[2] <= revealed'[ScriptOf(o)[1]]
    <2>1. ScriptOf(o)[1] \in Keychains /\ ScriptOf(o)[2] <= revealed[ScriptOf(o)[1]]
        BY ActiveKeychains DEF Found
    <2>2. ScriptOf(o)[2] \in Nat
        BY ScriptOfType, BoundsAssumption DEF Indices, TypeOK
    <2>3. revealed[ScriptOf(o)[1]] \in Int /\ revealed'[ScriptOf(o)[1]] \in Int
        BY <2>1, BoundsAssumption DEF TypeOK, RevealedIndex
    <2> QED BY <2>1, <2>2, <2>3
<1> QED BY <1>1, <1>2 DEF Found

\* load indexes outputs of the graph it loads.
LEMMA LoadFinds ==
    ASSUME TypeOK, NEW p \in LoadParams, Load(p)
    PROVE  Found'
<1> DEFINE image == LoadImage(db)
           opsOf(order) == Reindexed(image, order)
<1>1. PICK order \in Orders(image.graph.txs) :
        indexed' = opsOf(order) /\ revealed' = RevealedBy(image.revealed, opsOf(order))
    BY DEF Load
<1> DEFINE ops == opsOf(order)
<1>2. graph' = image.graph /\ change_descriptor' = image.change_descriptor
    BY DEF Load
<1>3. /\ ops \subseteq OutputsOf(image.graph.txs) \cup image.graph.txouts
      /\ \A o \in ops : ScriptOf(o)[1] \in KeychainsOf(image.change_descriptor)
    BY MatchedSubset DEF Reindexed
<1>4. ops \subseteq Outpoints /\ image.revealed \in [Keychains -> RevealedIndex]
    BY ReindexedType, LoadImageType DEF TypeOK
<1>5. KeychainsOf(image.change_descriptor) \subseteq Keychains
    BY DEF KeychainsOf, Keychains
<1> HIDE DEF image, opsOf
<1>6. \A o \in ops : ScriptOf(o)[2] <= revealed'[ScriptOf(o)[1]]
    BY <1>1, <1>3, <1>4, <1>5, RevealedByBounds
<1> QED BY <1>1, <1>2, <1>3, <1>6 DEF Found, Active, OutputsOf

\* Every step keeps what is indexed findable.
LEMMA FoundStep ==
    ASSUME Durable, Found, [Next]_vars
    PROVE  Found'
<1>0. TypeOK /\ TypeOK'
    BY TypeStep DEF Durable
<1>1. ASSUME NEW p \in CreateParams, Create(p) PROVE Found'
    <2>1. indexed' = {}
        BY <1>1 DEF Create, Durable, Blank, index
    <2> QED BY <2>1 DEF Found
<1>2. ASSUME NEW p \in CreateParams, CreateFails(p) PROVE Found'
    BY <1>2 DEF CreateFails, Found
<1>3. ASSUME NEW p \in LoadParams, Load(p) PROVE Found'
    BY <1>0, <1>3, LoadFinds
<1>4. ASSUME Persist \/ PersistFails PROVE Found'
    <2>1. UNCHANGED <<identity, graph, revealed, indexed>> /\ opened
        BY <1>4 DEF Persist, PersistFails, walletVars, index
    <2>2. \A k \in Keychains : revealed'[k] >= revealed[k]
        BY <1>0, <2>1, BoundsAssumption DEF TypeOK, RevealedIndex
    <2> QED BY <1>0, <2>1, <2>2, RevealingFinds
<1>5. ASSUME Close PROVE Found'
    BY <1>5 DEF Close, Found
<1>6. ASSUME WalletOp PROVE Found'
    <2>1. CASE UserOp
        BY <1>0, <1>6, <2>1, UserOpLeaves, RevealingFinds DEF WalletOp
    <2>2. CASE ChainOp
        BY <1>0, <1>6, <2>2, ChainOpFinds DEF WalletOp
    <2> QED BY <1>6, <2>1, <2>2 DEF WalletOp
<1>7. ASSUME UNCHANGED vars PROVE Found'
    BY <1>7 DEF vars, walletVars, identity, index, Found, Active, OutputsOf
<1> QED BY <1>1, <1>2, <1>3, <1>4, <1>5, <1>6, <1>7 DEF Next

\* Whatever load walks first, a revealed script of the graph is found again.
LEMMA FoundIsReindexed ==
    ASSUME Durable, Found
    PROVE  ReloadKeepsIndexed
<1> SUFFICES ASSUME opened, NEW order, NEW o \in indexed
             PROVE  o \in Reindexed(LoadImage(Write(stage)), order)
    BY DEF ReloadKeepsIndexed
<1>1. LoadImage(Write(stage)) = MemoryImage
    BY DEF Durable, StageCompletesDb
<1>2. o \in Outpoints /\ revealed \in [Keychains -> RevealedIndex]
    BY DEF Durable, TypeOK
<1>3. Derived(revealed, Active, ScriptOf(o)) /\ ScriptOf(o)[1] \in Active
    BY <1>2, RevealedIsDerived, ActiveKeychains DEF Found
<1>4. o \in OutputsOf(graph.txs) \cup graph.txouts
    BY DEF Found
<1>5. /\ MemoryImage.revealed = revealed /\ MemoryImage.graph = graph
      /\ KeychainsOf(MemoryImage.change_descriptor) = Active
    BY DEF MemoryImage, Active
<1>6. o \in Matched(revealed, Active, OutputsOf(graph.txs) \cup graph.txouts, ScanOrder(graph.txs, order))
    BY <1>3, <1>4 DEF Matched
<1> QED BY <1>1, <1>5, <1>6 DEF Reindexed

\* An output the wallet has found is found again by any load of what is
\* persisted, in whatever order the stored transactions are walked.
THEOREM FoundStaysFound == Spec => []ReloadKeepsIndexed
<1>1. Init => Found
    BY DEF Init, Found
<1>2. Durable /\ Found /\ [Next]_vars => Found'
    BY FoundStep
<1>3. Durable /\ Found => ReloadKeepsIndexed
    BY FoundIsReindexed
<1> QED BY <1>1, <1>2, <1>3, DurableAlways, PTL DEF Spec

-----------------------------------------------------------------------------
(***************************************************************************)
(* A wallet whose stage is persisted before it is closed hands out no      *)
(* address twice.  A used wallet is a persisted wallet, so all that is     *)
(* proved of PersistedWallet holds there; what is added is that every      *)
(* script handed out stays revealed, by memory while the wallet is open    *)
(* and by the database while it is not.                                    *)
(***************************************************************************)
\* The last revealed index a handed out script is compared with.
Known(k) == IF opened THEN revealed[k] ELSE db.indexer[k]

\* A script handed out once is revealed.
Handed ==
    /\ revealed_to_user \in [Scripts -> {0, 1}]
    /\ \A s \in Scripts : revealed_to_user[s] = 1 => s[2] <= Known(s[1])

\* A script used for change since the wallet was opened is revealed and used.
Changed ==
    /\ session_change \in [Scripts -> {0, 1}]
    /\ \A s \in Scripts : session_change[s] = 1 =>
            opened /\ s \in used /\ s[2] <= revealed[s[1]]

-----------------------------------------------------------------------------
\* A script is a keychain and an index.
LEMMA ScriptParts ==
    ASSUME NEW s \in Scripts
    PROVE  s[1] \in Keychains /\ s[2] \in Nat /\ s = <<s[1], s[2]>>
BY BoundsAssumption DEF Scripts, Indices

\* Handing out a script for the first time.
LEMMA CountFirst ==
    ASSUME NEW f \in [Scripts -> {0, 1}], NEW s \in Scripts, f[s] # 1
    PROVE  /\ Count(f, s) \in [Scripts -> {0, 1}]
           /\ \A r \in Scripts : Count(f, s)[r] = 1 => f[r] = 1 \/ r = s
BY DEF Count

\* The use the docs ask for is one of the uses of a persisted wallet.
LEMMA ReuseIsPersisted == ReuseSpec => Spec
<1>1. ReuseInit => Init
    BY DEF ReuseInit
<1>2. [ReuseNext]_reuseVars => [Next]_vars
    <2>1. ASSUME NEW k \in Keychains, RevealNext(k) PROVE WalletOp
        BY <2>1 DEF RevealNext, InMemory, WalletOp, UserOp
    <2>2. ASSUME CreateTx PROVE WalletOp
        BY <2>2 DEF CreateTx, InMemory, WalletOp, UserOp
    <2>3. ASSUME OtherOp PROVE WalletOp
        <3>1. ASSUME NEW k \in Keychains, NEW i \in Indices, InMemory(reveal_addresses_to(k, i))
              PROVE  WalletOp
            <4>1. i \in 0..MaxIndex + 1
                BY BoundsAssumption DEF Indices
            <4>2. UserOp
                BY <3>1, <4>1 DEF InMemory, UserOp
            <4> QED BY <3>1, <4>2 DEF InMemory, WalletOp
        <3>2. ASSUME NEW batch \in Batches, InMemory(apply_unconfirmed_txs(batch)) PROVE WalletOp
            BY <3>2 DEF InMemory, WalletOp, ChainOp
        <3> QED BY <2>3, <3>1, <3>2 DEF OtherOp
    <2>4. CloseAfterPersist => Close
        BY DEF CloseAfterPersist
    <2>5. Reopen => Next
        BY DEF Reopen, Next
    <2>6. UNCHANGED reuseVars => UNCHANGED vars
        BY DEF reuseVars
    <2> QED BY <2>1, <2>2, <2>3, <2>4, <2>5, <2>6 DEF ReuseNext, Next
<1> QED BY <1>1, <1>2, PTL DEF ReuseSpec, Spec

\* Applying a batch of unconfirmed transactions takes nothing out of the index.
LEMMA UnconfirmedGrows ==
    ASSUME TypeOK, NEW batch \in Batches, apply_unconfirmed_txs(batch)
    PROVE  used \subseteq used' /\ \A k \in Keychains : revealed'[k] >= revealed[k]
<1> DEFINE txs == {t \in Txs : batch[t] > 0}
           ops(order) == Matched(revealed, Active, OutputsOf(txs), order)
<1>1. PICK order \in Orders(txs) :
        IndexOutpoints(ops(order)) /\ revealed' = RevealedBy(revealed, ops(order))
    BY DEF apply_unconfirmed_txs
<1>2. ops(order) \subseteq Outpoints
    BY MatchedSubset DEF OutputsOf
<1> HIDE DEF ops
<1> QED BY <1>1, <1>2, RevealedByBounds DEF IndexOutpoints, TypeOK

\* The methods that hand out no fresh address reveal more and use more.
LEMMA OtherOpGrows ==
    ASSUME TypeOK, OtherOp
    PROVE  /\ opened /\ opened' /\ UNCHANGED ghosts
           /\ used \subseteq used'
           /\ \A k \in Keychains : revealed'[k] >= revealed[k]
<1>1. ASSUME NEW k \in Keychains, NEW i \in Indices, InMemory(reveal_addresses_to(k, i))
      PROVE  opened /\ opened' /\ used \subseteq used' /\ \A j \in Keychains : revealed'[j] >= revealed[j]
    <2>1. i \in 0..MaxIndex + 1
        BY BoundsAssumption DEF Indices
    <2>2. UserOp
        BY <1>1, <2>1 DEF InMemory, UserOp
    <2> QED BY <1>1, <2>2, UserOpLeaves DEF InMemory, reveal_addresses_to
<1>2. ASSUME NEW batch \in Batches, InMemory(apply_unconfirmed_txs(batch))
      PROVE  opened /\ opened' /\ used \subseteq used' /\ \A j \in Keychains : revealed'[j] >= revealed[j]
    BY <1>2, UnconfirmedGrows DEF InMemory
<1> QED BY <1>1, <1>2 DEF OtherOp

\* What is known to be revealed never goes back while a wallet is opened,
\* closed after a persist, loaded and written.
LEMMA KnownGrows ==
    ASSUME Durable, TypeOK', Reopen \/ CloseAfterPersist, NEW k \in Keychains
    PROVE  Known(k)' >= Known(k)
<1>0. /\ revealed[k] \in Int /\ revealed'[k] \in Int
      /\ db.indexer[k] \in -1..MaxIndex /\ db'.indexer[k] \in Int
    BY BoundsAssumption DEF Durable, TypeOK, RevealedIndex, ChangeSets
<1>1. ASSUME NEW p \in CreateParams, Create(p) PROVE Known(k)' >= Known(k)
    <2>1. ~opened /\ opened' /\ revealed' = revealed /\ IsEmpty(db)
        BY <1>1 DEF Create, index
    <2>2. revealed[k] = -1 /\ db.indexer[k] = -1
        BY <2>1, EmptyFields DEF Durable, Blank, IsEmpty
    <2> QED BY <2>1, <2>2 DEF Known
<1>2. ASSUME NEW p \in LoadParams, Load(p) PROVE Known(k)' >= Known(k)
    <2>1. ~opened /\ opened'
        BY <1>2 DEF Load
    <2>2. PICK order : revealed' = RevealedBy(LoadImage(db).revealed, Reindexed(LoadImage(db), order))
        BY <1>2 DEF Load
    <2>3. revealed'[k] >= LoadImage(db).revealed[k]
        BY <2>2, ReindexedType, LoadImageType, RevealedByBounds DEF Durable, TypeOK
    <2>4. LoadImage(db).revealed = db.indexer
        BY DEF LoadImage
    <2> QED BY <2>1, <2>3, <2>4 DEF Known
<1>3. ASSUME Persist \/ PersistFails PROVE Known(k)' >= Known(k)
    <2>1. opened /\ opened' /\ revealed' = revealed
        BY <1>3 DEF Persist, PersistFails, walletVars, index
    <2> QED BY <1>0, <2>1 DEF Known
<1>4. ASSUME CloseAfterPersist PROVE Known(k)' >= Known(k)
    <2>1. opened /\ ~opened' /\ stage = EmptyChangeSet /\ db' = db
        BY <1>4 DEF CloseAfterPersist, Close, IsEmpty
    <2>2. revealed = MergeIndexer(db.indexer, stage.indexer)
        BY <2>1, MemoryIsMerge
    <2>3. revealed[k] = MaxOf(db.indexer[k], -1)
        BY <2>1, <2>2, EmptyFields DEF MergeIndexer
    <2> QED BY <1>0, <2>1, <2>3 DEF Known, MaxOf
<1> QED BY <1>1, <1>2, <1>3, <1>4 DEF Reopen

\* reveal_next_address moves one past everything handed out.
LEMMA RevealNextIsNew ==
    ASSUME TypeOK, NEW k \in Keychains, RevealNext(k)
    PROVE  /\ opened /\ opened' /\ used' = used
           /\ map_keychain(k) \in Keychains
           /\ revealed'[map_keychain(k)] = revealed[map_keychain(k)] + 1
           /\ <<map_keychain(k), revealed'[map_keychain(k)]>> \in Scripts
           /\ \A j \in Keychains : revealed'[j] >= revealed[j]
<1> DEFINE m == map_keychain(k)
<1>1. m \in Keychains /\ revealed \in [Keychains -> RevealedIndex] /\ revealed[m] < MaxIndex
    BY ActiveKeychains DEF TypeOK, RevealNext
<1>2. revealed' = RevealTo(revealed, m, NextIndex(revealed, m)) /\ opened /\ opened' /\ used' = used
    BY DEF RevealNext, InMemory, reveal_next_address, Reveal
<1> HIDE DEF m
<1>3. revealed[m] \in -1..MaxIndex /\ NextIndex(revealed, m) = revealed[m] + 1
    BY <1>1 DEF RevealedIndex, NextIndex
<1>4. revealed'[m] = revealed[m] + 1
    BY <1>1, <1>2, <1>3, BoundsAssumption DEF RevealTo, MaxOf
<1>5. revealed'[m] \in Indices
    BY <1>1, <1>3, <1>4, BoundsAssumption DEF Indices
<1>6. NextIndex(revealed, m) \in Nat
    BY <1>1, NextIndexType, BoundsAssumption DEF Indices
<1>7. \A j \in Keychains : revealed'[j] >= revealed[j]
    BY <1>1, <1>2, <1>6, RevealToType
<1> QED BY <1>1, <1>2, <1>4, <1>5, <1>7 DEF Scripts, m

\* The change script of create_tx is unused, or not revealed yet; afterwards
\* it is both.
LEMMA ChangeIsNew ==
    ASSUME TypeOK, CreateTx
    PROVE  LET s == <<map_keychain("Internal"), ChangeIndex>>
           IN  /\ opened /\ opened'
               /\ s \in Scripts
               /\ s \notin used \/ s[2] > revealed[s[1]]
               /\ used' = used \cup {s}
               /\ s[2] <= revealed'[s[1]]
               /\ \A j \in Keychains : revealed'[j] >= revealed[j]
<1> DEFINE k == map_keychain("Internal")
           c == ChangeIndex
<1>1. k \in Keychains /\ revealed \in [Keychains -> RevealedIndex]
    BY ActiveKeychains DEF TypeOK, Keychains
<1>2. c \in Indices /\ c = FirstUnused(k)
    BY <1>1, FirstUnusedType DEF ChangeIndex
<1>3. /\ opened /\ opened' /\ used' = used \cup {<<k, c>>}
      /\ revealed' = RevealTo(revealed, k, c)
      /\ Unused(k) # {} \/ revealed[k] < MaxIndex
    BY DEF CreateTx, InMemory, create_tx, Reveal
<1> HIDE DEF k, c
<1>4. <<k, c>> \in Scripts
    BY <1>1, <1>2 DEF Scripts
<1>5. <<k, c>> \notin used \/ c > revealed[k]
    <2>1. CASE Unused(k) # {}
        <3>1. Unused(k) \subseteq Nat
            BY BoundsAssumption DEF Unused, Indices
        <3>2. Min(Unused(k)) \in Unused(k)
            BY <2>1, <3>1, NatMin DEF Min
        <3> QED BY <1>2, <2>1, <3>2 DEF FirstUnused, Unused
    <2>2. CASE Unused(k) = {}
        <3>1. c = revealed[k] + 1
            BY <1>2, <1>3, <2>2 DEF FirstUnused, NextIndex
        <3> QED BY <1>1, <3>1, BoundsAssumption DEF RevealedIndex
    <2> QED BY <2>1, <2>2
<1>6. c <= revealed'[k]
    BY <1>1, <1>2, <1>3, BoundsAssumption DEF RevealTo, MaxOf, Indices, RevealedIndex
<1>7. \A j \in Keychains : revealed'[j] >= revealed[j]
    BY <1>1, <1>2, <1>3, RevealToType, BoundsAssumption DEF Indices
<1> QED BY <1>3, <1>4, <1>5, <1>6, <1>7 DEF k, c

-----------------------------------------------------------------------------
(***************************************************************************)
(* Addresses handed out.                                                   *)
(***************************************************************************)

\* Handed out scripts stay revealed when what is known grows.
LEMMA HandedStays ==
    ASSUME Handed, TypeOK, TypeOK', UNCHANGED revealed_to_user,
           \A k \in Keychains : Known(k)' >= Known(k)
    PROVE  Handed'
<1>1. \A k \in Keychains : Known(k) \in Int /\ Known(k)' \in Int
    BY BoundsAssumption DEF Known, TypeOK, ChangeSets, RevealedIndex
<1>2. ASSUME NEW s \in Scripts, revealed_to_user'[s] = 1 PROVE s[2] <= Known(s[1])'
    <2>1. s[2] \in Nat /\ s[1] \in Keychains /\ s[2] <= Known(s[1])
        BY <1>2, ScriptParts DEF Handed
    <2>2. Known(s[1])' >= Known(s[1]) /\ Known(s[1]) \in Int /\ Known(s[1])' \in Int
        BY <1>1, <2>1
    <2> QED BY <2>1, <2>2
<1> QED BY <1>2 DEF Handed

\* Every step keeps what is handed out revealed, and hands out nothing twice.
LEMMA HandedStep ==
    ASSUME Durable, TypeOK', Handed, [ReuseNext]_reuseVars
    PROVE  Handed'
<1>0. TypeOK
    BY DEF Durable
<1>1. ASSUME NEW k \in Keychains, RevealNext(k) PROVE Handed'
    <2> DEFINE s == <<map_keychain(k), revealed'[map_keychain(k)]>>
    <2>1. /\ opened /\ opened' /\ s[1] \in Keychains /\ s \in Scripts
          /\ s[1] = map_keychain(k) /\ s[2] = revealed'[map_keychain(k)]
          /\ revealed'[s[1]] = revealed[s[1]] + 1 /\ s[2] = revealed'[s[1]]
          /\ \A j \in Keychains : revealed'[j] >= revealed[j]
        BY <1>0, <1>1, RevealNextIsNew
    <2>2. revealed_to_user' = Count(revealed_to_user, s)
        BY <1>1 DEF RevealNext
    <2> HIDE DEF s
    <2>3. \A j \in Keychains : revealed[j] \in Int /\ revealed'[j] \in Int
        BY <1>0, BoundsAssumption DEF TypeOK, RevealedIndex
    <2>4. revealed_to_user[s] # 1
        <3>1. SUFFICES ASSUME revealed_to_user[s] = 1 PROVE FALSE
            OBVIOUS
        <3>2. s[2] <= revealed[s[1]]
            BY <2>1, <3>1 DEF Handed, Known
        <3> QED BY <2>1, <2>3, <3>2
    <2>5. /\ revealed_to_user' \in [Scripts -> {0, 1}]
          /\ \A r \in Scripts : revealed_to_user'[r] = 1 => revealed_to_user[r] = 1 \/ r = s
        BY <2>1, <2>2, <2>4, CountFirst DEF Handed
    <2>6. ASSUME NEW r \in Scripts, revealed_to_user'[r] = 1 PROVE r[2] <= revealed'[r[1]]
        <3>1. r[1] \in Keychains /\ r[2] \in Nat
            BY ScriptParts
        <3>2. CASE revealed_to_user[r] = 1
            <4>1. r[2] <= revealed[r[1]]
                BY <2>1, <3>2 DEF Handed, Known
            <4>2. revealed'[r[1]] >= revealed[r[1]] /\ revealed[r[1]] \in Int /\ revealed'[r[1]] \in Int
                BY <2>1, <2>3, <3>1
            <4> QED BY <3>1, <4>1, <4>2
        <3>3. CASE r = s
            BY <2>1, <2>3, <3>1, <3>3
        <3> QED BY <2>5, <2>6, <3>2, <3>3
    <2> QED BY <2>1, <2>5, <2>6 DEF Handed, Known
<1>2. ASSUME CreateTx PROVE Handed'
    <2>1. \A k \in Keychains : Known(k)' >= Known(k)
        BY <1>0, <1>2, ChangeIsNew DEF Known
    <2> QED BY <1>0, <1>2, <2>1, HandedStays DEF CreateTx
<1>3. ASSUME OtherOp PROVE Handed'
    <2>1. \A k \in Keychains : Known(k)' >= Known(k)
        BY <1>0, <1>3, OtherOpGrows DEF Known
    <2> QED BY <1>0, <1>3, <2>1, OtherOpGrows, HandedStays DEF ghosts
<1>4. ASSUME CloseAfterPersist \/ Reopen PROVE Handed'
    <2>1. \A k \in Keychains : Known(k)' >= Known(k)
        BY <1>4, KnownGrows
    <2> QED BY <1>0, <1>4, <2>1, HandedStays DEF CloseAfterPersist, Reopen, ghosts
<1>5. ASSUME UNCHANGED reuseVars PROVE Handed'
    BY <1>5 DEF reuseVars, ghosts, vars, walletVars, index, Handed, Known
<1> QED BY <1>1, <1>2, <1>3, <1>4, <1>5 DEF ReuseNext

\* reveal_next_address never returns the same address twice, over any number
\* of restarts and failed writes, as long as the stage is persisted before the
\* wallet is closed.
THEOREM NoAddressTwice == ReuseSpec => []RevealedOnce
<1>1. ReuseInit => Handed
    BY DEF ReuseInit, Handed, Zero
<1>2. Durable /\ TypeOK' /\ Handed /\ [ReuseNext]_reuseVars => Handed'
    BY HandedStep
<1>3. Handed => RevealedOnce
    <2> SUFFICES ASSUME Handed, NEW s \in Scripts PROVE revealed_to_user[s] <= 1
        BY DEF RevealedOnce
    <2>1. revealed_to_user[s] \in {0, 1}
        BY DEF Handed
    <2> QED BY <2>1
<1>4. Durable => TypeOK
    BY DEF Durable
<1> QED BY <1>1, <1>2, <1>3, <1>4, ReuseIsPersisted, DurableAlways, PTL DEF ReuseSpec

-----------------------------------------------------------------------------
(***************************************************************************)
(* Change scripts.                                                         *)
(***************************************************************************)

\* Change scripts stay used and revealed when the index grows.
LEMMA ChangedStays ==
    ASSUME Changed, TypeOK, TypeOK', UNCHANGED session_change, opened',
           used \subseteq used', \A k \in Keychains : revealed'[k] >= revealed[k]
    PROVE  Changed'
<1>1. \A k \in Keychains : revealed[k] \in Int /\ revealed'[k] \in Int
    BY BoundsAssumption DEF TypeOK, RevealedIndex
<1>2. ASSUME NEW s \in Scripts, session_change'[s] = 1
      PROVE  s \in used' /\ s[2] <= revealed'[s[1]]
    <2>1. s[2] \in Nat /\ s[1] \in Keychains /\ s[2] <= revealed[s[1]] /\ s \in used
        BY <1>2, ScriptParts DEF Changed
    <2>2. revealed'[s[1]] >= revealed[s[1]] /\ revealed[s[1]] \in Int /\ revealed'[s[1]] \in Int
        BY <1>1, <2>1
    <2> QED BY <2>1, <2>2
<1> QED BY <1>2 DEF Changed

\* Every step keeps change scripts used, and uses none twice.
LEMMA ChangedStep ==
    ASSUME TypeOK, TypeOK', Changed, [ReuseNext]_reuseVars
    PROVE  Changed'
<1>1. ASSUME NEW k \in Keychains, RevealNext(k) PROVE Changed'
    BY <1>1, RevealNextIsNew, ChangedStays DEF RevealNext
<1>2. ASSUME CreateTx PROVE Changed'
    <2> DEFINE s == <<map_keychain("Internal"), ChangeIndex>>
    <2>1. /\ opened /\ opened' /\ s \in Scripts
          /\ s \notin used \/ s[2] > revealed[s[1]]
          /\ used' = used \cup {s} /\ s[2] <= revealed'[s[1]]
          /\ \A j \in Keychains : revealed'[j] >= revealed[j]
        BY <1>2, ChangeIsNew
    <2>2. session_change' = Count(session_change, s)
        BY <1>2 DEF CreateTx
    <2> HIDE DEF s
    <2>3. \A j \in Keychains : revealed[j] \in Int /\ revealed'[j] \in Int
        BY BoundsAssumption DEF TypeOK, RevealedIndex
    <2>4. session_change[s] # 1
        <3>1. SUFFICES ASSUME session_change[s] = 1 PROVE FALSE
            OBVIOUS
        <3>2. s \in used /\ s[2] <= revealed[s[1]] /\ s[1] \in Keychains /\ s[2] \in Nat
            BY <2>1, <3>1, ScriptParts DEF Changed
        <3> QED BY <2>1, <2>3, <3>2
    <2>5. /\ session_change' \in [Scripts -> {0, 1}]
          /\ \A r \in Scripts : session_change'[r] = 1 => session_change[r] = 1 \/ r = s
        BY <2>1, <2>2, <2>4, CountFirst DEF Changed
    <2>6. ASSUME NEW r \in Scripts, session_change'[r] = 1
          PROVE  r \in used' /\ r[2] <= revealed'[r[1]]
        <3>1. CASE session_change[r] = 1
            <4>1. r[1] \in Keychains /\ r[2] \in Nat /\ r \in used /\ r[2] <= revealed[r[1]]
                BY <3>1, ScriptParts DEF Changed
            <4>2. revealed'[r[1]] >= revealed[r[1]] /\ revealed[r[1]] \in Int /\ revealed'[r[1]] \in Int
                BY <2>1, <2>3, <4>1
            <4> QED BY <2>1, <4>1, <4>2
        <3>2. CASE r = s
            BY <2>1, <3>2
        <3> QED BY <2>5, <2>6, <3>1, <3>2
    <2> QED BY <2>1, <2>5, <2>6 DEF Changed
<1>3. ASSUME OtherOp PROVE Changed'
    BY <1>3, OtherOpGrows, ChangedStays DEF ghosts
<1>4. ASSUME CloseAfterPersist PROVE Changed'
    <2>1. session_change' = Zero
        BY <1>4 DEF CloseAfterPersist
    <2> QED BY <2>1 DEF Changed, Zero
<1>5. ASSUME Reopen, opened PROVE Changed'
    <2>1. opened' /\ UNCHANGED <<index, session_change>>
        BY <1>5 DEF Reopen, Create, Load, Persist, PersistFails, walletVars, ghosts
    <2> QED BY <2>1, ChangedStays, BoundsAssumption DEF index, TypeOK, RevealedIndex
<1>6. ASSUME Reopen, ~opened PROVE Changed'
    <2>1. UNCHANGED session_change
        BY <1>6 DEF Reopen, ghosts
    <2> QED BY <1>6, <2>1 DEF Changed
<1>7. ASSUME UNCHANGED reuseVars PROVE Changed'
    BY <1>7 DEF reuseVars, ghosts, vars, walletVars, index, Changed
<1> QED BY <1>1, <1>2, <1>3, <1>4, <1>5, <1>6, <1>7 DEF ReuseNext

\* Between opening and closing a wallet no two transactions get the same
\* change script.
THEOREM NoChangeTwice == ReuseSpec => []ChangeOncePerSession
<1>1. ReuseInit => Changed
    BY DEF ReuseInit, Changed, Zero
<1>2. TypeOK /\ TypeOK' /\ Changed /\ [ReuseNext]_reuseVars => Changed'
    BY ChangedStep
<1>3. Changed => ChangeOncePerSession
    <2> SUFFICES ASSUME Changed, NEW s \in Scripts PROVE session_change[s] <= 1
        BY DEF ChangeOncePerSession
    <2>1. session_change[s] \in {0, 1}
        BY DEF Changed
    <2> QED BY <2>1
<1> QED BY <1>1, <1>2, <1>3, ReuseIsPersisted, TypeCorrect, PTL DEF ReuseSpec

=============================================================================

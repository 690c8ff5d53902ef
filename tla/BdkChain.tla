------------------------------ MODULE BdkChain ------------------------------
(***************************************************************************)
(* The parts of the bdk_chain library the wallet is built on, modelled     *)
(* from how src/src/wallet uses them: the sparse chain of checkpoints      *)
(* (LocalChain), the graph of transactions (TxGraph), the script index     *)
(* (KeychainTxOutIndex) and the canonical view computed from chain and     *)
(* graph.  Everything here is a pure operator; the state is in Wallet.     *)
(*                                                                         *)
(* Blocks, transactions and scripts are abstract.  A block is its hash, a  *)
(* script is a pair <<keychain, derivation index>>, an outpoint is a pair  *)
(* <<transaction, vout>>.  Times (last_seen, last_evicted) are numbers, 0  *)
(* standing for "never".                                                   *)
(***************************************************************************)
EXTENDS Integers, Sequences, FiniteSets, TLC, FiniteSetsExt

CONSTANTS
    MaxHeight,   \* heights are 0..MaxHeight
    Hashes,      \* block hashes
    NoHash,      \* "no checkpoint at this height"; None in a chain changeset
    HeightOf,    \* [Hashes -> 0..MaxHeight]: a hash commits to its height
    Genesis,     \* the hash of the block at height 0
    Txs,         \* transactions
    TxRank,      \* [Txs -> Nat]: the order of txids
    Pays,        \* [Txs -> Seq(script)]: the script of every output
    Spends,      \* [Txs -> set of outpoints]: the inputs
    MaxIndex,    \* the last index a descriptor can derive
    Lookahead,   \* scripts derived beyond the last revealed one
    MaxTime      \* bound on the timestamps of the mempool

ASSUME BoundsAssumption ==
    /\ MaxHeight \in Nat
    /\ MaxIndex \in Nat
    /\ Lookahead \in Nat
    /\ MaxTime \in Nat

ASSUME BlocksAssumption ==
    /\ NoHash \notin Hashes
    /\ Genesis \in Hashes
    /\ HeightOf \in [Hashes -> 0..MaxHeight]
    /\ HeightOf[Genesis] = 0

Indices == 0..MaxIndex

\* An output may pay a script of neither keychain, an input may spend an
\* output of a transaction that is not in Txs.
ASSUME TxsAssumption ==
    /\ IsFiniteSet(Txs)
    /\ DOMAIN Pays = Txs
    /\ \A t \in Txs : DOMAIN Pays[t] \subseteq Nat
    /\ \A t \in Txs : \A n \in DOMAIN Pays[t] :
            Pays[t][n] = <<Pays[t][n][1], Pays[t][n][2]>> /\ Pays[t][n][2] \in Indices
    /\ DOMAIN Spends = Txs
    /\ TxRank \in [Txs -> Nat]
    /\ \A t, u \in Txs : TxRank[t] = TxRank[u] => t = u

Heights == 0..MaxHeight
Times == 0..MaxTime
Keychains == {"External", "Internal"}

\* A derivation index or -1, the code's None.
RevealedIndex == -1..MaxIndex
Scripts == Keychains \X Indices
Outpoints == UNION {{t} \X DOMAIN Pays[t] : t \in Txs}
Anchors == Hashes \X Txs

\* The larger of two numbers (merging of indices and of timestamps).
MaxOf(a, b) == IF a >= b THEN a ELSE b

-----------------------------------------------------------------------------
(***************************************************************************)
(* LocalChain.  A chain is sparse: some heights have no checkpoint.        *)
(***************************************************************************)
Chains == [Heights -> Hashes \cup {NoHash}]
Tip(chain) == Max({h \in Heights : chain[h] # NoHash})
HasBlock(chain, hash) == chain[HeightOf[hash]] = hash

\* Heights where both chains have the same block, and different blocks.
Agreement(chain, upd) == {h \in Heights : upd[h] # NoHash /\ upd[h] = chain[h]}
Conflict(chain, upd) ==
    {h \in Heights : upd[h] # NoHash /\ chain[h] # NoHash /\ upd[h] # chain[h]}

(***************************************************************************)
(* LocalChain::apply_update connects an update at the highest block both   *)
(* chains have.  If both go on above it, the lowest block of the wallet's  *)
(* chain above it must be one the update invalidates; otherwise it is not  *)
(* known which blocks the update replaces, and it is refused               *)
(* (CannotConnectError).                                                   *)
(***************************************************************************)
CanConnect(chain, upd) ==
    LET agreed == Agreement(chain, upd)
        above(c) == {h \in Heights : c[h] # NoHash /\ h > Max(agreed)}
    IN  /\ agreed # {}
        /\ \/ above(upd) = {}
           \/ \A h \in above(chain) : \E c \in Conflict(chain, upd) : c \in above(chain) /\ c <= h

\* The chain after an update that connects.
Connected(chain, upd) ==
    [h \in Heights |->
        IF upd[h] # NoHash THEN upd[h]
        ELSE IF /\ Conflict(chain, upd) # {}
                /\ \A a \in Agreement(chain, upd) : h > a
             THEN NoHash
             ELSE chain[h]]

\* CheckPoint::from_block_ids: the update that holds just these blocks.
FromBlocks(hashes) ==
    [h \in Heights |-> IF \E x \in hashes : HeightOf[x] = h
                       THEN CHOOSE x \in hashes : HeightOf[x] = h
                       ELSE NoHash]

-----------------------------------------------------------------------------
(***************************************************************************)
(* TxGraph.  Transactions, floating outputs, anchors (the blocks a         *)
(* transaction was found in) and the times it was last seen in, and last   *)
(* found missing from, the mempool.  A changeset has the same shape.       *)
(***************************************************************************)
Graphs == [txs : SUBSET Txs, txouts : SUBSET Outpoints, anchors : SUBSET Anchors,
           last_seen : [Txs -> Times], last_evicted : [Txs -> Times]]

EmptyGraph == [txs |-> {}, txouts |-> {}, anchors |-> {},
               last_seen |-> [t \in Txs |-> 0], last_evicted |-> [t \in Txs |-> 0]]

\* Merging graph changesets: unions, and the latest of two times.
MergeGraph(g, u) ==
    [txs |-> g.txs \cup u.txs,
     txouts |-> g.txouts \cup u.txouts,
     anchors |-> g.anchors \cup u.anchors,
     last_seen |-> [t \in Txs |-> MaxOf(g.last_seen[t], u.last_seen[t])],
     last_evicted |-> [t \in Txs |-> MaxOf(g.last_evicted[t], u.last_evicted[t])]]

\* A graph keeps a floating output only while it lacks the full transaction.
Whole(g) == [g EXCEPT !.txouts = {o \in g.txouts : o[1] \notin g.txs}]

\* TxGraph::apply_update and apply_changeset.
ApplyGraph(g, u) == Whole(MergeGraph(g, u))

\* What an update adds to a graph: the changeset TxGraph::apply_update returns.
GraphDiff(g, u) ==
    [txs |-> u.txs \ g.txs,
     txouts |-> {o \in u.txouts \ g.txouts : o[1] \notin g.txs \cup u.txs},
     anchors |-> u.anchors \ g.anchors,
     last_seen |-> [t \in Txs |->
        IF u.last_seen[t] > g.last_seen[t] THEN u.last_seen[t] ELSE 0],
     last_evicted |-> [t \in Txs |->
        IF u.last_evicted[t] > g.last_evicted[t] THEN u.last_evicted[t] ELSE 0]]

-----------------------------------------------------------------------------
(***************************************************************************)
(* Canonicalization: which transactions of the graph the wallet believes.  *)
(***************************************************************************)
Parents(g, t) == {p \in g.txs : \E o \in Spends[t] : o[1] = p}
Children(g, t) == {c \in g.txs : \E o \in Spends[c] : o[1] = t}
DirectConflicts(g, t) == {c \in g.txs \ {t} : Spends[c] \cap Spends[t] # {}}

\* The transactions reachable from a set, itself included, in at most
\* Cardinality(g.txs) steps.
Closure(g, S, Step(_, _)) ==
    LET reach[n \in 0..Cardinality(g.txs)] ==
            IF n = 0 THEN S
            ELSE LET prev == reach[n - 1] IN prev \cup UNION {Step(g, t) : t \in prev}
    IN  reach[Cardinality(g.txs)]
Ancestry(g, S) == Closure(g, S, Parents)
Descendance(g, S) == Closure(g, S, Children)

\* The anchors of t that are in the chain.
ChainAnchors(chain, g, t) == {a \in g.anchors : a[2] = t /\ HasBlock(chain, a[1])}

\* A seeded bug: an eviction counts against a transaction in the chain.
PriorityOfEvicted(chain, g, t) ==
    IF g.last_evicted[t] > g.last_seen[t] THEN -1
    ELSE IF ChainAnchors(chain, g, t) # {} THEN MaxTime + 1
    ELSE IF g.last_seen[t] > g.last_evicted[t] THEN g.last_seen[t]
    ELSE IF \E a \in g.anchors : a[2] = t THEN 0
    ELSE -1

\* Order in which transactions are considered: first the ones anchored in the
\* chain, then those in the mempool by time last seen, then those whose only
\* evidence is a block no longer in the chain.
Priority(chain, g, t) ==
    IF ChainAnchors(chain, g, t) # {} THEN MaxTime + 1
    ELSE IF g.last_seen[t] > g.last_evicted[t] THEN g.last_seen[t]
    ELSE IF \E a \in g.anchors : a[2] = t THEN 0
    ELSE -1

(***************************************************************************)
(* A considered transaction becomes canonical with its ancestors unless    *)
(* one of them conflicts with what is canonical already.  Transactions     *)
(* last seen at the same time are considered in the order of their txids.  *)
(***************************************************************************)
Canonical(chain, g) ==
    LET prio == [t \in g.txs |-> Priority(chain, g, t)]
        considered == {t \in g.txs : prio[t] >= 0}
        turn == [t \in considered |->
                    Cardinality({u \in considered :
                        prio[u] > prio[t] \/ (prio[u] = prio[t] /\ TxRank[u] <= TxRank[t])})]
        canon[n \in 0..Cardinality(considered)] ==
            IF n = 0 THEN {}
            ELSE LET prev == canon[n - 1]
                     both == prev \cup Ancestry(g, {t \in considered : turn[t] = n})
                     loses == Descendance(g, UNION {DirectConflicts(g, t) : t \in both})
                 IN  IF both \cap loses = {} THEN both ELSE prev
    IN  {t \in g.txs : t \in canon[Cardinality(considered)]}

\* The position of a canonical transaction: the block that confirms it (its
\* own anchor, else that of a descendant), or NoHash when it is unconfirmed.
Position(chain, g, t) ==
    LET confirming(S) == UNION {ChainAnchors(chain, g, d) : d \in S}
        own == confirming({t})
        any == confirming(Descendance(g, {t}))
    IN  IF own # {} THEN (CHOOSE a \in own : TRUE)[1]
        ELSE IF any # {} THEN (CHOOSE a \in any : TRUE)[1]
        ELSE NoHash

-----------------------------------------------------------------------------
(***************************************************************************)
(* KeychainTxOutIndex.  Scripts up to Lookahead beyond the last revealed   *)
(* index are derived; scanning a transaction indexes its outputs to        *)
(* derived scripts, and indexing an output reveals its index, which        *)
(* derives further scripts.  Nothing scanned earlier is scanned again.     *)
(***************************************************************************)
Derived(revealed, active, script) ==
    /\ script[1] \in active
    /\ script[2] <= revealed[script[1]] + Lookahead
    /\ script[2] <= MaxIndex

ScriptOf(o) == Pays[o[1]][o[2]]

\* The last revealed indices once the outpoints ops are indexed.
RevealedBy(revealed, ops) ==
    [k \in Keychains |->
        Max({revealed[k]} \cup {ScriptOf(o)[2] : o \in {p \in ops : ScriptOf(p)[1] = k}})]

(***************************************************************************)
(* The outpoints that a scan of the outputs outs indexes: those to scripts *)
(* derived before the scan, and those to scripts derived during it,        *)
(* because an output earlier in the scan was indexed.  Transactions are    *)
(* scanned by position pos[t], their outputs by vout; after n rounds the   *)
(* first n outputs are decided.                                            *)
(***************************************************************************)
Matched(revealed, active, outs, pos) ==
    LET earlier(o) == {p \in outs : \/ pos[p[1]] < pos[o[1]]
                                    \/ p[1] = o[1] /\ p[2] < o[2]}
        match[n \in 0..Cardinality(outs)] ==
            IF n = 0 THEN {}
            ELSE LET prev == match[n - 1]
                 IN  {o \in outs :
                        Derived(RevealedBy(revealed, prev \cap earlier(o)), active, ScriptOf(o))}
    IN  {o \in outs : /\ ScriptOf(o)[1] \in active
                      /\ \/ Derived(revealed, active, ScriptOf(o))
                         \/ o \in match[Cardinality(outs)]}

\* SpkTxOutIndex::is_relevant: an input spends an indexed output, or an
\* output pays a derived script, whether or not that output is indexed.
IsRelevant(revealed, active, indexed, t) ==
    \/ Spends[t] \cap indexed # {}
    \/ \E n \in DOMAIN Pays[t] : Derived(revealed, active, Pays[t][n])

OutputsOf(txs) == {o \in Outpoints : o[1] \in txs}

\* A seeded bug: an index past the last one is revealed.
RevealToUnbounded(revealed, k, index) == [revealed EXCEPT ![k] = MaxOf(@, index)]

\* reveal_to_target and reveal_next_spk: revealing never goes back, and stops
\* at the last index the descriptor can derive.
RevealTo(revealed, k, index) ==
    [revealed EXCEPT ![k] = MaxOf(@, IF index <= MaxIndex THEN index ELSE MaxIndex)]
NextIndex(revealed, k) == IF revealed[k] < MaxIndex THEN revealed[k] + 1 ELSE MaxIndex

\* The indexer changeset between two states: the indices that went up.
RevealDiff(old, new) == [k \in Keychains |-> IF new[k] > old[k] THEN new[k] ELSE -1]

=============================================================================

---------------------------- MODULE WalletEvents ----------------------------
(***************************************************************************)
(* The *_events methods (src/src/wallet/mod.rs, event.rs): the wallet      *)
(* compares its chain tip and its transactions before and after it applies *)
(* chain data and returns the differences as WalletEvents.  A listener     *)
(* that only sees those events keeps its own picture of the wallet.        *)
(*                                                                         *)
(* There is no database here: see PersistedWallet.                         *)
(***************************************************************************)
EXTENDS Wallet

CONSTANT Params   \* the parameters the wallet was created with

ASSUME EventParamsAssumption ==
    Params \in [descriptor : Descriptors, change_descriptor : Descriptors \cup {None},
                network : Networks]

VARIABLES
    events,   \* the events the last step returned
    told      \* the listener's picture: [tip, txs]

eventVars == <<walletVars, events, told>>

\* map_transactions, and the block at the tip.
TxMap == [t \in transactions |-> canonical_view[t]]
TipBlock(c) == c[Tip(c)]

-----------------------------------------------------------------------------
\* The events of wallet_events.  A block is NoHash when there is none: an
\* unconfirmed position, an old_block_time of None.
ChainTipChanged(old, new) == [type |-> "ChainTipChanged", old_tip |-> old, new_tip |-> new]
TxConfirmed(t, block, old) ==
    [type |-> "TxConfirmed", tx |-> t, block_time |-> block, old_block_time |-> old]
TxUnconfirmed(t, old) == [type |-> "TxUnconfirmed", tx |-> t, old_block_time |-> old]
TxReplaced(t, conflicts) == [type |-> "TxReplaced", tx |-> t, conflicts |-> conflicts]
TxDropped(t) == [type |-> "TxDropped", tx |-> t]

\* The position of t in a map of transactions; "new" if it is not there.
PosIn(txs, t) == IF t \in DOMAIN txs THEN txs[t] ELSE "new"
OldBlock(txs, t) == IF t \in DOMAIN txs THEN txs[t] ELSE NoHash

\* A seeded bug: a transaction that moved to another block goes unnoticed.
MovesIgnored(txs1, txs2) ==
    {t \in DOMAIN txs2 : \/ t \notin DOMAIN txs1
                         \/ (txs1[t] = NoHash) # (txs2[t] = NoHash)}

\* The transactions that are new or whose position is not what it was.
Changed(txs1, txs2) == {t \in DOMAIN txs2 : PosIn(txs1, t) # txs2[t]}

wallet_events(tip1, tip2, txs1, txs2, g) ==
    LET tips == IF tip1 # tip2 THEN {ChainTipChanged(tip1, tip2)} ELSE {}
        changed == Changed(txs1, txs2)
        confirmed == {t \in changed : txs2[t] # NoHash}
        unconfirmed == changed \ confirmed
        gone == DOMAIN txs1 \ DOMAIN txs2
        replaced == {t \in gone : DirectConflicts(g, t) # {}}
    IN  tips
        \cup {TxConfirmed(t, txs2[t], OldBlock(txs1, t)) : t \in confirmed}
        \cup {TxUnconfirmed(t, OldBlock(txs1, t)) : t \in unconfirmed}
        \cup {TxReplaced(t, DirectConflicts(g, t)) : t \in replaced}
        \cup {TxDropped(t) : t \in gone \ replaced}

\* What the listener makes of a batch of events.
Hear(picture, es) ==
    LET of(types) == {e \in es : e.type \in types}
        txs(types) == {e.tx : e \in of(types)}
        known == (DOMAIN picture.txs \cup txs({"TxConfirmed", "TxUnconfirmed"}))
                    \ txs({"TxReplaced", "TxDropped"})
    IN  [tip |-> IF of({"ChainTipChanged"}) = {} THEN picture.tip
                 ELSE (CHOOSE e \in of({"ChainTipChanged"}) : TRUE).new_tip,
         txs |-> [t \in known |->
            IF t \in txs({"TxConfirmed"})
            THEN (CHOOSE e \in of({"TxConfirmed"}) : e.tx = t).block_time
            ELSE IF t \in txs({"TxUnconfirmed"}) THEN NoHash
            ELSE picture.txs[t]]]

-----------------------------------------------------------------------------
\* A wallet just created, and a listener that knows its genesis block.
Init ==
    /\ descriptor = Params.descriptor
    /\ change_descriptor = Params.change_descriptor
    /\ network = Params.network
    /\ chain = [NoChain EXCEPT ![0] = Genesis]
    /\ graph = EmptyGraph
    /\ revealed = [k \in Keychains |-> -1]
    /\ indexed = {}
    /\ used = {}
    /\ locked_outpoints = {}
    /\ canonical_view = <<>>
    /\ stage = EmptyChangeSet
    /\ events = {}
    /\ told = [tip |-> Genesis, txs |-> <<>>]

\* events_helper around a method that applies chain data.
events_helper ==
    /\ events' = wallet_events(TipBlock(chain), TipBlock(chain'), TxMap, TxMap', graph')
    /\ told' = Hear(told, events')

\* insert_txout has no variant that returns events.
ApplyEvents ==
    /\ \/ \E u \in Updates : apply_update(u)
       \/ \E b \in Blocks : \E c \in Ancestors(b) \cup {b} : apply_block_connected_to(b, c)
       \/ \E batch \in Batches : apply_unconfirmed_txs(batch)
       \/ \E evicted \in Evictions : apply_evicted_txs(evicted)
    /\ events_helper

SilentOp ==
    /\ UserOp \/ \E o \in Floating : insert_txout(o)
    /\ events' = {}
    /\ UNCHANGED told

Next == ApplyEvents \/ SilentOp

Spec == Init /\ [][Next]_eventVars

-----------------------------------------------------------------------------
(***************************************************************************)
(* Properties.                                                             *)
(***************************************************************************)

\* The listener's picture is the wallet's: the same tip, the same transactions
\* in the same blocks, through reorganizations, replacements and evictions.
ListenerInSync == told.tip = TipBlock(chain) /\ told.txs = TxMap

\* An output of a transaction that is stored is indexed, for good, when its script was
\* derived before the call, or is at or below the last active index that came with the
\* update: apply_update reveals those before it scans, in whatever order.  An output may
\* stay out of the index only when its script was first derived within the call, after its
\* own transaction was scanned, or by a later call.
ScansComplete ==
    [][LET new == OutputsOf(graph'.txs \ graph.txs)
       IN  /\ indexed \subseteq indexed'
           /\ \A o \in new : Derived(revealed, Active, ScriptOf(o)) => o \in indexed'
           /\ \A u \in Updates, o \in new \ indexed' :
                LET s == ScriptOf(o)
                IN  s[1] \in Active /\ s[2] <= u.last_active_indices[s[1]] => ~apply_update(u)]_eventVars

\* A transaction the listener was told is confirmed stays confirmed as long as
\* the block it was told is in the chain: no eviction, unconfirmed double
\* spend, batch or chain update takes it back.  The block may turn out to be an
\* earlier one, when at first only a descendant's was known.
ConfirmedStays ==
    [][\A t \in DOMAIN told.txs :
        (told.txs[t] # NoHash /\ HasBlock(chain', told.txs[t])) =>
            /\ t \in DOMAIN told'.txs
            /\ told'.txs[t] # NoHash
            /\ HeightOf[told'.txs[t]] <= HeightOf[told.txs[t]]]_eventVars
=============================================================================

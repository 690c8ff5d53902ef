--------------------------- MODULE MCWalletEvents ---------------------------
(***************************************************************************)
(* Small instances of WalletEvents.  The block tree and the transactions:  *)
(*                                                                         *)
(*     g -- a1 (pay) -- a2 (child)      pay pays script External 0,        *)
(*      \-- b1 (rival) -- b2            rival double spends it and pays    *)
(*                                      External 1, child spends pay and   *)
(*                                      pays a change script and           *)
(*                                      External 1.                        *)
(***************************************************************************)
EXTENDS WalletEvents

CONSTANTS g, a1, a2, b1, b2, pay, rival, child, d1, d2, mainnet

MCHeightOf == g :> 0 @@ a1 :> 1 @@ b1 :> 1 @@ a2 :> 2 @@ b2 :> 2
MCParent == g :> NoHash @@ a1 :> g @@ b1 :> g @@ a2 :> a1 @@ b2 :> b1
MCBlockTxs == g :> <<>> @@ a1 :> (pay :> 1) @@ a2 :> (child :> 1) @@ b1 :> (rival :> 1) @@ b2 :> <<>>
MCPays == pay :> <<<<"External", 0>>>> @@ rival :> <<<<"External", 1>>>>
          @@ child :> <<<<"Internal", 0>>, <<"External", 1>>>>
MCSpends == pay :> {<<"funding", 1>>} @@ rival :> {<<"funding", 1>>} @@ child :> {<<pay, 1>>}
MCRank == pay :> 1 @@ rival :> 2 @@ child :> 3

NoIndices == [k \in Keychains |-> -1]
TimesOf(f) == [t \in Txs |-> IF t \in DOMAIN f THEN f[t] ELSE 0]
Upd(c, tx, act) == [chain |-> c, tx_update |-> tx, last_active_indices |-> act]

\* What a full scan reports: transactions with their anchors and the indices
\* found active; and a reorganization that says nothing of transactions.
MCUpdates ==
    {Upd(FromBlocks({g, a1}),
         [EmptyGraph EXCEPT !.txs = {pay}, !.anchors = {<<a1, pay>>}],
         [NoIndices EXCEPT !["External"] = 0]),
     Upd(FromBlocks({g, b1}),
         [EmptyGraph EXCEPT !.txs = {rival}, !.anchors = {<<b1, rival>>}],
         [NoIndices EXCEPT !["External"] = 1]),
     Upd(FromBlocks({g, b1, b2}), EmptyGraph, NoIndices)}
\* The last batch may be scanned before or after External 1 is derived.
MCBatches == {TimesOf(pay :> 1), TimesOf(rival :> 2), TimesOf(pay :> 1 @@ child :> 2),
              TimesOf(pay :> 1 @@ rival :> 2)}
MCEvictions == {TimesOf(pay :> 1), TimesOf(child :> 2), TimesOf(pay :> 2 @@ rival :> 2)}
MCParams == [descriptor |-> d1, change_descriptor |-> d2, network |-> mainnet]

\* States that differ only in the stage or in the events just returned have
\* the same future and are explored once: no guard and no property of these
\* runs reads either.
View == <<chain, graph, index, canonical_view, told>>
=============================================================================

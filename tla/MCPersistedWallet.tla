-------------------------- MODULE MCPersistedWallet --------------------------
(***************************************************************************)
(* Small instances of PersistedWallet.  The block tree is                  *)
(*                                                                         *)
(*            g -- a1 -- a2                                                *)
(*             \-- b1                                                      *)
(*                                                                         *)
(***************************************************************************)
EXTENDS PersistedWallet

CONSTANTS g, a1, a2, b1, t1, t2, d1, d2, mainnet

MCHeightOf == g :> 0 @@ a1 :> 1 @@ b1 :> 1 @@ a2 :> 2
MCParent == g :> NoHash @@ a1 :> g @@ b1 :> g @@ a2 :> a1

Foreign == <<"Foreign", 0>>
Chain(hashes) == FromBlocks(hashes)
NoIndices == [k \in Keychains |-> -1]
Upd(c, g_, act) == [chain |-> c, tx_update |-> g_, last_active_indices |-> act]
TimesOf(f) == [t \in Txs |-> IF t \in DOMAIN f THEN f[t] ELSE 0]

AnyLoad == [check_network |-> "unchecked", check_genesis_hash |-> "unchecked",
            check_descriptor |-> "unchecked", check_change_descriptor |-> "unchecked"]
MCLoadParams == {AnyLoad,
    [AnyLoad EXCEPT !.check_descriptor = d1, !.check_change_descriptor = None],
    [AnyLoad EXCEPT !.check_network = mainnet, !.check_genesis_hash = g,
                    !.check_descriptor = d1, !.check_change_descriptor = d2]}
TwoKeychains == [descriptor |-> d1, change_descriptor |-> d2, network |-> mainnet]
OneKeychain == [descriptor |-> d1, change_descriptor |-> None, network |-> mainnet]

-----------------------------------------------------------------------------
\* Instance 1: chain, graph and locks.  One transaction, in a1 and b1.
ChainPays == t1 :> <<<<"External", 0>>>>
ChainSpends == t1 :> {<<"funding", 1>>}
ChainRank == t1 :> 1
ChainBlockTxs == g :> <<>> @@ a1 :> (t1 :> 1) @@ a2 :> <<>> @@ b1 :> (t1 :> 1)
ChainUpdates ==
    {Upd(Chain({g, a2}), [EmptyGraph EXCEPT !.anchors = {<<a1, t1>>}], NoIndices),
     Upd(Chain({g, b1}), EmptyGraph, NoIndices)}
ChainBatches == {TimesOf(t1 :> 1), TimesOf(t1 :> 2)}
ChainEvictions == {TimesOf(t1 :> 2)}
ChainLockable == {<<t1, 1>>}
ChainCreateParams == {OneKeychain}

-----------------------------------------------------------------------------
\* Instance 2: the script index.  Script 1 is derived only once script 0 is
\* revealed, so whether t2 is found depends on what was scanned before it.
IndexPays == t1 :> <<<<"External", 0>>>> @@ t2 :> <<Foreign, <<"External", 1>>>>
IndexSpends == t1 :> {<<"funding", 1>>} @@ t2 :> {<<"funding", 2>>}
IndexRank == t1 :> 1 @@ t2 :> 2
IndexBlockTxs == g :> <<>> @@ a1 :> (t2 :> 1 @@ t1 :> 2) @@ a2 :> <<>> @@ b1 :> <<>>
IndexUpdates ==
    {Upd(NoChain, [EmptyGraph EXCEPT !.txs = {t1, t2}], NoIndices),
     Upd(NoChain, [EmptyGraph EXCEPT !.txs = {t2}], [NoIndices EXCEPT !["Internal"] = 0])}
IndexBatches == {TimesOf(t1 :> 1 @@ t2 :> 1)}
IndexFloating == {<<t2, 2>>}
IndexMarkable == {<<"External", 0>>}
IndexCreateParams == {OneKeychain, TwoKeychains}
=============================================================================

--------------------------- MODULE MCAddressReuse ---------------------------
(***************************************************************************)
(* A wallet with and without a change descriptor, and one transaction that *)
(* pays the first external and the first change script.                    *)
(***************************************************************************)
EXTENDS AddressReuse

CONSTANTS g, t1, d1, d2, mainnet

MCHeightOf == g :> 0
MCParent == g :> NoHash
MCBlockTxs == g :> <<>>
MCPays == t1 :> <<<<"External", 0>>, <<"Internal", 0>>>>
MCSpends == t1 :> {<<"funding", 1>>}
MCRank == t1 :> 1
MCBatches == {t1 :> 1}
MCCreateParams == {[descriptor |-> d1, change_descriptor |-> c, network |-> mainnet] : c \in {d2, None}}
MCLoadParams == {[check_network |-> mainnet, check_genesis_hash |-> "unchecked",
                  check_descriptor |-> d1, check_change_descriptor |-> "unchecked"]}
=============================================================================

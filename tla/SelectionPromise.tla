-------------------------- MODULE SelectionPromise --------------------------
(***************************************************************************)
(* The abstract specification of coin selection: asked once, an algorithm  *)
(* answers once, in the end, with an answer the contract allows.           *)
(* CoinSelection refines it.                                               *)
(***************************************************************************)
EXTENDS SelectionContract

VARIABLES required, optional, rate, target, answered, result

asked == <<required, optional, rate, target>>
vars == <<asked, answered, result>>

Init == ~answered /\ result = Failure

\* The trait's one method, CoinSelectionAlgorithm::coin_select.
coin_select ==
    /\ ~answered
    /\ answered' = TRUE
    /\ \/ result' = Failure /\ MayFail(required, optional, rate, target)
       \/ Successful(result', required, optional, rate, target)
    /\ UNCHANGED asked

\* Every answer is sound; and there is one.
Sound == Init /\ [][coin_select]_vars
Spec == Sound /\ <>answered
=============================================================================

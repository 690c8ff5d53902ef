-------------------------- MODULE SelectionContract --------------------------
(***************************************************************************)
(* What create_tx relies on when it calls a CoinSelectionAlgorithm         *)
(* (src/src/wallet/coin_selection.rs): whatever the algorithm, the result  *)
(* starts with every required coin, goes on with some of the optional ones,*)
(* covers the target and the fee for the inputs, and says what to do with  *)
(* the rest.  A coin is a record with at least a value and a weight.       *)
(*                                                                         *)
(* TxBuilder selects coins in a single step with these operators;          *)
(* SelectionPromise is the specification the algorithms refine.            *)
(***************************************************************************)
EXTENDS Integers, Sequences, FiniteSets, FiniteSetsExt, Functions

CONSTANTS FeeUnit, DrainWeight, Dust

\* FeeRate * Weight, rounded up.
FeeAt(rate, weight) == (rate * weight + FeeUnit - 1) \div FeeUnit
Total(f) == FoldFunction(+, 0, f)
Worth(s) == Total([i \in DOMAIN s |-> s[i].value])
FeeFor(s, rate) == Total([i \in DOMAIN s |-> FeeAt(rate, s[i].weight)])
FeeForAll(s, rate) == FeeAt(rate, Total([i \in DOMAIN s |-> s[i].weight]))

\* decide_change: the amount of a change output, or -1 for none (NoChange).
decide_change(remaining, rate) ==
    LET change_fee == FeeAt(rate, DrainWeight)
        drain == IF remaining >= change_fee THEN remaining - change_fee ELSE 0
    IN  IF drain < Dust THEN -1 ELSE drain

\* The fee for the inputs is rounded for each of them or for all at once.
Fees(s, rate) == {FeeFor(s, rate), FeeForAll(s, rate)}

Success(s, fee, target, rate) ==
    LET remaining == Worth(s) - target - fee
    IN  [ok |-> TRUE, selected |-> s, fee |-> fee, remaining |-> remaining,
         change |-> decide_change(remaining, rate)]
Failure == [ok |-> FALSE, selected |-> <<>>, fee |-> 0, remaining |-> 0, change |-> -1]

\* r is an answer to a request for these coins.
Successful(r, required, optional, rate, target) ==
    /\ r.ok
    /\ SubSeq(r.selected, 1, Len(required)) = required
    /\ \E f \in [Len(required) + 1..Len(r.selected) -> DOMAIN optional] :
         IsInjective(f) /\ \A i \in DOMAIN f : r.selected[i] = optional[f[i]]
    /\ Worth(r.selected) = target + r.fee + r.remaining
    /\ r.remaining >= 0
    /\ r.fee \in Fees(r.selected, rate)
    /\ r.change = decide_change(r.remaining, rate)

\* The required coins pay together with the optional ones at the positions S.
PaysWith(S, required, optional, rate, target) ==
    LET value == Worth(required) + Total([i \in S |-> optional[i].value])
        weight == Total([i \in DOMAIN required |-> required[i].weight])
                    + Total([i \in S |-> optional[i].weight])
        fee == FeeFor(required, rate) + Total([i \in S |-> FeeAt(rate, optional[i].weight)])
    IN  value >= target + fee /\ value >= target + FeeAt(rate, weight)

\* An algorithm may give up although some of the coins would do, but not when
\* all of them do, with or without those that cost more than they are worth.
MayFail(required, optional, rate, target) ==
    LET worthwhile == {i \in DOMAIN optional : optional[i].value > FeeAt(rate, optional[i].weight)}
    IN  \/ ~PaysWith(worthwhile, required, optional, rate, target)
        \/ ~PaysWith(DOMAIN optional, required, optional, rate, target)
=============================================================================

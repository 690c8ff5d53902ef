--------------------------- MODULE MCCoinSelection ---------------------------
(***************************************************************************)
(* Four coins worth spending, one of them with two inputs' weight, and one *)
(* that costs more than it is worth at either rate.                        *)
(***************************************************************************)
EXTENDS CoinSelection

Coin(v, w) == [value |-> v, weight |-> w]
MCCoins == {Coin(2, 1), Coin(3, 1), Coin(5, 1), Coin(6, 2), Coin(2, 9)}
=============================================================================

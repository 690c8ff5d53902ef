---------------------------- MODULE MCMwebStore ----------------------------
(* Small instances of MwebStore for TLC. *)
EXTENDS MwebStore

CONSTANTS r1, g1, x1

OneReceived == {r1}
OneWorth == [c \in {r1} |-> 3]
NoReceived == {}
NoWorth == [c \in {} |-> 0]
OnePegin == {g1}
NoPegin == {}
MCCallers == {<<"file", "any time">>, <<"sqlite", "coins first">>}
CoinsFirst == {<<"file", "coins first">>}
MCChanges == {x1}
\* The second cannot pay its fee.
MCPeginParams == {[amount |-> 5, fee |-> 2], [amount |-> 1, fee |-> 2]}
\* One coin covers it.
SmallSpend == {[amount |-> 2, fee |-> 1]}
\* The first leaves change; the second needs the coin and that change, when the process
\* died before the spend was recorded; the sum of the third does not fit the integers.
SomeSpends == {[amount |-> 1, fee |-> 1], [amount |-> 3, fee |-> 1], [amount |-> 15, fee |-> 3]}
=============================================================================

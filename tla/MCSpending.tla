----------------------------- MODULE MCSpending ------------------------------
(***************************************************************************)
(* Instances of TxBuilder and of CreatePsbt, the two ways to spend.  The   *)
(* wallets differ in what they hold and in their policies; on each, the    *)
(* setters of one topic are called, together with the few that every       *)
(* transaction needs.                                                      *)
(***************************************************************************)
EXTENDS TxBuilder, DraftContract

VARIABLES
    paths, request, calls,  \* of CreatePsbt
    instance                \* the wallet the behaviour started from

Psbt == INSTANCE CreatePsbt
psbt_part == <<paths, request, calls, drafted>>
mc_vars == <<vars, psbt_part, instance>>

\* A payment to the wallet, and one between strangers.
Paid(keychain, value, height) == [Tx(2, None, <<>>, <<Out(keychain, value)>>) EXCEPT !.height = height]
Coinbase(value, height) == [Paid("External", value, height) EXCEPT !.coinbase = TRUE]
Stranger == [Paid("other", 5, 1) EXCEPT !.floating = TRUE]

\* Coins of both keychains; coins that are not settled: an unconfirmed and an
\* unconfirmed TRUC payment, an immature coinbase; a coin, and outputs of other
\* parties; a pending payment whose change is spent by another one.
TwoCoins == <<Paid("External", 10, 1), Paid("Internal", 6, 2)>>
Unsettled == <<Paid("External", 8, 1), Paid("External", 6, 0),
               [Paid("External", 6, 0) EXCEPT !.version = 3], Coinbase(6, 2)>>
WithStranger == <<Paid("External", 9, 1), Paid("other", 5, 1), Stranger>>
Send(op, outs) == Tx(2, Blocks(3), <<In(op, Disabled("rbf"))>>, outs)
Pending == TwoCoins \o <<Send(<<1, 1>>, <<Out("Internal", 4), Out("other", 3)>>),
                         Send(<<3, 1>>, <<Out("other", 1), Out("Internal", 2)>>)>>

Free == [p \in 0..0 |-> NoCondition]
NoPolicy == [External |-> Free, Internal |-> Free]
Csv == Condition(Blocks(2), None)
\* Path 1 waits for two blocks, path 2 for a height; without a path neither.
Paths == [p \in 0..2 |-> CASE p = 0 -> Incompatible [] p = 1 -> Csv
                           [] p = 2 -> Condition(None, Blocks(4))]
Locks == [External |-> [p \in 0..0 |-> Csv], Internal |-> [p \in 0..0 |-> Condition(None, Time(3))]]

\* What a wallet holds, its descriptors, the setters that are called on it, how
\* many transactions are broadcast, and how many setters called in all: enough
\* to build, broadcast and bump with a call to spare, or to combine three.
Wallet(graph, policies, k, r, topic, sent) ==
    [graph |-> graph, policy |-> policies, kind |-> k, rooted |-> r,
     topic |-> topic, room |-> Len(graph) + sent, budget |-> 3,
     paths |-> [keychain \in {"External", "Internal"} |-> <<NoCondition>>]]

\* The same for PsbtParams, with the paths of both keychains.
Psbts(graph, external, internal, topic, sent) ==
    [Wallet(graph, NoPolicy, "segwit", TRUE, topic, sent)
        EXCEPT !.paths = [External |-> external, Internal |-> internal]]

\* Paths that open with the height of the chain, or with the age of a coin, and
\* one that waits for a time.
Waits == <<Csv, Condition(None, Blocks(4))>>
Ages == <<Condition(Blocks(3), None), Condition(None, Time(3))>>
\* A payment whose change is spent twice over, and an unrelated pending one.
Chain == <<Paid("External", 12, 1), Paid("Internal", 9, 2),
           Send(<<1, 1>>, <<Out("Internal", 4), Out("External", 5)>>),
           Send(<<3, 1>>, <<Out("other", 1), Out("Internal", 2)>>),
           Send(<<4, 2>>, <<Out("External", 1)>>)>>

Wallets == {
    Wallet(TwoCoins, NoPolicy, "segwit", TRUE, "outputs", 1),
    Wallet(TwoCoins, NoPolicy, "segwit", TRUE, "coins", 1),
    Wallet(Pending, NoPolicy, "segwit", TRUE, "coins", 0),
    Wallet(<<Paid("External", 10, 1)>>, [External |-> Free], "taproot", FALSE, "coins", 1),
    Wallet(Unsettled, NoPolicy, "segwit", TRUE, "coins", 0),
    Wallet(WithStranger, NoPolicy, "legacy", TRUE, "psbt", 1),
    Wallet(WithStranger, NoPolicy, "taproot", FALSE, "psbt", 0),
    Wallet(<<Paid("External", 10, 1)>>, [External |-> Paths, Internal |-> Free], "segwit", TRUE, "locks", 1),
    Wallet(<<Paid("External", 10, 1)>>, Locks, "segwit", TRUE, "locks", 1),
    Psbts(<<Paid("External", 6, 3), Coinbase(6, 1), Paid("Internal", 9, 2)>>, Waits, Ages, "draft", 1),
    Psbts(Chain, <<NoCondition>>, <<NoCondition>>, "replace", 1)}

\* Outputs of other parties: in the graph, in part in the graph, not known.
Strangers == {<<0, 1>>} \cup {op \in {<<2, 1>>, <<3, 1>>} : Known(op) /\ TxOut(op).to = "other"}
Coinlists == {<<op>> : op \in list_unspent} \cup {<<p[1], p[2], p[1]>> : p \in {q \in list_unspent \X list_unspent : q[1] # q[2]}}

Common ==
    \/ fee_rate(2)
    \/ add_recipient(Out("other", 4))

CoinCalls ==
    \/ \E ops \in Coinlists : add_utxos(ops)
    \/ manually_selected_only
    \/ \E op \in list_unspent : unspendable({op}) \/ add_unspendable(op)
    \/ \E n \in 1..2 : exclude_below_confirmations(n)
    \/ \E c \in {"OnlyChange", "ChangeForbidden"} : change_policy(c)
    \/ drain_wallet
    \/ drain_to
    \/ version(3)
    \/ current_height(5)

LockCalls ==
    \/ \E k \in DOMAIN policy : \E p \in DOMAIN policy[k] \ {0} : policy_path(p, k)
    \/ \E l \in {Blocks(1), Blocks(5), Time(4)} : nlocktime(l)
    \/ \E n \in 0..1 : version(n)
    \/ \E s \in {Disabled("max"), Blocks(1), Blocks(2), Time(2)} : set_exact_sequence(s)
    \/ \E c \in {"OnlyChange", "ChangeForbidden"} : change_policy(c)
    \/ current_height(9)
    \/ \E op \in list_unspent : \/ add_utxos(<<op>>)
                               \/ add_foreign_utxo(op, TxOut(op).value, Disabled("rbf"), Info(TRUE, FALSE, TRUE))

OutputCalls ==
    \/ fee_rate(3)
    \/ \E n \in {0, 5} : fee_absolute(n)
    \/ \E out \in {Out("Internal", 2), Out("stealth", 3), Out("data", 0), Out("other", 1), Out("pegin", 3)} :
         add_recipient(out)
    \/ set_recipients(<<Out("other", 3)>>)
    \/ allow_dust
    \/ mweb_tx
    \/ drain_wallet
    \/ drain_to
    \/ \E o \in {"untouched", "custom"} : ordering(o)

PsbtCalls ==
    \/ \E op \in Strangers, info \in {Info(TRUE, FALSE, FALSE), Info(TRUE, TRUE, FALSE), Info(TRUE, FALSE, TRUE)} :
         add_foreign_utxo(op, IF Known(op) THEN TxOut(op).value ELSE 5, Disabled("max"), info)
    \/ \E op \in list_unspent : \/ add_foreign_utxo(op, TxOut(op).value, Disabled("rbf"), Info(FALSE, FALSE, TRUE))
                               \/ add_utxos(<<op>>)
    \/ only_witness_utxo
    \/ add_global_xpubs
    \/ \E o \in {"untouched", "custom"} : ordering(o)

Locking ==
    \/ \E op \in list_unspent : Idle(lock_outpoint(op))
    \/ \E op \in locked : Idle(unlock_outpoint(op))

PsbtCommon ==
    \/ Psbt!fee_rate(2)
    \/ Psbt!add_recipients(<<Out("other", 3)>>)

DraftCalls ==
    \/ \E op \in Coins : Psbt!add_utxos(<<op, op>>) \/ Psbt!sequence_override(op, Blocks(1))
    \/ \E op \in request.set : Psbt!remove_utxo(op)
    \/ Psbt!add_planned_input(Psbt!Planned(<<0, 1>>, 5, Disabled("max")))
    \/ Psbt!manually_selected_only
    \/ \E a \in {[after |-> Blocks(9), older |-> None], [after |-> Time(3), older |-> Blocks(9)]} :
         Psbt!add_assets(a)
    \/ Psbt!locktime(Blocks(5))
    \/ Psbt!maturity_height(9)
    \/ Psbt!coin_selection("All")
    \/ Psbt!change_script
    \/ Psbt!utxo_filter("confirmed")
    \/ Psbt!version(3)
    \/ \E s \in {Disabled("max"), Disabled("rbf")} : Psbt!fallback_sequence(s)

ReplaceCalls ==
    \/ \E ts \in SUBSET DOMAIN txs : Cardinality(ts) <= 2 /\ Psbt!replace_txs(ts)
    \/ \E op \in request.set : Psbt!remove_utxo(op)
    \/ \E op \in {<<0, 1>>, <<3, 2>>, <<5, 1>>} : 
         Psbt!add_planned_input(Psbt!Planned(op, IF Known(op) THEN TxOut(op).value ELSE 5, Disabled("rbf")))
    \/ \E op \in {<<2, 1>>, <<3, 2>>} : Psbt!add_utxos(<<op>>)
    \/ Psbt!coin_selection("All")
    \/ Psbt!change_script

\* The same coin spent elsewhere, at a higher fee.
Rival == Send(<<1, 1>>, <<Out("other", 2)>>)

Around ==
    \/ \E t \in DOMAIN txs : Psbt!Meanwhile(Mine(t))
    \/ \E op \in list_unspent : Psbt!Meanwhile(lock_outpoint(op))
    \/ \E op \in locked : Psbt!Meanwhile(unlock_outpoint(op))
    \/ Len(txs) < instance.room /\ Psbt!broadcast
    \/ Len(txs) < instance.room /\ Psbt!receive(Rival)

PsbtSteps ==
    /\ \/ PsbtCommon
       \/ instance.topic = "draft" /\ DraftCalls
       \/ instance.topic = "replace" /\ ReplaceCalls
       \/ Psbt!create_psbt
       \/ Psbt!replace_by_fee
       \/ Around
    /\ UNCHANGED <<descriptors, builder>>

Init ==
    \E w \in Wallets :
        /\ InitWith(w)
        /\ Psbt!PsbtInit(w.paths, IF w.topic \in {"draft", "replace"} THEN w.budget ELSE 0)
        /\ instance = w

Calls ==
    \/ Common
    \/ instance.topic = "coins" /\ CoinCalls
    \/ instance.topic = "locks" /\ LockCalls
    \/ instance.topic = "outputs" /\ OutputCalls
    \/ instance.topic = "psbt" /\ PsbtCalls

BuilderSteps ==
    /\ \/ build_tx
       \/ stage # "open" /\ \E t \in DOMAIN txs : build_fee_bump(t)
       \/ stage = "open" /\ budget > 0 /\ Calls
       \/ finish
       \/ instance.topic = "outputs" /\ finish_mweb_pegin
       \/ Len(txs) < instance.room /\ broadcast
       \/ \E t \in DOMAIN txs : Idle(Mine(t))
       \/ stage = "idle" /\ instance.topic = "coins" /\ Locking
    /\ UNCHANGED psbt_part

Next ==
    /\ IF instance.topic \in {"draft", "replace"} THEN PsbtSteps ELSE BuilderSteps
    /\ UNCHANGED instance

Spec == Init /\ [][Next]_mc_vars
=============================================================================

------------------------------ MODULE Spending ------------------------------
(***************************************************************************)
(* The part of the wallet's state that spending depends on, shared by the  *)
(* two ways to build a transaction (TxBuilder and CreatePsbt): the graph   *)
(* of transactions with their outputs, what is confirmed, and the locked   *)
(* outpoints.                                                              *)
(*                                                                         *)
(* A transaction is a record and its id is its position in txs; later ones *)
(* were seen later, so among conflicting unconfirmed transactions the last *)
(* wins.  An outpoint is <<transaction, output>>; transaction 0 is one the *)
(* graph does not hold.  All inputs weigh the same, and so do all outputs; *)
(* the number of either takes more room from CountLimit on.                *)
(***************************************************************************)
EXTENDS Integers, Sequences, FiniteSets, FiniteSetsExt, SequencesExt, Condition

CONSTANTS
    BaseWeight, InWeight, OutWeight,
    CountLimit,  \* inputs or outputs whose number no longer fits one byte (253),
    CountGrowth, \* and what their number then weighs more
    Dust,        \* an output of less is dust
    Maturity,    \* COINBASE_MATURITY
    InitialTip,  \* height of the chain's tip
    MaxTip,      \* bound on the height of the tip,
    MaxLocked    \* and on the number of locked outpoints

ASSUME SpendingAssumption ==
    /\ {BaseWeight, InWeight, OutWeight, CountGrowth} \subseteq Nat
    /\ {Dust, Maturity, InitialTip, MaxTip, MaxLocked} \subseteq Nat
    /\ BaseWeight > 0 /\ CountLimit \in Nat \ {0}

VARIABLES
    txs,      \* the transaction graph
    tip,      \* height of the tip of the local chain
    locked    \* locked_outpoints

wallet == <<txs, tip, locked>>

(***************************************************************************)
(* A transaction: its version, its lock time, its inputs (outpoint and     *)
(* sequence), its outputs (whom they pay, and how much), the height of the *)
(* block it is in (0: unconfirmed), whether it is a coinbase, and whether  *)
(* the graph has but its outputs (insert_txout).                           *)
(***************************************************************************)
Tx(version, lock_time, ins, outs) ==
    [version |-> version, lock_time |-> lock_time, ins |-> ins, outs |-> outs,
     height |-> 0, coinbase |-> FALSE, floating |-> FALSE]
Out(to, value) == [to |-> to, value |-> value]
In(op, sequence) == [op |-> op, sequence |-> sequence]

\* An outpoint and the data of a transaction, whatever the wallet comes across;
\* an output pays a keychain, somebody else, nobody (OP_RETURN), a peg-in or a
\* stealth address.
Outpoint == Nat \X (Nat \ {0})
Payees == {"External", "Internal", "other", "data", "pegin", "stealth"}
OutputData == [to : Payees, value : Nat]
InputData == [op : Outpoint, sequence : SequenceValues \cup {None}]
Transactions ==
    [version : Nat, lock_time : TimeLocks \cup {None}, ins : Seq(InputData), outs : Seq(OutputData),
     height : Nat, coinbase : BOOLEAN, floating : BOOLEAN]

CountWeight(n) == IF n < CountLimit THEN 0 ELSE CountGrowth
Weight(ins, outs) ==
    BaseWeight + ins * InWeight + outs * OutWeight + CountWeight(ins) + CountWeight(outs)
WeightOf(tx) == Weight(Len(tx.ins), Len(tx.outs))
SumOf(s, Value(_)) == FoldFunction(+, 0, [i \in DOMAIN s |-> Value(s[i])])
Spent(tx) == {tx.ins[i].op : i \in DOMAIN tx.ins}

\* Lists of coins: what of a list is in a set, a list without some outpoints, and
\* the first occurrences of outpoints that are not known yet.
Only(s, T) ==
    LET kept[n \in 0..Len(s)] ==
            IF n = 0 THEN <<>> ELSE IF s[n] \in T THEN Append(kept[n - 1], s[n]) ELSE kept[n - 1]
    IN  kept[Len(s)]
Without(s, ops) == Only(s, {x \in ToSet(s) : x.op \notin ops})
Fresh(ops, known) ==
    LET first == {i \in DOMAIN ops : ops[i] \notin known /\ \A j \in DOMAIN ops : j < i => ops[j] # ops[i]}
        places == Only([i \in DOMAIN ops |-> i], first)
    IN  [n \in DOMAIN places |-> ops[places[n]]]

\* TxGraph::get_txout; the outputs of transaction 0 are not known.
Known(op) == op[1] \in DOMAIN txs /\ op[2] \in DOMAIN txs[op[1]].outs
TxOut(op) == txs[op[1]].outs[op[2]]
Ours(op) == Known(op) /\ TxOut(op).to \in {"External", "Internal"}
Confirmed(t) == txs[t].height > 0

\* The outpoints a caller can name: of the graph, or of a transaction it lacks.
Nameable == {op \in Outpoint : op[1] \in 0..Len(txs)}

\* calculate_fee; CalculateFeeError unless all the spent outputs are known and
\* suffice.
FeeKnown(tx) == \A op \in Spent(tx) : Known(op)
calculate_fee(tx) ==
    SumOf(tx.ins, LAMBDA in : TxOut(in.op).value) - SumOf(tx.outs, LAMBDA out : out.value)
HasFee(tx) == FeeKnown(tx) /\ calculate_fee(tx) >= 0

-----------------------------------------------------------------------------
(***************************************************************************)
(* The canonical view: confirmed transactions with what they spend, then   *)
(* the unconfirmed ones, latest first, each with its unconfirmed           *)
(* ancestors, unless one of these conflicts with what is canonical or with *)
(* another of them.                                                        *)
(***************************************************************************)
Held == {t \in DOMAIN txs : ~txs[t].floating}
Parents(t) == {op[1] : op \in Spent(txs[t])} \cap Held
\* The ancestors of every transaction that are reached through ts alone.  Parents
\* precede their children, so the table is built from the front.
AncestorsIn(ts) ==
    LET up[t \in 0..Len(txs)] ==
            IF t = 0 THEN <<>>
            ELSE LET parents == Parents(t) \cap ts
                 IN  Append(up[t - 1], parents \cup UNION {up[t - 1][p] : p \in parents})
    IN  up[Len(txs)]
Ancestors == AncestorsIn(Held)
Descendants(t) == LET up == Ancestors IN {d \in DOMAIN txs : t \in up[d]}
Conflicting(t, u) == t # u /\ Spent(txs[t]) \cap Spent(txs[u]) # {}

Canonical ==
    LET up == Ancestors
        settled == {t \in DOMAIN txs : Confirmed(t)}
        from[t \in 1..Len(txs) + 1] ==
            IF t = Len(txs) + 1 THEN settled
            ELSE LET later == from[t + 1]
                     own == {t} \cup up[t]
                 IN  IF t \notin Held \/ \E a \in own, u \in later \cup own : Conflicting(a, u) THEN later
                     ELSE later \cup own
    IN  from[1]

\* list_unspent: outputs of the wallet's keychains no canonical transaction spends.
OutputsOf(ts) == {op \in UNION {{t} \X DOMAIN txs[t].outs : t \in ts} : Ours(op)}
Coins == OutputsOf(Canonical)
list_unspent == LET view == Canonical IN OutputsOf(view) \ UNION {Spent(txs[t]) : t \in view}

IsMature(op, height) == txs[op[1]].coinbase => height + 1 >= txs[op[1]].height + Maturity

\* Confirmations, 0 for unconfirmed outputs.
Age(op) == IF Confirmed(op[1]) THEN tip + 1 - txs[op[1]].height ELSE 0

-----------------------------------------------------------------------------
\* What holds of any graph: a transaction spends no output twice, and only
\* outputs that were there before; the chain confirms parents with their
\* children, and no two transactions that conflict.
TxSound(tx, t) ==
    /\ tx \in Transactions
    /\ \A i \in DOMAIN tx.ins : tx.ins[i].op[1] < t
    /\ \A i, j \in DOMAIN tx.ins : tx.ins[i].op = tx.ins[j].op => i = j
    /\ tx.floating => tx.ins = <<>>
GraphSound ==
    /\ txs \in Seq(Transactions)
    /\ \A t \in DOMAIN txs : TxSound(txs[t], t)
    /\ \A t \in DOMAIN txs : Confirmed(t) => \A p \in Parents(t) : Confirmed(p)
    /\ \A t, u \in DOMAIN txs : Confirmed(t) /\ Confirmed(u) => ~Conflicting(t, u)

SpendingInit(graph) ==
    /\ txs = graph
    /\ tip = InitialTip
    /\ locked = {}

\* The transaction was signed and broadcast, and the wallet saw it.
Seen(tx) ==
    /\ txs' = Append(txs, tx)
    /\ UNCHANGED <<tip, locked>>

\* A block with an unconfirmed transaction and its unconfirmed ancestors.
Mine(t) ==
    /\ t \in Canonical
    /\ ~Confirmed(t)
    /\ tip < MaxTip
    /\ tip' = tip + 1
    /\ txs' = [u \in DOMAIN txs |->
                 IF u \in {t} \cup Ancestors[t] /\ ~Confirmed(u)
                 THEN [txs[u] EXCEPT !.height = tip + 1] ELSE txs[u]]
    /\ UNCHANGED locked

lock_outpoint(op) ==
    /\ op \in list_unspent
    /\ Cardinality(locked) < MaxLocked
    /\ locked' = locked \cup {op}
    /\ UNCHANGED <<txs, tip>>

unlock_outpoint(op) ==
    /\ op \in locked
    /\ locked' = locked \ {op}
    /\ UNCHANGED <<txs, tip>>
=============================================================================

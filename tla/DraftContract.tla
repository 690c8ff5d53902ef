---------------------------- MODULE DraftContract ----------------------------
(***************************************************************************)
(* What a caller of Wallet::create_psbt and replace_by_fee                 *)
(* (src/src/wallet/mod.rs) relies on in a transaction that was just        *)
(* drafted, whatever happened to the wallet since the parameters were      *)
(* collected.  A draft d is the transaction d.tx and the parameters d.of   *)
(* it was made of.                                                         *)
(***************************************************************************)
EXTENDS Spending

VARIABLE drafted    \* the transaction of the last step, if that drafted one

\* No coin is listed twice, and coins the caller did not list are unspent in the
\* wallet's view of this moment, not of the moment the parameters were collected,
\* and not locked.
SpendsOnce(d) ==
    /\ \A i, j \in DOMAIN d.tx.ins : d.tx.ins[i].op = d.tx.ins[j].op => i = j
    /\ Spent(d.tx) \ d.of.set \subseteq list_unspent \ locked
DraftSpendsOnce == drafted.done => SpendsOnce(drafted)

\* A replacement conflicts with every transaction it is meant to replace, however
\* inputs were listed and removed before: otherwise both could confirm, and pay
\* the recipients twice.
Conflicts(d) == \A t \in d.of.replace : Spent(txs[t]) \cap Spent(d.tx) # {}
ReplacementConflicts == drafted.done => Conflicts(drafted)

\* The fees of transactions whose inputs are known.
FeeOf(ts) == SumOf(SetToSeq(ts), LAMBDA t : calculate_fee(txs[t]))

\* A replacement of transactions that are still in the wallet's view pays for
\* everything it evicts, descendants of its originals included, and for its own
\* relay; and it spends nothing that goes with them.  (Planned inputs that some
\* other transaction spends already are the caller's responsibility.)
Evicted(tx) ==
    LET direct == {t \in Canonical : ~Confirmed(t) /\ Spent(txs[t]) \cap Spent(tx) # {}}
    IN  direct \cup UNION {Descendants(t) : t \in direct}
WorthIn(d, op) ==
    IF Known(op) THEN TxOut(op).value
    ELSE LET i == CHOOSE i \in DOMAIN d.of.must_spend : d.of.must_spend[i].op = op
         IN  d.of.must_spend[i].value
DraftFee(d) == SumOf(d.tx.ins, LAMBDA in : WorthIn(d, in.op)) - SumOf(d.tx.outs, LAMBDA out : out.value)
Entangled(d) ==
    \E i \in DOMAIN d.of.must_spend :
        /\ d.of.must_spend[i].planned
        /\ \E t \in Canonical : d.of.must_spend[i].op \in Spent(txs[t])
Pays(d) ==
    (d.of.replace # {} /\ d.of.replace \subseteq Canonical /\ ~Entangled(d)) =>
        /\ DraftFee(d) >= FeeOf({t \in Evicted(d.tx) \cap Canonical : HasFee(txs[t])}) + WeightOf(d.tx)
        /\ \A op \in Spent(d.tx) : op[1] \notin Evicted(d.tx)
ReplacementPays == drafted.done => Pays(drafted)

\* Planned with the locks the chain grants (the caller named none), a draft can
\* be mined in the very next block: its lock time has passed, and every coin with
\* a relative lock is old enough, however the chain grew since the parameters were
\* collected.  Coins taken of the wallet's own accord are mature, too.  (The
\* sequences of planned inputs are the caller's responsibility.)
Minable(d) ==
    LET of == d.of
        planned == {of.must_spend[i].op : i \in {j \in DOMAIN of.must_spend : of.must_spend[j].planned}}
    IN  (/\ of.assets = [after |-> None, older |-> None] /\ of.min_locktime = Blocks(0)
         /\ of.maturity_height = -1 /\ ~IsLock(of.fallback_sequence)) =>
            /\ d.tx.lock_time.unit = "blocks" /\ d.tx.lock_time.n <= tip
            /\ \A i \in DOMAIN d.tx.ins :
                 LET in == d.tx.ins[i]
                     parent == txs[in.op[1]]
                     mined == IF Confirmed(in.op[1]) THEN parent.height ELSE tip + 1
                 IN  Ours(in.op) /\ in.op \notin DOMAIN of.sequence_overrides \cup planned =>
                       /\ in.sequence.unit = "blocks" => mined + in.sequence.n <= tip + 1
                       /\ parent.coinbase /\ in.op \notin of.set => parent.height + Maturity <= tip + 1
MinableNext == drafted.done => Minable(drafted)
=============================================================================

------------------------------ MODULE CreatePsbt ------------------------------
(***************************************************************************)
(* The second way to build a transaction: PsbtParams                       *)
(* (src/src/psbt/params.rs) and Wallet::create_psbt, replace_by_fee        *)
(* (src/src/wallet/mod.rs).  Unlike a TxBuilder, the parameters do not     *)
(* borrow the wallet: blocks and transactions may come between the calls,  *)
(* so what is collected can be stale when the transaction is drafted.      *)
(*                                                                         *)
(* A keychain's descriptor is the sequence of its spending paths, lightest *)
(* first, each given by the time locks it demands.  Planning, selection    *)
(* and the assembly of the PSBT are bdk-tx's and miniscript's, modelled    *)
(* from how the wallet uses them.  Left out: anti_fee_sniping_height,      *)
(* canonicalization_params, and what only the PSBT's layout depends on.    *)
(* A draft with change to the wallet also reveals that address and stages  *)
(* it, as Wallet!reveal_addresses_to does: it is not marked as used.       *)
(***************************************************************************)
EXTENDS DraftContract

VARIABLES
    paths,      \* [keychain -> sequence of Conditions]
    request,    \* PsbtParams
    calls       \* calls that may still be made (a bound)

psbt_vars == <<wallet, paths, request, calls, drafted>>

\* An entry of must_spend: a coin of the wallet, or one with its plan.
Utxo(op) == [op |-> op, planned |-> FALSE, value |-> 0, sequence |-> None]
Planned(op, value, sequence) == [op |-> op, planned |-> TRUE, value |-> value, sequence |-> sequence]

\* PsbtParams::default; replacing is the type parameter, CreateTx or ReplaceTx.
Default ==
    [replacing |-> FALSE, set |-> {}, must_spend |-> <<>>, recipients |-> <<>>,
     change_script |-> FALSE, assets |-> [after |-> None, older |-> None], fee_rate |-> 1,
     coin_selection |-> "SingleRandomDraw", utxo_filter |-> "any", maturity_height |-> -1,
     manually_selected_only |-> FALSE, version |-> 2, min_locktime |-> Blocks(0),
     replace |-> {}, sequence_overrides |-> <<>>, fallback_sequence |-> None]

Nothing == [done |-> FALSE, tx |-> Tx(2, None, <<>>, <<>>), of |-> Default]

PsbtInit(descriptors, bound) ==
    /\ paths = descriptors
    /\ request = Default
    /\ calls = bound
    /\ drafted = Nothing

-----------------------------------------------------------------------------
(***************************************************************************)
(* Collecting parameters.                                                  *)
(***************************************************************************)
Set(r) ==
    /\ calls > 0
    /\ calls' = calls - 1
    /\ request' = r
    /\ drafted' = Nothing
    /\ UNCHANGED <<wallet, paths>>

\* A seeded bug: outpoints are not deduplicated.
Relisted(r, ops) ==
    [r EXCEPT !.set = @ \cup ToSet(ops), !.must_spend = @ \o [i \in DOMAIN ops |-> Utxo(ops[i])]]

\* An outpoint that is listed already is not listed again.
Listed(r, ops) ==
    LET new == Fresh(ops, r.set)
    IN  [r EXCEPT !.set = @ \cup ToSet(ops), !.must_spend = @ \o [i \in DOMAIN new |-> Utxo(new[i])]]

add_utxos(ops) == ~request.replacing /\ Set(Listed(request, ops))
add_planned_input(item) ==
    /\ ~request.replacing
    /\ Set(IF item.op \in request.set THEN request
           ELSE [request EXCEPT !.set = @ \cup {item.op}, !.must_spend = Append(@, item)])

\* A seeded bug: the outpoint is still taken for selected.
remove_utxo_half(op) == Set([request EXCEPT !.must_spend = Without(@, {op})])

remove_utxo(op) == Set([request EXCEPT !.set = @ \ {op}, !.must_spend = Without(@, {op})])

manually_selected_only == Set([request EXCEPT !.manually_selected_only = TRUE])
\* Of the time locks, the last ones count.
add_assets(a) ==
    Set([request EXCEPT !.assets = [l \in DOMAIN a |-> IF a[l] = None THEN @[l] ELSE a[l]]])
add_recipients(outs) == Set([request EXCEPT !.recipients = @ \o outs])
locktime(l) == Set([request EXCEPT !.min_locktime = l])
maturity_height(h) == Set([request EXCEPT !.maturity_height = h])
fee_rate(n) == Set([request EXCEPT !.fee_rate = n])
coin_selection(strategy) == Set([request EXCEPT !.coin_selection = strategy])
change_script == Set([request EXCEPT !.change_script = TRUE])
utxo_filter(f) == Set([request EXCEPT !.utxo_filter = f])
version(n) == Set([request EXCEPT !.version = n])
sequence_override(op, s) ==
    Set([request EXCEPT !.sequence_overrides =
           [o \in DOMAIN @ \cup {op} |-> IF o = op THEN s ELSE @[o]]])
fallback_sequence(s) == Set([request EXCEPT !.fallback_sequence = s])

(***************************************************************************)
(* replace_txs: the wallet's inputs of the transactions take the place of  *)
(* the coins listed so far.  Transactions with an ancestor among them are  *)
(* dropped one by one, in the order of a hash map, and so are coinbases.   *)
(***************************************************************************)
Dropped(ts, left, t) == txs[t].coinbase \/ AncestorsIn(ts)[t] \cap left # {}
Sanitized(ts, order) ==
    LET left[n \in 0..Len(order)] ==
            IF n = 0 THEN ts
            ELSE left[n - 1] \ {t \in {order[n]} : Dropped(ts, left[n - 1], t)}
    IN  left[Len(order)]

\* The inputs of the transactions that are left, in the same order.
InputsOf(ts, order) ==
    LET ops[n \in 0..Len(order)] ==
            IF n = 0 THEN <<>>
            ELSE IF order[n] \notin ts THEN ops[n - 1]
            ELSE ops[n - 1] \o [i \in DOMAIN txs[order[n]].ins |-> txs[order[n]].ins[i].op]
    IN  ops[Len(order)]

\* Planned inputs stay unless they spend an output of what is replaced.
Kept(ts) ==
    Only(request.must_spend, {item \in ToSet(request.must_spend) : item.planned /\ item.op[1] \notin ts})

replace_txs(ts) ==
    /\ ~request.replacing
    /\ \E order \in SetToSeqs(ts) :
         LET left == Sanitized(ts, order)
             kept == Kept(left)
             cleared == [request EXCEPT !.replacing = TRUE, !.replace = left, !.must_spend = kept,
                                        !.set = {kept[i].op : i \in DOMAIN kept}]
         IN  Set(Listed(cleared, InputsOf(left, order)))

-----------------------------------------------------------------------------
(***************************************************************************)
(* Planning an input.                                                      *)
(***************************************************************************)
\* A seeded bug: the age in the block after the next.
OlderThanNext(op) == IF Confirmed(op[1]) THEN Blocks(tip + 2 - txs[op[1]].height) ELSE Blocks(0)

\* The relative lock an output can grant in the next block.
Older(op) == Blocks(Age(op))

\* plan_input and try_plan: the lightest path whose locks the assets grant; those
\* the caller did not name are taken from the chain.
Grants(have, lock) == lock = None \/ (SameUnit(have, lock) /\ have.n >= lock.n)
plan_input(op) ==
    LET a == request.assets
        after == IF a.after = None THEN Blocks(tip) ELSE a.after
        older == IF a.older = None THEN Older(op) ELSE a.older
        open == {i \in DOMAIN paths[TxOut(op).to] :
                   /\ Grants(after, paths[TxOut(op).to][i].timelock)
                   /\ Grants(older, paths[TxOut(op).to][i].csv)}
    IN  IF open = {} \/ op[1] \notin Held THEN Incompatible ELSE paths[TxOut(op).to][Min(open)]

\* Input::set_sequence: the sequence grants the path's locks.
SequenceAllowed(s, c) ==
    /\ c.csv # None => check_nsequence_rbf(s, c.csv)
    /\ c.timelock # None => s # Disabled("max")

\* The inputs of a draft.  Without a sequence, bdk-tx chooses one.
Input(op, value, sequence, c) == [op |-> op, value |-> value, sequence |-> sequence, cond |-> c]
Fallback(c) == IF c.csv = None THEN request.fallback_sequence ELSE c.csv
WalletInput(op) == Input(op, TxOut(op).value, Fallback(plan_input(op)), plan_input(op))

\* build_must_spend_inputs.  UnknownUtxo (the wallet's outputs, spent or not, are
\* known), Plan, Sequence.
Overridden(op) == op \in DOMAIN request.sequence_overrides
MustSpendRefused(item) ==
    /\ ~item.planned
    /\ \/ item.op \notin Coins
       \/ ~plan_input(item.op).ok
       \/ Overridden(item.op) /\ ~SequenceAllowed(request.sequence_overrides[item.op], plan_input(item.op))
       \/ ~Overridden(item.op) /\ Fallback(plan_input(item.op)) # None
            /\ ~SequenceAllowed(Fallback(plan_input(item.op)), plan_input(item.op))
MustSpendInput(item) ==
    IF item.planned THEN Input(item.op, item.value, item.sequence, NoCondition)
    ELSE IF Overridden(item.op)
    THEN [WalletInput(item.op) EXCEPT !.sequence = request.sequence_overrides[item.op]]
    ELSE WalletInput(item.op)
MustSpend == [i \in DOMAIN request.must_spend |-> MustSpendInput(request.must_spend[i])]

\* filter_spendable; then the candidates that cannot be planned are skipped.
MaturityHeight == IF request.maturity_height = -1 THEN tip ELSE request.maturity_height
Wanted(op) == request.utxo_filter = "confirmed" => Confirmed(op[1])
filter_spendable == {op \in list_unspent \ (request.set \cup locked) : IsMature(op, MaturityHeight)}
MaySpend(allowed) ==
    IF request.manually_selected_only THEN {}
    ELSE {op \in filter_spendable \cap allowed : Wanted(op) /\ plan_input(op).ok}
\* A fallback sequence that no candidate's path may refuse.
CandidatesRefused(ops) ==
    \E op \in ops : Fallback(plan_input(op)) # None /\ ~SequenceAllowed(Fallback(plan_input(op)), plan_input(op))

-----------------------------------------------------------------------------
(***************************************************************************)
(* Selecting coins (bdk-tx's Selector): the fee is at least the rate for   *)
(* the weight; a replacement pays a rate no lower than its originals, and  *)
(* for its own relay on top of what is replaced, floor.                    *)
(***************************************************************************)
Needed(ins, outs, rate, floor) ==
    LET weight == Weight(ins, outs)
    IN  Max({rate * weight} \cup IF floor < 0 THEN {} ELSE {floor + weight})
Rest(selected, outs, rate, floor) ==
    SumOf(selected, LAMBDA in : in.value) - SumOf(request.recipients, LAMBDA out : out.value)
      - Needed(Len(selected), outs, rate, floor)
Funds(selected, rate, floor) == Rest(selected, Len(request.recipients), rate, floor) >= 0
Outputs(selected, rate, floor) ==
    LET change == Rest(selected, Len(request.recipients) + 1, rate, floor)
    IN  request.recipients \o
          (IF change < Dust THEN <<>>
           ELSE <<Out(IF request.change_script THEN "other" ELSE "Internal", change)>>)

WalletInputs(ops) == LET s == SetToSeq(ops) IN [i \in DOMAIN s |-> WalletInput(s[i])]
\* What the strategies may select: all, or enough.
Selected(may, rate, floor) ==
    {s \in {MustSpend \o WalletInputs(ops) :
              ops \in IF request.coin_selection = "All" THEN {may} ELSE SUBSET may} :
        Funds(s, rate, floor)}

\* The lock time is the latest of those asked for; they must have one unit.
LockTimes(selected) ==
    {request.min_locktime} \cup
    {selected[i].cond.timelock : i \in {j \in DOMAIN selected : selected[j].cond.timelock # None}}
Demanded(selected) == {l \in LockTimes(selected) : l # Blocks(0)}
UnitsClash(selected) == \E l, m \in Demanded(selected) : ~SameUnit(l, m)
LockTime(selected) ==
    IF Demanded(selected) = {} THEN Blocks(0)
    ELSE CHOOSE l \in Demanded(selected) : \A m \in Demanded(selected) : m.n <= l.n

\* The parameters are consumed, by a success or by an error.
Fail ==
    /\ request' = Default
    /\ drafted' = Nothing
    /\ UNCHANGED <<wallet, paths, calls>>
Draft(s, rate, floor) ==
    /\ drafted' = [done |-> TRUE, of |-> request,
                   tx |-> Tx(request.version, LockTime(s),
                             [i \in DOMAIN s |-> In(s[i].op, s[i].sequence)], Outputs(s, rate, floor))]
    /\ request' = Default
    /\ UNCHANGED <<wallet, paths, calls>>

\* NoRecipients unless the coins are swept to a script.
NoRecipients ==
    request.recipients = <<>> /\ ~(request.coin_selection = "All" /\ request.change_script)
MustSpendFails == \E i \in DOMAIN request.must_spend : MustSpendRefused(request.must_spend[i])

\* create_psbt_from_selector.  InsufficientFunds, CannotMeetTarget,
\* AllOutputsBelowDust, or lock times of two units.
FromSelector(may, rate, floor) ==
    LET options == Selected(may, rate, floor)
    IN  IF (MustSpend = <<>> /\ may = {}) \/ options = {} THEN Fail
        ELSE \E s \in options :
               IF Outputs(s, rate, floor) = <<>> \/ UnitsClash(s) THEN Fail ELSE Draft(s, rate, floor)

create_psbt ==
    LET may == MaySpend(list_unspent)
    IN  /\ ~request.replacing
        /\ IF NoRecipients \/ MustSpendFails \/ CandidatesRefused(may) THEN Fail
           ELSE FromSelector(may, request.fee_rate, -1)

-----------------------------------------------------------------------------
(***************************************************************************)
(* replace_by_fee.                                                         *)
(***************************************************************************)
\* A seeded bug: descendants are not looked at.
OriginalsOnly == {}

\* What goes with the transactions that are replaced.
DescendantsOf == (UNION {Descendants(t) : t \in request.replace}) \ request.replace
ToReplace == request.replace \cup DescendantsOf

\* TransactionConfirmed, NoInputsFromOriginal, ConflictingInput, PreviousFee.
ReplacementRefused ==
    \/ request.replace = {}
    \/ \E t \in request.replace : t \in Canonical /\ Confirmed(t)
    \/ \E t \in request.replace : Spent(txs[t]) \cap request.set = {}
    \/ \E i \in DOMAIN request.must_spend : request.must_spend[i].op[1] \in ToReplace
    \/ \E t \in request.replace : ~HasFee(txs[t])

\* Descendants whose fee is not known do not count.
Floor == FeeOf(request.replace) + FeeOf({t \in DescendantsOf : HasFee(txs[t])})
OriginalRate == Max({calculate_fee(txs[t]) \div WeightOf(txs[t]) : t \in request.replace})

replace_by_fee ==
    LET gone == ToReplace
        may == MaySpend({op \in list_unspent : op[1] \notin gone /\ Confirmed(op[1])})
    IN  /\ request.replacing
        /\ IF NoRecipients \/ MustSpendFails \/ ReplacementRefused \/ CandidatesRefused(may) THEN Fail
           ELSE FromSelector(may, Max({request.fee_rate, OriginalRate}), Floor)

-----------------------------------------------------------------------------
(***************************************************************************)
(* What happens to the wallet meanwhile.                                   *)
(***************************************************************************)
Meanwhile(A) ==
    /\ A
    /\ drafted' = Nothing
    /\ UNCHANGED <<paths, request, calls>>

\* The draft is broadcast, or another transaction that spends the wallet's coins.
broadcast == drafted.done /\ Meanwhile(Seen(drafted.tx))
receive(tx) == (\A op \in Spent(tx) : Known(op)) /\ Meanwhile(Seen(tx))

-----------------------------------------------------------------------------
(***************************************************************************)
(* The specification: any wallet with two keychains, any parameters, and   *)
(* any transactions and blocks meanwhile.  MCSpending runs it on wallets   *)
(* and arguments of its own.                                               *)
(***************************************************************************)
PathsSound == paths \in [{"External", "Internal"} -> Seq({c \in Conditions : c.ok})]

PsbtStart ==
    /\ GraphSound /\ tip = InitialTip /\ locked = {}
    /\ PathsSound
    /\ PsbtInit(paths, calls) /\ calls \in Nat

AnyParameter ==
    \/ \E ops \in Seq(Nameable) : add_utxos(ops)
    \/ \E op \in Nameable, value \in Nat, s \in SequenceValues \cup {None} :
         (Known(op) => value = TxOut(op).value) /\ add_planned_input(Planned(op, value, s))
    \/ \E op \in Nameable : remove_utxo(op)
    \/ \E op \in Nameable, s \in SequenceValues : sequence_override(op, s)
    \/ \E after, older \in TimeLocks \cup {None} : add_assets([after |-> after, older |-> older])
    \/ \E outs \in Seq(OutputData) : add_recipients(outs)
    \/ \E l \in TimeLocks : locktime(l)
    \/ \E n \in Nat : maturity_height(n) \/ fee_rate(n) \/ version(n)
    \/ \E strategy \in {"SingleRandomDraw", "All"} : coin_selection(strategy)
    \/ \E f \in {"any", "confirmed"} : utxo_filter(f)
    \/ \E s \in SequenceValues : fallback_sequence(s)
    \/ manually_selected_only
    \/ change_script
    \/ \E ts \in SUBSET Held : replace_txs(ts)

PsbtNext ==
    \/ AnyParameter
    \/ create_psbt
    \/ replace_by_fee
    \/ broadcast
    \/ \E tx \in Transactions : tx.height = 0 /\ TxSound(tx, Len(txs) + 1) /\ Meanwhile(Seen(tx))
    \/ \E t \in DOMAIN txs : Meanwhile(Mine(t))
    \/ \E op \in list_unspent : Meanwhile(lock_outpoint(op))
    \/ \E op \in locked : Meanwhile(unlock_outpoint(op))

PsbtSpec == PsbtStart /\ [][PsbtNext]_psbt_vars

=============================================================================

------------------------------ MODULE TxBuilder ------------------------------
(***************************************************************************)
(* Building and replacing transactions: TxBuilder                          *)
(* (src/src/wallet/tx_builder.rs) collects parameters, one action per      *)
(* setter, and finish turns them into a transaction (Wallet::create_tx,    *)
(* build_fee_bump in src/src/wallet/mod.rs).  The builder borrows the      *)
(* wallet, so nothing else happens to the wallet while one is open.        *)
(*                                                                         *)
(* The spending policies are given by the conditions they put on every     *)
(* policy path (path 0: none named), the descriptor by its kind of script. *)
(* Which change address is used is in Wallet and AddressReuse; coins are   *)
(* selected as SelectionContract says.                                     *)
(***************************************************************************)
EXTENDS Spending

CONSTANT FeeUnit   \* a fee rate is per so much weight (1000)

ASSUME FeeUnitAssumption == FeeUnit \in Nat \ {0}

VARIABLES
    policy,      \* [keychain -> [path -> Condition]], one or two keychains
    kind,        \* the descriptors are "legacy", "segwit" or "taproot"
    rooted,      \* whether the origin of every extended key is known
    stage,       \* "idle", "open" (a builder exists), "built" (finish succeeded)
    params,      \* TxParams
    original,    \* the transaction a fee bump replaces, 0 for build_tx
    budget,      \* setters that may still be called (a bound)
    named,       \* outpoints the caller passed to the builder
    built        \* the transaction finish returned, and its PSBT inputs

descriptors == <<policy, kind, rooted>>
builder == <<stage, params, original, budget, named, built>>
vars == <<wallet, descriptors, builder>>

Select == INSTANCE SelectionContract
            WITH FeeUnit <- FeeUnit, DrainWeight <- OutWeight, Dust <- Dust

Unset == -1
Nothing == [tx |-> Tx(2, None, <<>>, <<>>), inputs |-> <<>>]

\* What a PSBT input tells a signer: witness_utxo (and if that is a taproot
\* output) and non_witness_utxo.
Info(witness, tap, full) == [witness |-> witness, tap |-> tap, full |-> full]

\* WeightedUtxo: a foreign one brings its sequence and its PSBT input.
Foreign(op, value, sequence, info) ==
    [op |-> op, value |-> value, weight |-> InWeight, local |-> FALSE,
     sequence |-> sequence, info |-> info]
Local(op) ==
    [op |-> op, value |-> TxOut(op).value, weight |-> InWeight, local |-> TRUE,
     sequence |-> None, info |-> Info(FALSE, FALSE, FALSE)]
Ops(utxos) == {utxos[i].op : i \in DOMAIN utxos}

\* TxParams::default.  The default rate is BROADCAST_MIN, 1 here.
Default ==
    [recipients |-> <<>>, drain_wallet |-> FALSE, drain_to |-> FALSE,
     fee |-> [policy |-> "rate", n |-> 1],
     path |-> [External |-> 0, Internal |-> 0],
     utxos |-> <<>>, unspendable |-> {}, manually_selected_only |-> FALSE,
     ordering |-> "shuffle", locktime |-> None, sequence |-> None, version |-> Unset,
     change_policy |-> "ChangeAllowed", only_witness_utxo |-> FALSE,
     add_global_xpubs |-> FALSE, bumping_fee |-> [absolute |-> Unset, rate |-> Unset],
     current_height |-> Unset, allow_dust |-> FALSE, mweb_tx |-> FALSE]

-----------------------------------------------------------------------------
(***************************************************************************)
(* Opening a builder.                                                      *)
(***************************************************************************)
Open(p, t) ==
    /\ stage \in {"idle", "built"}
    /\ stage' = "open"
    /\ params' = p
    /\ original' = t
    /\ named' = {}
    /\ built' = Nothing
    /\ UNCHANGED <<wallet, descriptors, budget>>

build_tx == Open(Default, 0)

\* map_keychain(Internal).
ChangeKeychain == IF "Internal" \in DOMAIN policy THEN "Internal" ELSE "External"

\* The outputs without the last one that pays the change keychain, if there are
\* several: the new transaction makes its own change.
DropChange(outs) ==
    LET change == {i \in DOMAIN outs : outs[i].to = ChangeKeychain}
    IN  IF Len(outs) > 1 /\ change # {} THEN RemoveAt(outs, Max(change)) ELSE outs

\* Inputs the wallet can sign come without their old sequence, others with it.
OriginalUtxo(in) ==
    IF Ours(in.op) THEN Local(in.op)
    ELSE Foreign(in.op, TxOut(in.op).value, in.sequence,
                 Info(kind # "legacy", kind = "taproot", in.op[1] \in Held))

\* TransactionNotFound, TransactionConfirmed, IrreplaceableTransaction,
\* FeeRateUnavailable (which precedes UnknownUtxo), or an input's transaction
\* that is not canonical.
Replaceable(t) ==
    /\ ~Confirmed(t)
    /\ t \in Canonical
    /\ \E i \in DOMAIN txs[t].ins : SignalsRbf(txs[t].ins[i].sequence)
    /\ HasFee(txs[t])
    /\ \A op \in Spent(txs[t]) : Ours(op) => op[1] \in Canonical

build_fee_bump(t) ==
    LET tx == txs[t]
        fee == calculate_fee(tx)
    IN  /\ Replaceable(t)
        /\ Open([Default EXCEPT
                   !.version = tx.version,
                   !.recipients = DropChange(tx.outs),
                   !.utxos = [i \in DOMAIN tx.ins |-> OriginalUtxo(tx.ins[i])],
                   !.bumping_fee = [absolute |-> fee, rate |-> (fee * FeeUnit) \div WeightOf(tx)]], t)

-----------------------------------------------------------------------------
(***************************************************************************)
(* The setters.                                                            *)
(***************************************************************************)
Call(p, ops) ==
    /\ stage = "open"
    /\ budget > 0
    /\ budget' = budget - 1
    /\ params' = p
    /\ named' = named \cup ops
    /\ UNCHANGED <<wallet, descriptors, stage, original, built>>
Set(p) == Call(p, {})

fee_rate(n) == Set([params EXCEPT !.fee = [policy |-> "rate", n |-> n]])
fee_absolute(n) == Set([params EXCEPT !.fee = [policy |-> "amount", n |-> n]])
policy_path(path, keychain) == Set([params EXCEPT !.path[keychain] = path])

\* A seeded bug: a coin that was added before is kept at its place, too.
Readd(ops) == params.utxos \o [i \in DOMAIN ops |-> Local(ops[i])]

\* The list with the outpoints moved to its end, as the wallet's own coins.
Added(ops) == Without(params.utxos, ToSet(ops)) \o [i \in DOMAIN ops |-> Local(ops[i])]

\* add_utxos, add_utxo.  Of outpoints given twice the first counts; UnknownUtxo
\* leaves the builder as it was.
add_utxos(ops) ==
    /\ ToSet(ops) \subseteq list_unspent
    /\ Call([params EXCEPT !.utxos = Added(Fresh(ops, {}))], ToSet(ops))

\* add_foreign_utxo_with_sequence (add_foreign_utxo: with "max"), for a PSBT
\* input that agrees with the outpoint and says something about it (InvalidTxid,
\* InvalidOutpoint, MissingUtxo).  A coin listed as the wallet's own stays so.
add_foreign_utxo(op, value, sequence, info) ==
    LET same(u) == u.op = op
        own == \E i \in DOMAIN params.utxos : same(params.utxos[i]) /\ params.utxos[i].local
        others == Without(params.utxos, {op})
    IN  /\ info.witness \/ info.full
        /\ Call(IF own THEN params
                ELSE [params EXCEPT !.utxos = Append(others, Foreign(op, value, sequence, info))],
                {op})

manually_selected_only == Set([params EXCEPT !.manually_selected_only = TRUE])
unspendable(ops) == Set([params EXCEPT !.unspendable = ops])
add_unspendable(op) == Set([params EXCEPT !.unspendable = @ \cup {op}])

\* exclude_unconfirmed is exclude_below_confirmations(1).
exclude_below_confirmations(min) ==
    Set([params EXCEPT !.unspendable = @ \cup {op \in list_unspent : Age(op) < min}])

ordering(o) == Set([params EXCEPT !.ordering = o])
nlocktime(l) == Set([params EXCEPT !.locktime = l])
version(n) == Set([params EXCEPT !.version = n])
\* do_not_spend_change and only_spend_change set ChangeForbidden and OnlyChange.
change_policy(c) == Set([params EXCEPT !.change_policy = c])
only_witness_utxo == Set([params EXCEPT !.only_witness_utxo = TRUE])
add_global_xpubs == Set([params EXCEPT !.add_global_xpubs = TRUE])
drain_wallet == Set([params EXCEPT !.drain_wallet = TRUE])
set_exact_sequence(s) == Set([params EXCEPT !.sequence = s])
current_height(h) == Set([params EXCEPT !.current_height = h])
allow_dust == Set([params EXCEPT !.allow_dust = TRUE])
set_recipients(outs) == Set([params EXCEPT !.recipients = outs])
\* add_data: a recipient "data" and no value; add_mweb_pegin: a "pegin" output.
add_recipient(out) == Set([params EXCEPT !.recipients = Append(@, out)])
mweb_tx == Set([params EXCEPT !.mweb_tx = TRUE])
drain_to == Set([params EXCEPT !.drain_to = TRUE])

-----------------------------------------------------------------------------
(***************************************************************************)
(* create_tx: first what the policies and the parameters settle.           *)
(***************************************************************************)
requires_path(keychain) == ~policy[keychain][0].ok

\* SpendingPolicyRequired: coins of the keychain may be spent, and no path is named.
PathMissing ==
    \/ /\ params.change_policy # "OnlyChange"
       /\ requires_path("External") /\ params.path["External"] = 0
    \/ /\ params.change_policy # "ChangeForbidden" /\ "Internal" \in DOMAIN policy
       /\ requires_path("Internal") /\ params.path["Internal"] = 0

\* A seeded bug: only the external policy is asked.
ExternalRequirements == policy["External"][params.path["External"]]

\* What both policies demand, for the paths that were named.
Requirements ==
    merge(policy["External"][params.path["External"]],
          IF "Internal" \in DOMAIN policy THEN policy["Internal"][params.path["Internal"]]
          ELSE NoCondition)

Version == IF params.version = Unset THEN 2 ELSE params.version
VersionRefused == Version = 0 \/ (Version = 1 /\ Requirements.csv # None)

Height == IF params.current_height = Unset THEN tip ELSE params.current_height

\* Without a requested lock time, the current height (against fee sniping) or
\* what is required, if that is later or a time.
LockTime ==
    LET required == Requirements.timelock
    IN  IF params.locktime # None THEN params.locktime
        ELSE IF required = None \/ (required.unit = "blocks" /\ required.n < Height) THEN Blocks(Height)
        ELSE required
LockTimeRefused ==
    LET required == Requirements.timelock
    IN  /\ params.locktime # None /\ required # None
        /\ ~(SameUnit(required, params.locktime) /\ params.locktime.n >= required.n)

\* The sequence of the wallet's own inputs.
Sequence ==
    IF params.sequence # None THEN params.sequence
    ELSE IF Requirements.csv # None THEN Requirements.csv
    ELSE Disabled("rbf")
SequenceRefused ==
    /\ params.sequence # None /\ Requirements.csv # None
    /\ ~check_nsequence_rbf(params.sequence, Requirements.csv)

\* A seeded bug: a bump may lower the rate.
OnlyAmountTooLow ==
    params.fee.policy = "amount" /\ params.fee.n < params.bumping_fee.absolute

\* FeeTooLow, FeeRateTooLow: a bump pays no less, or a higher rate.
FeeRefused ==
    /\ params.bumping_fee.absolute # Unset
    /\ params.fee.n < IF params.fee.policy = "amount" THEN params.bumping_fee.absolute
                      ELSE params.bumping_fee.rate + 1
Rate == IF params.fee.policy = "rate" THEN params.fee.n ELSE 0
FixedFee == IF params.fee.policy = "amount" THEN params.fee.n ELSE 0

\* NoUtxosSelected; MwebPegInRequiresKernel for a stealth address, whose script
\* is empty; OutputBelowDustLimit.
NothingSelected == params.manually_selected_only /\ params.utxos = <<>>
RecipientRefused ==
    \E i \in DOMAIN params.recipients :
        LET out == params.recipients[i]
        IN  out.to = "stealth" \/ (~params.allow_dust /\ out.value < Dust /\ out.to # "data")

Refused ==
    \/ PathMissing \/ ~Requirements.ok
    \/ VersionRefused \/ LockTimeRefused \/ SequenceRefused
    \/ FeeRefused \/ NothingSelected \/ RecipientRefused

-----------------------------------------------------------------------------
(***************************************************************************)
(* Then the coins.                                                         *)
(***************************************************************************)
\* A seeded bug: only TRUC transactions look at what they spend.
TrucLooks(op) == Confirmed(op[1]) \/ (Version = 3 => txs[op[1]].version = 3)

\* TRUC (BIP 431): unconfirmed outputs are spent by transactions of their kind.
TrucAllows(op) == Confirmed(op[1]) \/ (txs[op[1]].version = 3 <=> Version = 3)

ChangePolicyAllows(op) ==
    \/ DOMAIN policy = {"External"}
    \/ CASE params.change_policy = "ChangeAllowed" -> TRUE
         [] params.change_policy = "OnlyChange" -> TxOut(op).to = "Internal"
         [] params.change_policy = "ChangeForbidden" -> TxOut(op).to = "External"

\* A seeded bug: a bump may add unconfirmed coins.
filter_utxos_unconfirmed ==
    IF params.manually_selected_only THEN {}
    ELSE {op \in list_unspent \ locked :
            /\ IsMature(op, Height) /\ TrucAllows(op) /\ ChangePolicyAllows(op)
            /\ op \notin Ops(params.utxos) \cup params.unspendable}

\* filter_utxos: the coins that may be added to those the caller named.
filter_utxos ==
    IF params.manually_selected_only THEN {}
    ELSE {op \in list_unspent \ locked :
            /\ IsMature(op, Height) /\ TrucAllows(op) /\ ChangePolicyAllows(op)
            /\ op \notin Ops(params.utxos) \cup params.unspendable
            /\ params.bumping_fee.absolute = Unset \/ Confirmed(op[1])}

Locals(ops) == LET s == SetToSeq(ops) IN [i \in DOMAIN s |-> Local(s[i])]
Outgoing == SumOf(params.recipients, LAMBDA out : out.value)
\* The transaction is weighed before it has inputs and change.
Target == Outgoing + FixedFee + Select!FeeAt(Rate, Weight(0, Len(params.recipients)))

\* The results of coin_select, whatever the algorithm; with drain_wallet every coin
\* is required.
Selections ==
    LET offered == filter_utxos
        required == params.utxos \o (IF params.drain_wallet THEN Locals(offered) ELSE <<>>)
        optional == IF params.drain_wallet THEN {} ELSE offered
        chosen == {required \o Locals(ops) : ops \in SUBSET optional}
        paying == UNION {{Select!Success(s, fee, Target, Rate) :
                            fee \in {f \in Select!Fees(s, Rate) : Select!Worth(s) >= Target + f}} : s \in chosen}
    IN  IF Select!MayFail(required, Locals(optional), Rate, Target)
        THEN paying \cup {Select!Failure} ELSE paying

\* A transaction without recipients must sweep coins to drain_to, and leave
\* something there (NoRecipients, InsufficientFunds).
NoOutputs(r) ==
    /\ params.recipients = <<>>
    /\ \/ ~(params.drain_to /\ (params.drain_wallet \/ params.utxos # <<>>))
       \/ r.change = Unset

\* sort_tx_with_aux_rand.
Orders(s) ==
    CASE params.ordering = "shuffle" -> {[i \in DOMAIN s |-> s[p[i]]] : p \in Injection(DOMAIN s, DOMAIN s)}
      [] params.ordering = "untouched" -> {s}
      [] params.ordering = "custom" -> {Reverse(s)}

-----------------------------------------------------------------------------
(***************************************************************************)
(* And the PSBT.                                                           *)
(***************************************************************************)
\* A seeded bug: the full transaction is only attached for legacy scripts.
get_psbt_input_lean(u) == Info(kind # "legacy", kind = "taproot", kind = "legacy")

\* get_psbt_input, for the wallet's own coins.
get_psbt_input(u) ==
    Info(kind # "legacy", kind = "taproot",
         kind = "legacy" \/ (kind = "segwit" /\ ~params.only_witness_utxo))

\* complete_transaction: every input gets what is known about its outpoint,
\* wherever the ordering has put it.  MissingKeyOrigin, MissingNonWitnessUtxo.
InputInfo(u) == IF u.local THEN get_psbt_input(u) ELSE u.info
Incomplete(selected) ==
    \/ params.add_global_xpubs /\ ~rooted
    \/ \E i \in DOMAIN selected :
         LET u == selected[i]
         IN  ~u.local /\ ~u.info.tap /\ ~params.only_witness_utxo /\ ~u.info.full

TxIn(u) == In(u.op, IF u.local THEN Sequence ELSE u.sequence)
Drain(r) ==
    IF r.change = Unset THEN <<>>
    ELSE <<Out(IF params.drain_to THEN "other" ELSE ChangeKeychain, r.change)>>

Give(r) ==
    \E selected \in Orders(r.selected), outs \in Orders(params.recipients \o Drain(r)) :
        built' = [tx |-> Tx(Version, LockTime, [i \in DOMAIN selected |-> TxIn(selected[i])], outs),
                  inputs |-> [i \in DOMAIN selected |-> InputInfo(selected[i])]]

\* create_tx returned an error: the builder is gone, the wallet is as before.
Fail ==
    /\ stage' = "idle"
    /\ params' = Default /\ original' = 0 /\ named' = {} /\ built' = Nothing
    /\ UNCHANGED budget

CreateTx ==
    IF Refused THEN Fail
    ELSE \E r \in Selections :
           IF ~r.ok \/ NoOutputs(r) \/ Incomplete(r.selected) THEN Fail
           ELSE stage' = "built" /\ Give(r) /\ UNCHANGED <<params, original, budget, named>>

\* finish and finish_with_aux_rand.
finish ==
    /\ stage = "open"
    /\ CreateTx
    /\ UNCHANGED <<wallet, descriptors>>

\* finish_mweb_pegin returns the MWEB body with the PSBT; MwebPegInMissingBody.
finish_mweb_pegin ==
    /\ stage = "open"
    /\ IF params.mweb_tx /\ \E i \in DOMAIN params.recipients : params.recipients[i].to = "pegin"
       THEN CreateTx ELSE Fail
    /\ UNCHANGED <<wallet, descriptors>>

-----------------------------------------------------------------------------
(***************************************************************************)
(* The wallet between builders: the transaction that was built is          *)
(* broadcast, blocks come, coins are locked.                               *)
(***************************************************************************)
Closed == stage = "idle" /\ params = Default /\ original = 0 /\ named = {} /\ built = Nothing
InitWith(w) ==
    /\ SpendingInit(w.graph) /\ policy = w.policy /\ kind = w.kind /\ rooted = w.rooted
    /\ budget = w.budget
    /\ Closed

broadcast ==
    /\ stage = "built"
    /\ Seen(built.tx)
    /\ Fail
    /\ UNCHANGED descriptors

Idle(A) == stage = "idle" /\ A /\ UNCHANGED <<descriptors, builder>>

(***************************************************************************)
(* The specification: any wallet, with any number of calls, in any order   *)
(* and with any arguments.  MCSpending runs it on wallets and arguments of *)
(* its own.                                                                *)
(***************************************************************************)
PolicySound ==
    /\ DOMAIN policy \in {{"External"}, {"External", "Internal"}}
    /\ \A k \in DOMAIN policy :
         0 \in DOMAIN policy[k] /\ \A p \in DOMAIN policy[k] : p \in Nat /\ policy[k][p] \in Conditions

BuilderInit ==
    /\ GraphSound /\ tip = InitialTip /\ locked = {}
    /\ PolicySound /\ kind \in {"legacy", "segwit", "taproot"} /\ rooted \in BOOLEAN
    /\ budget \in Nat
    /\ Closed

AnyCall ==
    \/ \E n \in Nat :
         \/ fee_rate(n) \/ fee_absolute(n) \/ version(n) \/ current_height(n)
         \/ exclude_below_confirmations(n)
    \/ \E k \in DOMAIN policy : \E path \in DOMAIN policy[k] : policy_path(path, k)
    \/ \E ops \in Seq(Nameable) : add_utxos(ops)
    \/ \E op \in Nameable, value \in Nat, s \in SequenceValues, info \in [witness : BOOLEAN, tap : BOOLEAN, full : BOOLEAN] :
         (Known(op) => value = TxOut(op).value) /\ add_foreign_utxo(op, value, s, info)
    \/ \E ops \in SUBSET Nameable : unspendable(ops)
    \/ \E op \in Nameable : add_unspendable(op)
    \/ \E o \in {"shuffle", "untouched", "custom"} : ordering(o)
    \/ \E l \in TimeLocks : nlocktime(l)
    \/ \E c \in {"ChangeAllowed", "OnlyChange", "ChangeForbidden"} : change_policy(c)
    \/ \E s \in SequenceValues : set_exact_sequence(s)
    \/ \E outs \in Seq(OutputData) : set_recipients(outs)
    \/ \E out \in OutputData : add_recipient(out)
    \/ manually_selected_only \/ only_witness_utxo \/ add_global_xpubs
    \/ drain_wallet \/ drain_to \/ allow_dust \/ mweb_tx

BuilderNext ==
    \/ build_tx
    \/ \E t \in DOMAIN txs : build_fee_bump(t)
    \/ AnyCall
    \/ finish
    \/ finish_mweb_pegin
    \/ broadcast
    \/ \E tx \in Transactions : tx.height = 0 /\ TxSound(tx, Len(txs) + 1) /\ Idle(Seen(tx))
    \/ \E t \in DOMAIN txs : Idle(Mine(t))
    \/ \E op \in list_unspent : Idle(lock_outpoint(op))
    \/ \E op \in locked : Idle(unlock_outpoint(op))

BuilderSpec == BuilderInit /\ [][BuilderNext]_vars

-----------------------------------------------------------------------------
(***************************************************************************)
(* Properties, of a transaction that was just built.                       *)
(***************************************************************************)
IsBuilt == stage = "built"
Inputs == built.tx.ins
Automatic == Spent(built.tx) \ (named \cup IF original = 0 THEN {} ELSE Spent(txs[original]))
\* The inputs that came with their own sequence and PSBT input.
Brought == {params.utxos[i].op : i \in {j \in DOMAIN params.utxos : ~params.utxos[j].local}}
\* Every input is an output of the graph but those of strangers.
InValue ==
    LET value(op) == IF Known(op) THEN TxOut(op).value
                     ELSE params.utxos[CHOOSE i \in DOMAIN params.utxos : params.utxos[i].op = op].value
    IN  SumOf(Inputs, LAMBDA in : value(in.op))
OutValue == SumOf(built.tx.outs, LAMBDA out : out.value)
Fee == InValue - OutValue

\* No coin is spent twice: not within the transaction, however the caller mixed
\* add_utxo, add_foreign_utxo and repeated calls, and not against a transaction
\* of the wallet's view other than the one a bump replaces.  (Coins the caller
\* brings as foreign are the caller's responsibility.)
NoDoubleSpend ==
    IsBuilt =>
        /\ \A i, j \in DOMAIN Inputs : Inputs[i].op = Inputs[j].op => i = j
        /\ \A t \in Canonical \ {original} :
             Spent(txs[t]) \cap Spent(built.tx) \subseteq Brought

\* A bump can replace its original: it spends every input of it, those of other
\* parties with their old sequence unless the caller brought them anew, and adds no
\* coin of its own accord that the replacement takes out of existence.  (It says
\* nothing of the outputs: of those the code drops the last one that pays the change
\* keychain, even if it was meant as a payment.)
BumpReplaces ==
    (IsBuilt /\ original # 0) =>
        /\ Spent(txs[original]) \subseteq Spent(built.tx)
        /\ \A op \in Automatic : op[1] \notin {original} \cup Descendants(original)
        /\ \A i \in DOMAIN txs[original].ins :
             LET in == txs[original].ins[i]
             IN  (~Ours(in.op) /\ in.op \notin named) => in \in ToSet(Inputs)

\* What the transaction weighs more than it was taken for: the number of its inputs,
\* and that of its outputs if only change makes it longer.
Unweighed ==
    CountWeight(Len(Inputs)) + CountWeight(Len(built.tx.outs)) - CountWeight(Len(params.recipients))

\* The fee is what was asked for, computed here from the transaction as a whole: the
\* rate for its weight, or the amount, short of it by no more than the rate for what
\* was not weighed, and in excess by less than a change output would have cost and a
\* unit of rounding for each input and for change.  A bump that leaves the recipients
\* alone pays no less than its original, short of it by no more than that.
FeeAsAsked ==
    IsBuilt =>
        LET asked == Select!FeeAt(Rate, WeightOf(built.tx)) + FixedFee
            short == Select!FeeAt(Rate, Unweighed)
        IN  /\ Fee + short >= asked
            /\ Fee < asked + Dust + Select!FeeAt(Rate, OutWeight) + Len(Inputs) + 1
            /\ (original # 0 /\ params.recipients = DropChange(txs[original].outs)) =>
                 Fee + short >= calculate_fee(txs[original])

\* The transaction satisfies the time locks of the policy paths it was built for:
\* every input, those the caller named included, has a sequence that grants the
\* relative lock, in a transaction of a version that enforces it, and the lock time
\* is late enough.  Inputs that are not the wallet's, or that the caller brought as
\* if they were not, keep the sequence they came with.
LocksGranted ==
    IsBuilt =>
        \A k \in DOMAIN policy :
            LET required == policy[k][params.path[k]]
            IN  /\ required.ok
                /\ required.csv # None =>
                     /\ built.tx.version >= 2
                     /\ \A i \in DOMAIN Inputs : Inputs[i].op \notin Brought =>
                          check_nsequence_rbf(Inputs[i].sequence, required.csv)
                /\ required.timelock # None =>
                     /\ SameUnit(built.tx.lock_time, required.timelock)
                     /\ built.tx.lock_time.n >= required.timelock.n

\* Every input of the PSBT can be signed safely, after any ordering: it carries
\* the full previous transaction, or the output it spends if that is taproot or
\* the caller settled for that.  (One case escapes the code's check: a bump with
\* only_witness_utxo of another party's legacy input whose transaction the graph
\* has but in part leaves that input without either.)
InputsSignable ==
    IsBuilt =>
        \A i \in DOMAIN built.inputs :
            LET info == built.inputs[i]
            IN  /\ Inputs[i].op \notin Brought =>
                     (info.tap <=> kind = "taproot") /\ (info.witness <=> kind # "legacy")
                /\ \/ info.full
                   \/ info.witness /\ (info.tap \/ params.only_witness_utxo)
                   \/ original # 0 /\ ~info.witness /\ params.only_witness_utxo

\* A coin the caller did not name is spent only if nothing speaks against it: the
\* caller asked for no coins but the named ones, it is locked or was excluded, the
\* change policy wants the other keychain, it is a coinbase output with too few
\* confirmations at the height the transaction is built for, it is unconfirmed and
\* not of the original (BIP 125), or it is unconfirmed and only one of the two
\* transactions is TRUC (BIP 431).
AutomaticAllowed ==
    IsBuilt =>
        \A op \in Automatic :
            LET parent == txs[op[1]]
            IN  /\ ~params.manually_selected_only
                /\ op \notin locked \cup params.unspendable
                /\ "Internal" \in DOMAIN policy =>
                     /\ params.change_policy = "OnlyChange" => TxOut(op).to = "Internal"
                     /\ params.change_policy = "ChangeForbidden" => TxOut(op).to = "External"
                /\ parent.coinbase => Height + 1 - parent.height >= Maturity
                /\ ~Confirmed(op[1]) =>
                     /\ original = 0
                     /\ parent.version = 3 <=> built.tx.version = 3
=============================================================================

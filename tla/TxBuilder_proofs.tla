--------------------------- MODULE TxBuilder_proofs ---------------------------
(***************************************************************************)
(* Proofs about the transaction builder, for any wallet, any number of     *)
(* calls and any arguments (BuilderSpec).  The invariant Inv says where    *)
(* each coin of the builder's list comes from (UtxosSound), what a bump    *)
(* remembers of its original (BumpSound) and which coins, outputs and      *)
(* locks a finished transaction was made from (BuiltSound); it rests on    *)
(* the graph of the wallet being one a node can know (GraphSound), and on  *)
(* canonical transactions never conflicting.  What create_tx promises      *)
(* follows from Inv, one theorem per promise.                              *)
(***************************************************************************)
EXTENDS TxBuilder, Spending_proofs

-----------------------------------------------------------------------------
(***************************************************************************)
(* The order of inputs and outputs.                                        *)
(***************************************************************************)
\* o is s in another order.
Rearranges(o, s, p) ==
    /\ p \in [DOMAIN s -> DOMAIN s]
    /\ \A i, j \in DOMAIN s : p[i] = p[j] => i = j
    /\ \A k \in DOMAIN s : \E i \in DOMAIN s : p[i] = k
    /\ o = [i \in DOMAIN s |-> s[p[i]]]

\* Every ordering rearranges: nothing is lost, nothing doubled.
LEMMA OrdersRearrange ==
    ASSUME NEW A, NEW s \in Seq(A), NEW o \in Orders(s),
           params.ordering \in {"shuffle", "untouched", "custom"}
    PROVE  \E p : Rearranges(o, s, p)
<1> DEFINE n == Len(s)
           D == 1..n
<1>1. n \in Nat /\ DOMAIN s = D /\ s = [i \in D |-> s[i]]
    OBVIOUS
<1>2. CASE params.ordering = "shuffle"
    <2>1. PICK p \in Injection(D, D) : o = [i \in D |-> s[p[i]]]
        BY <1>1, <1>2 DEF Orders
    <2>2. IsFiniteSet(D)
        BY <1>1, FiniteUpTo
    <2>3. p \in Surjection(D, D)
        BY <2>1, <2>2, FS_Injection
    <2> QED BY <1>1, <2>1, <2>3 DEF Injection, IsInjective, Surjection, Rearranges
<1>3. CASE params.ordering = "untouched"
    <2> DEFINE p == [i \in D |-> i]
    <2>1. o = s
        BY <1>3 DEF Orders
    <2>2. Rearranges(o, s, p)
        BY <1>1, <2>1 DEF Rearranges
    <2> QED BY <2>2
<1>4. CASE params.ordering = "custom"
    <2> DEFINE p == [i \in D |-> n - i + 1]
    <2>1. o = [i \in 1..Len(s) |-> s[(Len(s) - i) + 1]]
        BY <1>4 DEF Orders, Reverse
    <2>2. p \in [D -> D] /\ \A i, j \in D : p[i] = p[j] => i = j
        BY <1>1
    <2>3. ASSUME NEW k \in D PROVE \E i \in D : p[i] = k
        <3>1. n - k + 1 \in D /\ p[n - k + 1] = k
            BY <1>1
        <3> QED BY <3>1
    <2>4. o = [i \in D |-> s[p[i]]]
        BY <1>1, <2>1
    <2> HIDE DEF p
    <2>5. Rearranges(o, s, p)
        BY <1>1, <2>2, <2>3, <2>4 DEF Rearranges
    <2> QED BY <2>5
<1> QED BY <1>2, <1>3, <1>4

-----------------------------------------------------------------------------
(***************************************************************************)
(* The invariant.                                                          *)
(***************************************************************************)
\* A coin of the builder's list.
Infos == [witness : BOOLEAN, tap : BOOLEAN, full : BOOLEAN]
Utxos ==
    [op : Outpoint, value : Nat, weight : {InWeight}, local : BOOLEAN,
     sequence : SequenceValues \cup {None}, info : Infos]

ParamsType ==
    [recipients : Seq(OutputData), drain_wallet : BOOLEAN, drain_to : BOOLEAN,
     fee : [policy : {"rate", "amount"}, n : Nat],
     path : [External : Nat, Internal : Nat],
     utxos : Seq(Utxos), unspendable : SUBSET Outpoint, manually_selected_only : BOOLEAN,
     ordering : {"shuffle", "untouched", "custom"},
     locktime : TimeLocks \cup {None}, sequence : SequenceValues \cup {None}, version : Nat \cup {Unset},
     change_policy : {"ChangeAllowed", "OnlyChange", "ChangeForbidden"},
     only_witness_utxo : BOOLEAN, add_global_xpubs : BOOLEAN,
     bumping_fee : [absolute : Nat \cup {Unset}, rate : Nat \cup {Unset}],
     current_height : Nat \cup {Unset}, allow_dust : BOOLEAN, mweb_tx : BOOLEAN]

\* The builder's variables have their types; a path is one the policy has.
TypeOK ==
    /\ GraphSound /\ tip \in Nat /\ PolicySound
    /\ kind \in {"legacy", "segwit", "taproot"} /\ rooted \in BOOLEAN
    /\ stage \in {"idle", "open", "built"}
    /\ params \in ParamsType /\ \A k \in DOMAIN policy : params.path[k] \in DOMAIN policy[k]
    /\ original \in Nat /\ budget \in Nat

\* Where a coin of the list comes from: the caller named one of the wallet's, or
\* brought one of another party, or it is an input of the transaction to replace.
OfWallet(u) == u.op \in named \cap list_unspent /\ u = Local(u.op)
OfCaller(u) ==
    /\ u.op \in named /\ ~u.local
    /\ u.info.witness \/ u.info.full
    /\ Known(u.op) => u.value = TxOut(u.op).value
OfOriginal(u) ==
    original # 0 /\ \E i \in DOMAIN txs[original].ins : u = OriginalUtxo(txs[original].ins[i])

UtxosSound ==
    /\ Distinct(params.utxos)
    /\ \A i \in DOMAIN params.utxos :
         LET u == params.utxos[i] IN u.op \in Nameable /\ (OfWallet(u) \/ OfCaller(u) \/ OfOriginal(u))

\* A bump has a transaction to replace: unconfirmed, with a fee that is known and
\* remembered, and all of its inputs are listed, those the caller does not name as
\* they were.
BumpSound ==
    IF original = 0 THEN params.bumping_fee.absolute = Unset
    ELSE /\ original \in Canonical /\ ~Confirmed(original) /\ FeeKnown(txs[original])
         /\ params.bumping_fee =
              [absolute |-> calculate_fee(txs[original]),
               rate |-> (calculate_fee(txs[original]) * FeeUnit) \div WeightOf(txs[original])]
         /\ params.bumping_fee.absolute >= 0
         /\ \A i \in DOMAIN txs[original].ins :
              LET in == txs[original].ins[i]
              IN  /\ in.op \in Ops(params.utxos)
                  /\ in.op \notin named => OriginalUtxo(in) \in ToSet(params.utxos)

\* The coins of a transaction: those of the list, and some the wallet offers, each
\* once.
Chosen(s) ==
    /\ s \in Seq(Utxos) /\ Distinct(s)
    /\ ToSet(params.utxos) \subseteq ToSet(s)
    /\ \A i \in DOMAIN s : s[i] \in ToSet(params.utxos) \/ (s[i].op \in filter_utxos /\ s[i] = Local(s[i].op))

\* The coins pay for the recipients and for the fee; what they leave is the
\* change, or too little for one.
Rest(s, fee) == SumOver(Amounts(s)) - Target - fee
Change(rest) == Select!decide_change(rest, Rate)
Settled(rest, outs) ==
    /\ rest \in Nat
    /\ SumOver(Amounts(outs)) = Outgoing + (IF Change(rest) = Unset THEN 0 ELSE Change(rest))
    /\ Len(outs) = Len(params.recipients) + (IF Change(rest) = Unset THEN 0 ELSE 1)

\* The fee for n inputs, rounded for each of them or for all at once.
CoinFees(n) == {n * Select!FeeAt(Rate, InWeight), Select!FeeAt(Rate, n * InWeight)}
Balanced(s, outs) == \E fee \in CoinFees(Len(s)) : Settled(Rest(s, fee), outs)

\* The transaction was made from such coins, and nothing spoke against it.
BuiltSound ==
    stage = "built" =>
        /\ ~Refused
        /\ built.tx.version = Version /\ built.tx.lock_time = LockTime
        /\ TxSound(built.tx, Len(txs) + 1) /\ built.tx.height = 0
        /\ \E s : /\ Chosen(s) /\ ~Incomplete(s) /\ Balanced(s, built.tx.outs)
                  /\ built.tx.ins = [i \in DOMAIN s |-> TxIn(s[i])]
                  /\ built.inputs = [i \in DOMAIN s |-> InputInfo(s[i])]

Inv == TypeOK /\ (stage \in {"open", "built"} => UtxosSound /\ BumpSound) /\ BuiltSound

\* What the invariant says of a wallet and of descriptors that did not change.
LEMMA CoinsUnchanged ==
    ASSUME UNCHANGED <<wallet, descriptors, original>>
    PROVE  /\ \A op : Local(op)' = Local(op)
           /\ \A in : OriginalUtxo(in)' = OriginalUtxo(in)
           /\ \A u : OfOriginal(u)' = OfOriginal(u)
           /\ \A tx : FeeKnown(tx)' = FeeKnown(tx) /\ calculate_fee(tx)' = calculate_fee(tx)
           /\ \A t : Confirmed(t)' = Confirmed(t)
           /\ PolicySound' = PolicySound
<1> USE DEF wallet, descriptors
<1>0. /\ \A op : Known(op)' = Known(op) /\ TxOut(op)' = TxOut(op) /\ Ours(op)' = Ours(op)
      /\ Held' = Held
    BY ViewUnchanged DEF Held
<1>1. \A op : Local(op)' = Local(op)
    BY DEF Local, TxOut
<1>2. \A in : OriginalUtxo(in)' = OriginalUtxo(in)
    BY <1>0, <1>1 DEF OriginalUtxo
<1>3. \A u : OfOriginal(u)' = OfOriginal(u)
    BY <1>2 DEF OfOriginal
<1>4. \A tx : FeeKnown(tx)' = FeeKnown(tx) /\ calculate_fee(tx)' = calculate_fee(tx)
    <2> SUFFICES ASSUME NEW tx PROVE FeeKnown(tx)' = FeeKnown(tx) /\ calculate_fee(tx)' = calculate_fee(tx)
        OBVIOUS
    <2>1. FeeKnown(tx)' = FeeKnown(tx)
        BY <1>0 DEF FeeKnown
    <2>4. ValuesOf(tx.ins)' = ValuesOf(tx.ins)
        BY <1>0 DEF ValuesOf
    <2> QED BY <2>1, <2>4, FeeSum, FeeSumNext
<1>5. (\A t : Confirmed(t)' = Confirmed(t)) /\ PolicySound' = PolicySound
    BY DEF Confirmed, PolicySound
<1> QED BY <1>1, <1>2, <1>3, <1>4, <1>5

\* A coin that is in its place stays so while the caller names more.
LEMMA OriginsKept ==
    ASSUME UNCHANGED <<wallet, descriptors, original>>, named \subseteq named', NEW u
    PROVE  /\ OfWallet(u) => OfWallet(u)'
           /\ OfCaller(u) => OfCaller(u)'
           /\ OfOriginal(u) => OfOriginal(u)'
           /\ u.op \in Nameable => (u.op \in Nameable)'
<1>1. /\ list_unspent' = list_unspent /\ Nameable' = Nameable /\ Local(u.op)' = Local(u.op)
      /\ Known(u.op)' = Known(u.op) /\ TxOut(u.op)' = TxOut(u.op)
    BY ViewUnchanged, CoinsUnchanged DEF wallet
<1>2. OfWallet(u) => OfWallet(u)'
    BY <1>1 DEF OfWallet
<1>3. OfCaller(u) => OfCaller(u)'
    BY <1>1 DEF OfCaller
<1> QED BY <1>1, <1>2, <1>3, CoinsUnchanged

\* What a call may do to the list: every coin was on it or is named now and in
\* order, and nothing is dropped but for coins of the outpoints that are named.
ListSound(utxos, ops) ==
    /\ Distinct(utxos)
    /\ \A i \in DOMAIN utxos :
         \/ utxos[i] \in ToSet(params.utxos)
         \/ /\ utxos[i].op \in ops /\ utxos[i].op \in Nameable
            /\ \/ utxos[i].op \in list_unspent /\ utxos[i] = Local(utxos[i].op)
               \/ /\ ~utxos[i].local
                  /\ utxos[i].info.witness \/ utxos[i].info.full
                  /\ Known(utxos[i].op) => utxos[i].value = TxOut(utxos[i].op).value
    /\ \A u \in ToSet(params.utxos) : u.op \in Ops(utxos) /\ (u.op \notin ops => u \in ToSet(utxos))
PathsNamed(p) == \A k \in DOMAIN policy : p.path[k] \in DOMAIN policy[k]

\* A call of a setter keeps the invariant.
LEMMA CallKeeps ==
    ASSUME Inv, NEW p \in ParamsType, NEW ops, Call(p, ops), PathsNamed(p),
           p.bumping_fee = params.bumping_fee, ListSound(p.utxos, ops)
    PROVE  Inv'
<1>1. /\ UNCHANGED <<wallet, descriptors, original>> /\ named \subseteq named' /\ named' = named \cup ops
      /\ stage = "open" /\ stage' = "open" /\ params' = p /\ budget' = budget - 1 /\ budget > 0
      /\ UNCHANGED <<txs, tip, policy, kind, rooted>>
    BY DEF Call, wallet, descriptors
<1>2. UtxosSound /\ BumpSound /\ TypeOK
    BY <1>1 DEF Inv
<1>3. TypeOK'
    BY <1>1, <1>2, ViewUnchanged, CoinsUnchanged DEF TypeOK, PathsNamed
<1>4. UtxosSound'
    <2>1. Distinct(params.utxos)'
        BY <1>1 DEF ListSound, Distinct
    <2>2. ASSUME NEW i \in DOMAIN p.utxos
          PROVE  LET u == p.utxos[i] IN (u.op \in Nameable)' /\ (OfWallet(u)' \/ OfCaller(u)' \/ OfOriginal(u)')
        <3> DEFINE u == p.utxos[i]
        <3>1. CASE u \in ToSet(params.utxos)
            <4>1. u.op \in Nameable /\ (OfWallet(u) \/ OfCaller(u) \/ OfOriginal(u))
                BY <1>2, <3>1 DEF UtxosSound, ToSet
            <4> QED BY <1>1, <4>1, OriginsKept
        <3>2. CASE u \notin ToSet(params.utxos)
            <4>1. /\ u.op \in ops /\ u.op \in Nameable
                  /\ \/ u.op \in list_unspent /\ u = Local(u.op)
                     \/ /\ ~u.local
                        /\ u.info.witness \/ u.info.full
                        /\ Known(u.op) => u.value = TxOut(u.op).value
                BY <3>2 DEF ListSound
            <4>2. /\ list_unspent' = list_unspent /\ Nameable' = Nameable /\ Local(u.op)' = Local(u.op)
                  /\ Known(u.op)' = Known(u.op) /\ TxOut(u.op)' = TxOut(u.op)
                BY <1>1, ViewUnchanged, CoinsUnchanged
            <4>3. OfWallet(u)' \/ OfCaller(u)'
                BY <1>1, <4>1, <4>2 DEF OfWallet, OfCaller
            <4> QED BY <4>1, <4>2, <4>3
        <3> QED BY <3>1, <3>2
    <2> QED BY <1>1, <2>1, <2>2 DEF UtxosSound
<1>5. BumpSound'
    <2>1. CASE original = 0
        BY <1>1, <1>2, <2>1 DEF BumpSound
    <2>2. CASE original # 0
        <3>1. ASSUME NEW i \in DOMAIN txs[original].ins
              PROVE  LET in == txs[original].ins[i]
                     IN  /\ in.op \in Ops(p.utxos)
                         /\ in.op \notin named \cup ops => OriginalUtxo(in) \in ToSet(p.utxos)
            <4> DEFINE in == txs[original].ins[i]
            <4>1. in.op \in Ops(params.utxos) /\ (in.op \notin named => OriginalUtxo(in) \in ToSet(params.utxos))
                BY <1>2, <2>2 DEF BumpSound
            <4>2. in.op \in Ops(p.utxos)
                BY <4>1 DEF Ops, ListSound, ToSet
            <4>3. OriginalUtxo(in).op = in.op
                BY DEF OriginalUtxo, Local, Foreign
            <4> QED BY <4>1, <4>2, <4>3 DEF ListSound
        <3>2. /\ original \in Canonical' /\ ~Confirmed(original)' /\ FeeKnown(txs[original])'
              /\ calculate_fee(txs[original])' = calculate_fee(txs[original])
            <4>1. original \in Canonical /\ ~Confirmed(original) /\ FeeKnown(txs[original])
                BY <1>2, <2>2 DEF BumpSound
            <4>2. FeeKnown(txs[original])' = FeeKnown(txs[original])
                BY <1>1, ViewUnchanged DEF FeeKnown
            <4>3. calculate_fee(txs[original])' = calculate_fee(txs[original])
                BY <1>1, CoinsUnchanged
            <4> QED BY <1>1, <4>1, <4>2, <4>3, ViewUnchanged, CoinsUnchanged
        <3>3. params'.bumping_fee =
                [absolute |-> calculate_fee(txs[original]),
                 rate |-> (calculate_fee(txs[original]) * FeeUnit) \div WeightOf(txs[original])]
              /\ params'.bumping_fee.absolute >= 0
            BY <1>1, <1>2, <2>2 DEF BumpSound
        <3>4. \A in : OriginalUtxo(in)' = OriginalUtxo(in)
            BY <1>1, CoinsUnchanged
        <3> QED BY <1>1, <2>2, <3>1, <3>2, <3>3, <3>4 DEF BumpSound
    <2> QED BY <2>1, <2>2
<1> QED BY <1>1, <1>3, <1>4, <1>5 DEF Inv, BuiltSound

\* A setter of anything but the list and the paths.
LEMMA SetKeeps ==
    ASSUME Inv, NEW p \in ParamsType, Set(p), p.path = params.path,
           p.bumping_fee = params.bumping_fee, p.utxos = params.utxos
    PROVE  Inv'
<1>1. Call(p, {}) /\ stage = "open"
    BY DEF Set, Call
<1>2. TypeOK /\ UtxosSound
    BY <1>1 DEF Inv
<1>3. PathsNamed(p)
    BY <1>2 DEF TypeOK, PathsNamed
<1>4. ListSound(p.utxos, {})
    BY <1>2 DEF ListSound, UtxosSound, ToSet, Ops
<1> QED BY <1>1, <1>3, <1>4, CallKeeps

\* The wallet's own coins, as the list has them.
LEMMA LocalCoin ==
    ASSUME GraphSound, NEW op, Known(op), op \in Outpoint
    PROVE  Local(op) \in Utxos /\ TxOut(op) \in OutputData
<1>1. txs[op[1]] \in Transactions /\ op[2] \in DOMAIN txs[op[1]].outs
    BY DEF Known, GraphSound
<1>2. txs[op[1]].outs \in Seq(OutputData)
    BY <1>1 DEF Transactions
<1>3. txs[op[1]].outs[op[2]] \in OutputData
    BY <1>1, <1>2
<1>4. TxOut(op).value \in Nat
    BY <1>3 DEF TxOut, OutputData
<1>5. Local(op) \in Utxos
    BY <1>4 DEF Local, Utxos, Info, Infos
<1> QED BY <1>3, <1>5 DEF TxOut

\* The list with some of the wallet's coins moved to its end.
LEMMA AddUtxosKeeps ==
    ASSUME Inv, NEW ops \in Seq(Nameable), add_utxos(ops)
    PROVE  Inv'
<1> DEFINE new == Fresh(ops, {})
           old == Without(params.utxos, ToSet(new))
           own == [i \in DOMAIN new |-> Local(new[i])]
           p == [params EXCEPT !.utxos = old \o own]
<1>1. /\ ToSet(ops) \subseteq list_unspent /\ Call(p, ToSet(ops)) /\ stage = "open"
    BY DEF add_utxos, Call, Added
<1>2. TypeOK /\ UtxosSound
    BY <1>1 DEF Inv
<1>3. /\ new \in Seq(Nameable) /\ ToSet(new) = ToSet(ops) /\ IsInjective(new)
    <2>1. new \in Seq(Nameable) /\ ToSet(new) = ToSet(ops) \ {} /\ IsInjective(new)
        BY FreshLists
    <2> HIDE DEF new
    <2> QED BY <2>1
<1>4. GraphSound /\ params \in ParamsType /\ params.utxos \in Seq(Utxos)
    BY <1>2 DEF TypeOK, ParamsType
<1>5. /\ old \in Seq(Utxos) /\ ToSet(old) = {x \in ToSet(params.utxos) : x.op \notin ToSet(new)}
      /\ Distinct(old)
    BY <1>2, <1>4, WithoutKeeps DEF UtxosSound
<1> HIDE DEF new, old
<1>6. \A i \in DOMAIN new : new[i] \in ToSet(new) /\ new[i] \in list_unspent /\ new[i] \in Nameable /\ Local(new[i]) \in Utxos
    <2> TAKE i \in DOMAIN new
    <2>1. new[i] \in ToSet(new)
        BY DEF ToSet
    <2>2. new[i] \in list_unspent
        BY <1>1, <1>3, <2>1
    <2>3. Ours(new[i]) /\ new[i] \in Nameable
        BY <1>4, <2>2, Unspent
    <2>4. new[i] \in Outpoint /\ Known(new[i])
        BY <2>3 DEF Nameable, Ours
    <2> QED BY <1>4, <2>1, <2>2, <2>3, <2>4, LocalCoin
<1>7. own \in Seq(Utxos) /\ Len(own) = Len(new) /\ \A i \in 1..Len(new) : own[i] = Local(new[i])
    BY <1>3, <1>6
<1> DEFINE all == old \o own
<1> HIDE DEF own
<1>8. /\ all \in Seq(Utxos) /\ DOMAIN all = 1..(Len(old) + Len(new))
      /\ \A i \in DOMAIN all : all[i] = IF i <= Len(old) THEN old[i] ELSE own[i - Len(old)]
    <2>1. Len(old) \in Nat /\ Len(own) \in Nat
        BY <1>5, <1>7
    <2>2. all \in Seq(Utxos) /\ Len(all) = Len(old) + Len(own)
        BY <1>5, <1>7, ConcatProperties
    <2>3. \A i \in 1..(Len(old) + Len(own)) : all[i] = IF i <= Len(old) THEN old[i] ELSE own[i - Len(old)]
        BY <1>5, <1>7, ConcatProperties
    <2> HIDE DEF all
    <2>4. DOMAIN all = 1..Len(all)
        BY <2>2
    <2> QED BY <1>7, <2>1, <2>2, <2>3, <2>4
<1>9. \A op : Local(op).op = op
    BY DEF Local
<1>10. /\ \A i \in 1..Len(old) : i \in DOMAIN old /\ old[i] \in ToSet(old)
       /\ \A i \in 1..Len(new) : i \in DOMAIN new
       /\ Len(old) \in Nat /\ Len(new) \in Nat
    BY <1>3, <1>5 DEF ToSet
<1>11. ASSUME NEW i \in DOMAIN all
       PROVE  \/ i \in 1..Len(old) /\ all[i] = old[i] /\ all[i] \in ToSet(params.utxos) /\ all[i].op \notin ToSet(new)
              \/ /\ i - Len(old) \in 1..Len(new) /\ all[i] = Local(new[i - Len(old)])
                 /\ all[i].op = new[i - Len(old)] /\ all[i].op \in ToSet(new)
    <2>1. CASE i <= Len(old)
        <3>1. i \in 1..Len(old) /\ all[i] = old[i]
            BY <1>8, <1>10, <2>1
        <3> HIDE DEF all
        <3> QED BY <1>5, <1>10, <3>1
    <2>2. CASE ~(i <= Len(old))
        <3> DEFINE j == i - Len(old)
        <3>1. j \in 1..Len(new) /\ all[i] = own[j]
            BY <1>8, <1>10, <2>2
        <3> HIDE DEF all, j
        <3>2. all[i] = Local(new[j]) /\ new[j] \in ToSet(new)
            BY <1>6, <1>7, <1>10, <3>1
        <3> QED BY <1>9, <3>1, <3>2 DEF j
    <2> QED BY <2>1, <2>2
<1>12. Distinct(all)
    <2> SUFFICES ASSUME NEW i \in DOMAIN all, NEW j \in DOMAIN all, all[i].op = all[j].op PROVE i = j
        BY DEF Distinct
    <2>1. i \in Nat /\ j \in Nat
        BY <1>8, <1>10
    <2> HIDE DEF all
    <2>2. CASE i \in 1..Len(old)
        <3>1. j \in 1..Len(old)
            BY <1>10, <1>11, <2>1, <2>2
        <3>2. all[i] = old[i] /\ all[j] = old[j] /\ i \in DOMAIN old /\ j \in DOMAIN old
            BY <1>10, <1>11, <2>2, <3>1
        <3> QED BY <1>5, <3>2 DEF Distinct
    <2>3. CASE i \notin 1..Len(old)
        <3>1. j \notin 1..Len(old)
            BY <1>10, <1>11, <2>1, <2>3
        <3> DEFINE a == i - Len(old)
                   b == j - Len(old)
        <3>2. a \in 1..Len(new) /\ b \in 1..Len(new) /\ all[i].op = new[a] /\ all[j].op = new[b]
            BY <1>11, <2>3, <3>1
        <3> HIDE DEF a, b
        <3>3. a = b
            BY <1>3, <1>10, <3>2 DEF IsInjective
        <3> QED BY <1>10, <2>1, <3>3 DEF a, b
    <2> QED BY <2>2, <2>3
<1>13. ASSUME NEW u \in ToSet(params.utxos)
       PROVE  u.op \in Ops(all) /\ (u.op \notin ToSet(ops) => u \in ToSet(all))
    <2>1. CASE u.op \in ToSet(new)
        <3>1. PICK a \in DOMAIN new : new[a] = u.op
            BY <2>1 DEF ToSet
        <3>2. a \in 1..Len(new) /\ own[a] = Local(new[a])
            BY <1>3, <1>7, <3>1
        <3>3. Len(old) + a \in DOMAIN all /\ all[Len(old) + a] = own[a]
            BY <1>8, <1>10, <3>2
        <3> HIDE DEF all
        <3>4. all[Len(old) + a].op = u.op
            BY <1>9, <3>1, <3>2, <3>3
        <3> QED BY <1>3, <2>1, <3>3, <3>4 DEF Ops
    <2>2. CASE u.op \notin ToSet(new)
        <3>1. PICK a \in DOMAIN old : old[a] = u
            BY <1>5, <2>2 DEF ToSet
        <3>2. a \in 1..Len(old)
            BY <1>5
        <3>3. a \in DOMAIN all /\ all[a] = u
            BY <1>8, <1>10, <3>1, <3>2
        <3> HIDE DEF all
        <3> QED BY <3>3 DEF Ops, ToSet
    <2> QED BY <2>1, <2>2
<1>14. ListSound(all, ToSet(ops))
    <2>1. ASSUME NEW i \in DOMAIN all, all[i] \notin ToSet(params.utxos)
          PROVE  all[i].op \in ToSet(ops) /\ all[i].op \in Nameable /\ all[i].op \in list_unspent /\ all[i] = Local(all[i].op)
        <3> DEFINE j == i - Len(old)
        <3>1. j \in 1..Len(new) /\ all[i] = Local(new[j]) /\ all[i].op = new[j] /\ all[i].op \in ToSet(new)
            BY <1>11, <2>1
        <3> HIDE DEF all, j
        <3>2. new[j] \in list_unspent /\ new[j] \in Nameable
            BY <1>6, <1>10, <3>1
        <3> QED BY <1>3, <3>1, <3>2
    <2> HIDE DEF all
    <2> QED BY <1>12, <1>13, <2>1 DEF ListSound
<1>15. /\ p \in ParamsType /\ p.path = params.path /\ p.bumping_fee = params.bumping_fee /\ p.utxos = all
    <2> HIDE DEF all
    <2>1. p = [params EXCEPT !.utxos = all]
        BY DEF all
    <2> HIDE DEF p
    <2> QED BY <1>4, <1>8, <2>1 DEF ParamsType
<1>16. PathsNamed(p)
    <2> HIDE DEF p
    <2> QED BY <1>2, <1>15 DEF TypeOK, PathsNamed
<1> HIDE DEF p, all
<1> QED BY <1>1, <1>14, <1>15, <1>16, CallKeeps

\* The list with another party's coin at its end, unless it is the wallet's own.
LEMMA AddForeignKeeps ==
    ASSUME Inv, NEW op \in Nameable, NEW value \in Nat, NEW s \in SequenceValues, NEW info \in Infos,
           Known(op) => value = TxOut(op).value, add_foreign_utxo(op, value, s, info)
    PROVE  Inv'
<1> DEFINE same(u) == u.op = op
           own == \E i \in DOMAIN params.utxos : same(params.utxos[i]) /\ params.utxos[i].local
           others == Without(params.utxos, {op})
           coin == Foreign(op, value, s, info)
           all == Append(others, coin)
           p == IF own THEN params ELSE [params EXCEPT !.utxos = all]
<1>1. Call(p, {op}) /\ stage = "open" /\ (info.witness \/ info.full)
    BY DEF add_foreign_utxo, Call
<1>2. TypeOK /\ UtxosSound
    BY <1>1 DEF Inv
<1>3. GraphSound /\ params \in ParamsType /\ params.utxos \in Seq(Utxos)
    BY <1>2 DEF TypeOK, ParamsType
<1>4. CASE own
    <2>1. p = params
        BY <1>4
    <2>2. ListSound(params.utxos, {op})
        BY <1>2 DEF ListSound, UtxosSound, ToSet, Ops
    <2>3. PathsNamed(params)
        BY <1>2 DEF TypeOK, PathsNamed
    <2> HIDE DEF p
    <2> QED BY <1>1, <1>3, <2>1, <2>2, <2>3, CallKeeps
<1>5. CASE ~own
    <2>1. p = [params EXCEPT !.utxos = all]
        BY <1>5
    <2>2. /\ others \in Seq(Utxos) /\ ToSet(others) = {x \in ToSet(params.utxos) : x.op \notin {op}}
          /\ Distinct(others)
        BY <1>2, <1>3, WithoutKeeps DEF UtxosSound
    <2> HIDE DEF others
    <2>3. /\ coin \in Utxos /\ coin.op = op /\ coin.value = value /\ coin.info = info /\ ~coin.local
        BY DEF Foreign, Utxos, Nameable
    <2> HIDE DEF coin
    <2>4. /\ all \in Seq(Utxos) /\ DOMAIN all = 1..(Len(others) + 1) /\ all[Len(others) + 1] = coin
          /\ Len(others) \in Nat /\ \A i \in 1..Len(others) : all[i] = others[i] /\ i \in DOMAIN others
        BY <2>2, <2>3
    <2> HIDE DEF all, p
    <2>5. ASSUME NEW i \in DOMAIN all
          PROVE  \/ i \in 1..Len(others) /\ all[i] = others[i] /\ all[i] \in ToSet(params.utxos) /\ all[i].op # op
                 \/ i = Len(others) + 1 /\ all[i] = coin
        <3>1. CASE i = Len(others) + 1
            BY <2>4, <3>1
        <3>2. CASE i # Len(others) + 1
            <4>1. i \in 1..Len(others)
                BY <2>4, <3>2
            <4>2. all[i] = others[i] /\ others[i] \in ToSet(others)
                BY <2>4, <4>1 DEF ToSet
            <4> QED BY <2>2, <4>1, <4>2
        <3> QED BY <3>1, <3>2
    <2>6. Distinct(all)
        <3> SUFFICES ASSUME NEW i \in DOMAIN all, NEW j \in DOMAIN all, all[i].op = all[j].op PROVE i = j
            BY DEF Distinct
        <3>1. CASE all[i].op = op
            BY <2>5, <3>1
        <3>2. CASE all[i].op # op
            <4>1. /\ i \in 1..Len(others) /\ all[i] = others[i] /\ i \in DOMAIN others
                  /\ j \in 1..Len(others) /\ all[j] = others[j] /\ j \in DOMAIN others
                BY <2>3, <2>4, <2>5, <3>2
            <4> QED BY <2>2, <4>1 DEF Distinct
        <3> QED BY <3>1, <3>2
    <2>7. ASSUME NEW u \in ToSet(params.utxos)
          PROVE  u.op \in Ops(all) /\ (u.op # op => u \in ToSet(all))
        <3>1. CASE u.op = op
            BY <2>3, <2>4, <3>1 DEF Ops
        <3>2. CASE u.op # op
            <4>1. PICK a \in DOMAIN others : others[a] = u
                BY <2>2, <3>2 DEF ToSet
            <4>2. a \in 1..Len(others) /\ a \in DOMAIN all
                BY <2>2, <2>4
            <4>3. all[a] = u
                BY <2>4, <4>1, <4>2
            <4> QED BY <4>2, <4>3 DEF Ops, ToSet
        <3> QED BY <3>1, <3>2
    <2>8. ListSound(all, {op})
        <3>1. \A i \in DOMAIN all : all[i] \in ToSet(params.utxos) \/ all[i] = coin
            BY <2>5
        <3> QED BY <1>1, <2>3, <2>6, <2>7, <3>1 DEF ListSound
    <2>9. /\ p \in ParamsType /\ p.path = params.path /\ p.bumping_fee = params.bumping_fee /\ p.utxos = all
        BY <1>3, <2>1, <2>4 DEF ParamsType
    <2>10. PathsNamed(p)
        BY <1>2, <2>9 DEF TypeOK, PathsNamed
    <2> QED BY <1>1, <2>8, <2>9, <2>10, CallKeeps
<1> QED BY <1>4, <1>5

\* Every call of AnyCall keeps the invariant.
LEMMA AnyCallKeeps ==
    ASSUME Inv, AnyCall
    PROVE  Inv'
<1>1. stage = "open" => params \in ParamsType /\ PolicySound /\ PathsNamed(params) /\ GraphSound
    BY DEF Inv, TypeOK, PathsNamed
<1>2. ASSUME NEW p, Set(p) PROVE stage = "open"
    BY <1>2 DEF Set, Call
<1>3. ASSUME NEW p, Set(p), p \in ParamsType, p.path = params.path,
             p.bumping_fee = params.bumping_fee, p.utxos = params.utxos
      PROVE  Inv'
    BY <1>3, SetKeeps
<1>4. ASSUME NEW n \in Nat,
             fee_rate(n) \/ fee_absolute(n) \/ version(n) \/ current_height(n)
      PROVE  Inv'
    <2>1. CASE fee_rate(n)
        <3> DEFINE p == [params EXCEPT !.fee = [policy |-> "rate", n |-> n]]
        <3>1. Set(p)
            BY <2>1 DEF fee_rate
        <3>2. p \in ParamsType /\ p.path = params.path /\ p.bumping_fee = params.bumping_fee /\ p.utxos = params.utxos
            BY <1>1, <1>2, <3>1 DEF ParamsType
        <3> QED BY <1>3, <3>1, <3>2
    <2>2. CASE fee_absolute(n)
        <3> DEFINE p == [params EXCEPT !.fee = [policy |-> "amount", n |-> n]]
        <3>1. Set(p)
            BY <2>2 DEF fee_absolute
        <3>2. p \in ParamsType /\ p.path = params.path /\ p.bumping_fee = params.bumping_fee /\ p.utxos = params.utxos
            BY <1>1, <1>2, <3>1 DEF ParamsType
        <3> QED BY <1>3, <3>1, <3>2
    <2>3. CASE version(n)
        <3> DEFINE p == [params EXCEPT !.version = n]
        <3>1. Set(p)
            BY <2>3 DEF version
        <3>2. p \in ParamsType /\ p.path = params.path /\ p.bumping_fee = params.bumping_fee /\ p.utxos = params.utxos
            BY <1>1, <1>2, <3>1 DEF ParamsType
        <3> QED BY <1>3, <3>1, <3>2
    <2>4. CASE current_height(n)
        <3> DEFINE p == [params EXCEPT !.current_height = n]
        <3>1. Set(p)
            BY <2>4 DEF current_height
        <3>2. p \in ParamsType /\ p.path = params.path /\ p.bumping_fee = params.bumping_fee /\ p.utxos = params.utxos
            BY <1>1, <1>2, <3>1 DEF ParamsType
        <3> QED BY <1>3, <3>1, <3>2
    <2> QED BY <1>4, <2>1, <2>2, <2>3, <2>4
<1>5. ASSUME NEW T \in SUBSET Outpoint, Set([params EXCEPT !.unspendable = T])
      PROVE  Inv'
    <2> DEFINE p == [params EXCEPT !.unspendable = T]
    <2>1. p \in ParamsType /\ p.path = params.path /\ p.bumping_fee = params.bumping_fee /\ p.utxos = params.utxos
        BY <1>1, <1>2, <1>5 DEF ParamsType
    <2> QED BY <1>3, <1>5, <2>1
<1>6. ASSUME NEW n \in Nat, exclude_below_confirmations(n) PROVE Inv'
    <2> DEFINE T == params.unspendable \cup {op \in list_unspent : Age(op) < n}
    <2>1. Set([params EXCEPT !.unspendable = T])
        BY <1>6 DEF exclude_below_confirmations
    <2>2. params.unspendable \subseteq Outpoint /\ GraphSound
        BY <1>1, <1>2, <2>1 DEF ParamsType
    <2>3. list_unspent \subseteq Outpoint
        BY <2>2, Unspent DEF Nameable
    <2> QED BY <1>5, <2>1, <2>2, <2>3
<1>7. ASSUME NEW ops \in SUBSET Nameable, unspendable(ops) PROVE Inv'
    BY <1>5, <1>7 DEF unspendable, Nameable
<1>8. ASSUME NEW op \in Nameable, add_unspendable(op) PROVE Inv'
    <2> DEFINE T == params.unspendable \cup {op}
    <2>1. Set([params EXCEPT !.unspendable = T])
        BY <1>8 DEF add_unspendable
    <2>2. params.unspendable \subseteq Outpoint /\ op \in Outpoint
        BY <1>1, <1>2, <2>1 DEF ParamsType, Nameable
    <2> QED BY <1>5, <2>1, <2>2
<1>9. ASSUME NEW k \in DOMAIN policy, NEW path \in DOMAIN policy[k], policy_path(path, k) PROVE Inv'
    <2> DEFINE p == [params EXCEPT !.path[k] = path]
    <2>1. Set(p) /\ stage = "open"
        BY <1>9, <1>2 DEF policy_path
    <2>2. k \in {"External", "Internal"} /\ path \in Nat
        BY <1>1, <2>1 DEF PolicySound
    <2>3. params.path \in [External : Nat, Internal : Nat] /\ DOMAIN params.path = {"External", "Internal"}
        BY <1>1, <2>1 DEF ParamsType
    <2>4. /\ p = [params EXCEPT !.path = [params.path EXCEPT ![k] = path]]
        OBVIOUS
    <2> DEFINE q == [params.path EXCEPT ![k] = path]
    <2>5. /\ q \in [External : Nat, Internal : Nat] /\ q[k] = path
          /\ \A j \in {"External", "Internal"} : j # k => q[j] = params.path[j]
        <3>1. CASE k = "External"
            BY <2>2, <2>3, <3>1
        <3>2. CASE k = "Internal"
            BY <2>2, <2>3, <3>2
        <3> QED BY <2>2, <3>1, <3>2
    <2> HIDE DEF q
    <2>6. p = [params EXCEPT !.path = q]
        BY <2>4 DEF q
    <2> HIDE DEF p
    <2>7. p \in ParamsType /\ p.path = q /\ p.bumping_fee = params.bumping_fee /\ p.utxos = params.utxos
        BY <1>1, <2>1, <2>5, <2>6 DEF ParamsType
    <2>8. PathsNamed(p)
        BY <1>1, <2>1, <2>5, <2>7 DEF PathsNamed, PolicySound
    <2>9. ListSound(p.utxos, {})
        <3>1. UtxosSound
            BY <2>1 DEF Inv
        <3> QED BY <2>7, <3>1 DEF ListSound, UtxosSound, ToSet, Ops
    <2>10. Call(p, {})
        BY <2>1 DEF Set
    <2> QED BY <2>7, <2>8, <2>9, <2>10, CallKeeps
<1>10. ASSUME NEW o \in {"shuffle", "untouched", "custom"}, ordering(o) PROVE Inv'
    <2> DEFINE p == [params EXCEPT !.ordering = o]
    <2>1. Set(p)
        BY <1>10 DEF ordering
    <2>2. p \in ParamsType /\ p.path = params.path /\ p.bumping_fee = params.bumping_fee /\ p.utxos = params.utxos
        BY <1>1, <1>2, <2>1 DEF ParamsType
    <2> QED BY <1>3, <2>1, <2>2
<1>11. ASSUME NEW l \in TimeLocks, nlocktime(l) PROVE Inv'
    <2> DEFINE p == [params EXCEPT !.locktime = l]
    <2>1. Set(p)
        BY <1>11 DEF nlocktime
    <2>2. p \in ParamsType /\ p.path = params.path /\ p.bumping_fee = params.bumping_fee /\ p.utxos = params.utxos
        BY <1>1, <1>2, <2>1 DEF ParamsType
    <2> QED BY <1>3, <2>1, <2>2
<1>12. ASSUME NEW c \in {"ChangeAllowed", "OnlyChange", "ChangeForbidden"}, change_policy(c) PROVE Inv'
    <2> DEFINE p == [params EXCEPT !.change_policy = c]
    <2>1. Set(p)
        BY <1>12 DEF change_policy
    <2>2. p \in ParamsType /\ p.path = params.path /\ p.bumping_fee = params.bumping_fee /\ p.utxos = params.utxos
        BY <1>1, <1>2, <2>1 DEF ParamsType
    <2> QED BY <1>3, <2>1, <2>2
<1>13. ASSUME NEW s \in SequenceValues, set_exact_sequence(s) PROVE Inv'
    <2> DEFINE p == [params EXCEPT !.sequence = s]
    <2>1. Set(p)
        BY <1>13 DEF set_exact_sequence
    <2>2. p \in ParamsType /\ p.path = params.path /\ p.bumping_fee = params.bumping_fee /\ p.utxos = params.utxos
        BY <1>1, <1>2, <2>1 DEF ParamsType
    <2> QED BY <1>3, <2>1, <2>2
<1>14. ASSUME NEW outs \in Seq(OutputData), Set([params EXCEPT !.recipients = outs]) PROVE Inv'
    <2> DEFINE p == [params EXCEPT !.recipients = outs]
    <2>1. p \in ParamsType /\ p.path = params.path /\ p.bumping_fee = params.bumping_fee /\ p.utxos = params.utxos
        BY <1>1, <1>2, <1>14 DEF ParamsType
    <2> QED BY <1>3, <1>14, <2>1
<1>15. ASSUME NEW out \in OutputData, add_recipient(out) PROVE Inv'
    <2> DEFINE outs == Append(params.recipients, out)
    <2>1. Set([params EXCEPT !.recipients = outs])
        BY <1>15 DEF add_recipient
    <2>2. params.recipients \in Seq(OutputData)
        BY <1>1, <1>2, <2>1 DEF ParamsType
    <2>3. outs \in Seq(OutputData)
        BY <2>2
    <2> HIDE DEF outs
    <2> QED BY <1>14, <2>1, <2>3
<1>16. ASSUME \/ manually_selected_only \/ only_witness_utxo \/ add_global_xpubs
              \/ drain_wallet \/ drain_to \/ allow_dust \/ mweb_tx
       PROVE  Inv'
    <2> DEFINE Fits(p) == p \in ParamsType /\ p.path = params.path /\ p.bumping_fee = params.bumping_fee /\ p.utxos = params.utxos
    <2>1. stage = "open" =>
             /\ Fits([params EXCEPT !.manually_selected_only = TRUE])
             /\ Fits([params EXCEPT !.only_witness_utxo = TRUE])
             /\ Fits([params EXCEPT !.add_global_xpubs = TRUE])
             /\ Fits([params EXCEPT !.drain_wallet = TRUE])
             /\ Fits([params EXCEPT !.drain_to = TRUE])
             /\ Fits([params EXCEPT !.allow_dust = TRUE])
             /\ Fits([params EXCEPT !.mweb_tx = TRUE])
        BY <1>1 DEF ParamsType
    <2>2. ASSUME NEW p, Set(p), stage = "open" => Fits(p) PROVE Inv'
        BY <1>2, <1>3, <2>2
    <2> HIDE DEF Fits
    <2> QED BY <1>16, <2>1, <2>2
            DEF manually_selected_only, only_witness_utxo, add_global_xpubs, drain_wallet, drain_to, allow_dust, mweb_tx
<1>17. ASSUME NEW outs \in Seq(OutputData), set_recipients(outs) PROVE Inv'
    BY <1>14, <1>17 DEF set_recipients
<1>18. ASSUME NEW ops \in Seq(Nameable), add_utxos(ops) PROVE Inv'
    BY <1>18, AddUtxosKeeps
<1>19. ASSUME NEW op \in Nameable, NEW value \in Nat, NEW s \in SequenceValues, NEW info \in Infos,
              Known(op) => value = TxOut(op).value, add_foreign_utxo(op, value, s, info)
       PROVE  Inv'
    BY <1>19, AddForeignKeeps
<1> QED
    BY <1>4, <1>6, <1>7, <1>8, <1>9, <1>10, <1>11, <1>12, <1>13, <1>15, <1>16, <1>17, <1>18, <1>19
    DEF AnyCall, Infos

-----------------------------------------------------------------------------
\* The outputs to keep are outputs of the transaction, and all but at most one.
LEMMA DropChangeKeeps ==
    ASSUME NEW outs \in Seq(OutputData)
    PROVE  /\ DropChange(outs) \in Seq(OutputData)
           /\ \/ DropChange(outs) = outs
              \/ \E m \in 1..Len(outs) : DropChange(outs) = RemoveAt(outs, m)
<1> DEFINE change == {i \in DOMAIN outs : outs[i].to = ChangeKeychain}
<1>1. CASE Len(outs) > 1 /\ change # {}
    <2>1. change \in SUBSET (0..Len(outs)) /\ change \subseteq 1..Len(outs)
        OBVIOUS
    <2>2. Max(change) \in change
        <3>1. Len(outs) \in Nat
            OBVIOUS
        <3> HIDE DEF change
        <3> QED BY <1>1, <2>1, <3>1, MaxOfNaturals
    <2> DEFINE m == Max(change)
    <2>3. m \in 1..Len(outs) /\ DropChange(outs) = RemoveAt(outs, m)
        BY <1>1, <2>1, <2>2 DEF DropChange
    <2> HIDE DEF m
    <2>4. RemoveAt(outs, m) \in Seq(OutputData)
        <3>1. SubSeq(outs, 1, m - 1) \in Seq(OutputData) /\ SubSeq(outs, m + 1, Len(outs)) \in Seq(OutputData)
            BY <2>3
        <3> QED BY <3>1 DEF RemoveAt
    <2> QED BY <2>3, <2>4
<1>2. CASE ~(Len(outs) > 1 /\ change # {})
    BY <1>2 DEF DropChange
<1> QED BY <1>1, <1>2

\* An input of a transaction to replace, as the list has it.
LEMMA OriginalCoin ==
    ASSUME GraphSound, NEW t \in DOMAIN txs, FeeKnown(txs[t]), NEW i \in DOMAIN txs[t].ins
    PROVE  LET in == txs[t].ins[i]
               u == OriginalUtxo(in)
           IN  /\ u \in Utxos /\ u.op = in.op /\ in.op \in Nameable /\ in.op \in Outpoint
               /\ Known(in.op) /\ u.value = TxOut(in.op).value /\ (u.local <=> Ours(in.op))
<1> DEFINE in == txs[t].ins[i]
           u == OriginalUtxo(in)
<1>1. TxSound(txs[t], t) /\ txs \in Seq(Transactions) /\ txs[t] \in Transactions
    BY DEF GraphSound
<1>2. in \in InputData
    <2>1. txs[t].ins \in Seq(InputData)
        BY <1>1 DEF Transactions
    <2> QED BY <2>1
<1>3. in.op \in Outpoint /\ in.sequence \in SequenceValues \cup {None}
    BY <1>2 DEF InputData
<1>4. in.op[1] \in Nat /\ in.op[1] < t
    BY <1>1, <1>3 DEF TxSound, Outpoint
<1>5. in.op \in Nameable
    <2>1. t \in 1..Len(txs)
        BY <1>1
    <2> HIDE DEF in
    <2> QED BY <1>3, <1>4, <2>1 DEF Nameable
<1>6. Known(in.op)
    BY DEF FeeKnown, Spent
<1> HIDE DEF in
<1>7. Local(in.op) \in Utxos /\ TxOut(in.op) \in OutputData
    BY <1>3, <1>6, LocalCoin
<1>8. TxOut(in.op).value \in Nat
    BY <1>7 DEF OutputData
<1>9. u \in Utxos /\ u.op = in.op /\ u.value = TxOut(in.op).value /\ (u.local <=> Ours(in.op))
    <2>1. CASE Ours(in.op)
        BY <1>7, <2>1 DEF OriginalUtxo, Local
    <2>2. CASE ~Ours(in.op)
        BY <1>3, <1>8, <2>2 DEF OriginalUtxo, Foreign, Utxos, Info, Infos
    <2> QED BY <2>1, <2>2
<1> QED BY <1>3, <1>5, <1>6, <1>9 DEF in

\* TxParams::default has its type, and names no path.
LEMMA DefaultSound ==
    /\ Default \in ParamsType /\ Default.utxos = <<>> /\ Default.bumping_fee.absolute = Unset
    /\ Default.path = [External |-> 0, Internal |-> 0]
<1>1. /\ <<>> \in Seq(OutputData) /\ <<>> \in Seq(Utxos)
    OBVIOUS
<1> QED BY <1>1 DEF Default, ParamsType

\* Opening a builder.
LEMMA BuildTxKeeps ==
    ASSUME Inv, build_tx
    PROVE  Inv'
<1>1. /\ UNCHANGED <<wallet, descriptors, budget>> /\ stage' = "open" /\ params' = Default
      /\ original' = 0 /\ UNCHANGED <<txs, tip, locked, policy, kind, rooted>>
    BY DEF build_tx, Open, wallet, descriptors
<1>2. TypeOK
    BY DEF Inv
<1>3. PolicySound' = PolicySound
    BY <1>1 DEF PolicySound
<1>4. \A k \in DOMAIN policy : Default.path[k] \in DOMAIN policy[k]
    BY <1>2, DefaultSound DEF TypeOK, PolicySound
<1>5. TypeOK'
    BY <1>1, <1>2, <1>3, <1>4, ViewUnchanged, DefaultSound DEF TypeOK
<1>6. UtxosSound'
    BY <1>1, DefaultSound DEF UtxosSound, Distinct
<1>7. BumpSound'
    BY <1>1, DefaultSound DEF BumpSound
<1> QED BY <1>1, <1>5, <1>6, <1>7 DEF Inv, BuiltSound

\* Opening a builder that replaces a transaction.
LEMMA BuildFeeBumpKeeps ==
    ASSUME Inv, NEW t \in DOMAIN txs, build_fee_bump(t)
    PROVE  Inv'
<1> DEFINE tx == txs[t]
           fee == calculate_fee(tx)
           utxos == [i \in DOMAIN tx.ins |-> OriginalUtxo(tx.ins[i])]
           bumping == [absolute |-> fee, rate |-> (fee * FeeUnit) \div WeightOf(tx)]
           p == [Default EXCEPT
                   !.version = tx.version,
                   !.recipients = DropChange(tx.outs),
                   !.utxos = utxos,
                   !.bumping_fee = bumping]
<1>1. /\ Replaceable(t) /\ Open(p, t)
    BY DEF build_fee_bump
<1>2. /\ UNCHANGED <<wallet, descriptors, budget>> /\ stage' = "open" /\ params' = p
      /\ original' = t /\ named' = {} /\ UNCHANGED <<txs, tip, locked, policy, kind, rooted>>
    BY <1>1 DEF Open, wallet, descriptors
<1>3. TypeOK /\ GraphSound
    BY DEF Inv, TypeOK
<1>4. ~Confirmed(t) /\ t \in Canonical /\ FeeKnown(tx) /\ fee >= 0
    BY <1>1 DEF Replaceable, HasFee
<1>5. /\ TxSound(tx, t) /\ tx \in Transactions /\ tx.ins \in Seq(InputData) /\ tx.outs \in Seq(OutputData)
      /\ tx.version \in Nat
    <2>1. TxSound(tx, t) /\ tx \in Transactions
        BY <1>3 DEF GraphSound
    <2> HIDE DEF tx
    <2> QED BY <2>1 DEF Transactions
<1> HIDE DEF p
<1>6. fee \in Nat
    BY <1>3, <1>4, <1>5, FeeIs
<1>7. (fee * FeeUnit) \div WeightOf(tx) \in Nat
    <2>0. Len(tx.ins) \in Nat /\ Len(tx.outs) \in Nat
        BY <1>5
    <2>1. WeightOf(tx) \in Nat \ {0}
        BY <2>0, WeightPositive DEF WeightOf
    <2> HIDE DEF fee
    <2>2. fee * FeeUnit \in Nat
        BY <1>6, FeeUnitAssumption
    <2> QED BY <2>1, <2>2
<1>8. /\ utxos \in Seq(Utxos) /\ DOMAIN utxos = DOMAIN tx.ins
      /\ \A i \in DOMAIN tx.ins : utxos[i] = OriginalUtxo(tx.ins[i]) /\ utxos[i].op = tx.ins[i].op /\ tx.ins[i].op \in Nameable
    <2>1. \A i \in DOMAIN tx.ins : OriginalUtxo(tx.ins[i]) \in Utxos /\ OriginalUtxo(tx.ins[i]).op = tx.ins[i].op /\ tx.ins[i].op \in Nameable
        BY <1>3, <1>4, OriginalCoin
    <2>2. DOMAIN tx.ins = 1..Len(tx.ins) /\ Len(tx.ins) \in Nat
        BY <1>5
    <2> HIDE DEF tx
    <2> QED BY <2>1, <2>2
<1>9. DropChange(tx.outs) \in Seq(OutputData)
    BY <1>5, DropChangeKeeps
<1>10. /\ p \in ParamsType /\ p.path = Default.path /\ p.utxos = utxos /\ p.bumping_fee = bumping
    <2>1. bumping \in [absolute : Nat \cup {Unset}, rate : Nat \cup {Unset}]
        BY <1>6, <1>7
    <2> HIDE DEF utxos, bumping, tx
    <2> QED BY <1>5, <1>8, <1>9, <2>1, DefaultSound DEF p, ParamsType
<1> HIDE DEF utxos
<1>11. TypeOK'
    <2>1. PolicySound' = PolicySound
        BY <1>2 DEF PolicySound
    <2>2. \A k \in DOMAIN policy : p.path[k] \in DOMAIN policy[k]
        BY <1>3, <1>10, DefaultSound DEF TypeOK, PolicySound
    <2>3. t \in Nat
        BY <1>3 DEF GraphSound
    <2> HIDE DEF tx, bumping
    <2> QED BY <1>2, <1>3, <1>10, <2>1, <2>2, <2>3, ViewUnchanged DEF TypeOK
<1>12. /\ \A in : (OriginalUtxo(in))' = OriginalUtxo(in)
    BY <1>2, ViewUnchanged DEF OriginalUtxo, Local, Held, TxOut
<1>13. UtxosSound'
    <2>0. PICK list : list = utxos
        OBVIOUS
    <2>1. Distinct(list)
        BY <1>5, <1>8, <2>0 DEF Distinct, TxSound
    <2>2. ASSUME NEW i \in DOMAIN list PROVE OfOriginal(list[i])' /\ list[i].op \in Nameable'
        <3>1. list[i].op \in Nameable /\ list[i] = OriginalUtxo(tx.ins[i]) /\ i \in DOMAIN tx.ins
            BY <1>8, <2>0
        <3>2. t # 0
            BY <1>3 DEF GraphSound
        <3>3. PICK in : in = tx.ins[i]
            OBVIOUS
        <3>4. list[i] = OriginalUtxo(in)'
            BY <1>12, <3>1, <3>3
        <3>5. i \in DOMAIN txs'[original'].ins /\ in = txs'[original'].ins[i]
            BY <1>2, <3>1, <3>3
        <3>6. Nameable' = Nameable
            BY <1>2, ViewUnchanged
        <3> QED BY <1>2, <3>1, <3>2, <3>4, <3>5, <3>6 DEF OfOriginal
    <2>3. params'.utxos = list
        BY <1>2, <1>10, <2>0
    <2> QED BY <2>1, <2>2, <2>3 DEF UtxosSound, Distinct
<1>14. BumpSound'
    <2>1. t \in Canonical' /\ ~Confirmed(t)'
        BY <1>2, <1>4, ViewUnchanged DEF Confirmed
    <2>2. (FeeKnown(txs[original]))'
        BY <1>2, <1>4, ViewUnchanged DEF FeeKnown
    <2>3. (calculate_fee(txs[original]))' = fee
        <3>1. ValuesOf(tx.ins)' = ValuesOf(tx.ins) /\ Amounts(tx.outs)' = Amounts(tx.outs)
            BY <1>2 DEF ValuesOf, Amounts, TxOut
        <3>2. calculate_fee(tx)' = calculate_fee(tx)
            BY <1>2, <3>1, FeeSum, FeeSumNext
        <3> QED BY <1>2, <3>2
    <2>4. (WeightOf(txs[original]))' = WeightOf(tx)
        BY <1>2 DEF WeightOf
    <2>5. ASSUME NEW i \in DOMAIN tx.ins
          PROVE  tx.ins[i].op \in Ops(utxos) /\ OriginalUtxo(tx.ins[i]) \in ToSet(utxos)
        BY <1>8 DEF Ops, ToSet
    <2>6. t # 0
        BY <1>3 DEF GraphSound
    <2> HIDE DEF fee
    <2>7. bumping.absolute = fee
        OBVIOUS
    <2> QED BY <1>2, <1>4, <1>10, <1>12, <2>1, <2>2, <2>3, <2>4, <2>5, <2>6, <2>7 DEF BumpSound
<1> QED BY <1>2, <1>11, <1>13, <1>14 DEF Inv, BuiltSound

-----------------------------------------------------------------------------
(***************************************************************************)
(* create_tx: the coins.                                                   *)
(***************************************************************************)
\* The sum of n equal numbers.
LEMMA SumConstant ==
    ASSUME NEW n \in Nat, NEW c \in Int
    PROVE  SumOver([i \in 1..n |-> c]) = n * c
<1> DEFINE f(k) == [i \in 1..k |-> c]
           B == {k \in Nat : SumOver(f(k)) # k * c}
<1> SUFFICES ASSUME B # {} PROVE FALSE
    OBVIOUS
<1>1. PICK k \in B : \A j \in B : k <= j
    <2>1. B \subseteq Nat
        OBVIOUS
    <2> HIDE DEF B
    <2> QED BY <2>1, LeastNatural
<1>2. CASE k = 0
    <2>1. f(0) \in [{} -> Int] /\ IsFiniteSet({}) /\ f(k) = f(0)
        BY <1>2, FS_EmptySet
    <2> HIDE DEF f
    <2>2. SumOver(f(k)) = 0
        BY <2>1, SumRemove
    <2>3. k * c = 0
        BY <1>2
    <2> QED BY <1>1, <2>2, <2>3
<1>3. CASE k # 0
    <2> DEFINE m == k - 1
    <2>1. m \in Nat /\ k = m + 1 /\ ~(k <= m) /\ k \in Nat
        BY <1>1, <1>3
    <2>2. m \notin B
        BY <1>1, <2>1
    <2>3. SumOver(f(m)) = m * c
        BY <2>1, <2>2
    <2>4. SumOver(f(1)) = c
        <3> DEFINE g == f(1)
        <3>0. 1..1 = {1} /\ IsFiniteSet({1})
            <4>1. 1..1 = {1}
                OBVIOUS
            <4>2. IsFiniteSet({1})
                BY FS_Singleton
            <4> QED BY <4>1, <4>2
        <3>1. g \in [{1} -> Int] /\ g[1] = c
            BY <3>0
        <3>2. {1} \ {1} = {} /\ IsFiniteSet({}) /\ [i \in {} |-> g[i]] \in [{} -> Int]
            BY FS_EmptySet
        <3> HIDE DEF g
        <3>3. SumOver([i \in {} |-> g[i]]) = 0
            BY <3>2, SumRemove
        <3>4. SumOver(g) = g[1] + SumOver([i \in {1} \ {1} |-> g[i]])
            BY <3>0, <3>1, SumRemove
        <3>5. SumOver(g) = c + 0
            BY <3>1, <3>2, <3>3, <3>4
        <3> QED BY <3>5 DEF g
    <2>5. /\ f(k) \in [1..m + 1 -> Int] /\ f(m) \in [1..m -> Int] /\ f(1) \in [1..1 -> Int]
          /\ (\A i \in 1..m : f(m)[i] = f(k)[i]) /\ (\A i \in 1..1 : f(1)[i] = f(k)[m + i])
        BY <2>1
    <2> HIDE DEF f, m
    <2> DEFINE fk == f(k)
               fm == f(m)
               f1 == f(1)
    <2>a. /\ fk \in [1..m + 1 -> Int] /\ fm \in [1..m -> Int] /\ f1 \in [1..1 -> Int]
          /\ (\A i \in 1..m : fm[i] = fk[i]) /\ (\A i \in 1..1 : f1[i] = fk[m + i])
        BY <2>5
    <2> HIDE DEF fk, fm, f1
    <2>b. 1 \in Nat
        OBVIOUS
    <2>c. SumOver(fk) = SumOver(fm) + SumOver(f1)
        BY <2>1, <2>a, <2>b, SumJoined
    <2>6. SumOver(f(k)) = SumOver(f(m)) + SumOver(f(1))
        BY <2>c DEF fk, fm, f1
    <2>7. (m + 1) * c = m * c + c
        BY <2>1
    <2>8. SumOver(f(k)) = k * c
        BY <2>1, <2>3, <2>4, <2>6, <2>7
    <2> QED BY <1>1, <2>8 DEF f
<1> QED BY <1>2, <1>3

\* Coins of the wallet, listed in some order.
LEMMA LocalsListed ==
    ASSUME GraphSound, NEW ops, ops \subseteq list_unspent
    PROVE  /\ Locals(ops) \in Seq(Utxos) /\ Distinct(Locals(ops))
           /\ \A i \in DOMAIN Locals(ops) : Locals(ops)[i].op \in ops /\ Locals(ops)[i] = Local(Locals(ops)[i].op)
<1> DEFINE s == SetToSeq(ops)
           l == [i \in DOMAIN s |-> Local(s[i])]
<1>1. IsFiniteSet(ops)
    BY Unspent, FS_Subset
<1>2. s \in Seq(ops) /\ IsInjective(s)
    BY <1>1, SetListed
<1> HIDE DEF s
<1>3. \A i \in DOMAIN s : s[i] \in ops /\ Local(s[i]) \in Utxos
    <2> TAKE i \in DOMAIN s
    <2>1. s[i] \in ops
        BY <1>2
    <2>2. Ours(s[i]) /\ s[i] \in Nameable
        BY <2>1, Unspent
    <2>3. s[i] \in Outpoint /\ Known(s[i])
        BY <2>2 DEF Nameable, Ours
    <2> QED BY <2>1, <2>3, LocalCoin
<1>4. DOMAIN s = 1..Len(s) /\ Len(s) \in Nat
    BY <1>2
<1>5. l \in Seq(Utxos) /\ DOMAIN l = DOMAIN s /\ \A i \in DOMAIN s : l[i] = Local(s[i])
    BY <1>3, <1>4
<1>6. \A op : Local(op).op = op
    BY DEF Local
<1> HIDE DEF l
<1>7. \A i \in DOMAIN l : l[i].op = s[i] /\ l[i].op \in ops /\ l[i] = Local(l[i].op)
    BY <1>3, <1>5, <1>6
<1>8. Distinct(l)
    BY <1>2, <1>5, <1>7 DEF Distinct, IsInjective
<1>9. Locals(ops) = l
    BY DEF Locals, l, s
<1> QED BY <1>5, <1>7, <1>8, <1>9

\* Two lists of different coins make one.
LEMMA ListsJoined ==
    ASSUME NEW s \in Seq(Utxos), Distinct(s), NEW t \in Seq(Utxos), Distinct(t),
           \A i \in DOMAIN s, j \in DOMAIN t : s[i].op # t[j].op
    PROVE  /\ s \o t \in Seq(Utxos) /\ Distinct(s \o t)
           /\ ToSet(s) \subseteq ToSet(s \o t)
           /\ \A i \in DOMAIN (s \o t) : (s \o t)[i] \in ToSet(s) \/ (s \o t)[i] \in ToSet(t)
<1> DEFINE r == s \o t
<1>1. /\ r \in Seq(Utxos) /\ Len(r) = Len(s) + Len(t)
      /\ \A i \in 1..(Len(s) + Len(t)) : r[i] = IF i <= Len(s) THEN s[i] ELSE t[i - Len(s)]
    BY ConcatProperties
<1> HIDE DEF r
<1>2. /\ DOMAIN r = 1..(Len(s) + Len(t)) /\ DOMAIN s = 1..Len(s) /\ DOMAIN t = 1..Len(t)
      /\ Len(s) \in Nat /\ Len(t) \in Nat
    BY <1>1
<1>3. ASSUME NEW i \in DOMAIN r
      PROVE  \/ i \in DOMAIN s /\ r[i] = s[i] /\ i <= Len(s)
             \/ i - Len(s) \in DOMAIN t /\ r[i] = t[i - Len(s)] /\ ~(i <= Len(s))
    BY <1>1, <1>2
<1>4. Distinct(r)
    <2> SUFFICES ASSUME NEW i \in DOMAIN r, NEW j \in DOMAIN r, r[i].op = r[j].op PROVE i = j
        BY DEF Distinct
    <2>1. CASE i <= Len(s) /\ j <= Len(s)
        BY <1>3, <2>1 DEF Distinct
    <2>2. CASE ~(i <= Len(s)) /\ ~(j <= Len(s))
        <3>1. i - Len(s) = j - Len(s)
            BY <1>3, <2>2 DEF Distinct
        <3> QED BY <1>2, <3>1
    <2>3. ~(i <= Len(s) /\ ~(j <= Len(s))) /\ ~(~(i <= Len(s)) /\ j <= Len(s))
        BY <1>3
    <2> QED BY <2>1, <2>2, <2>3
<1>5. ToSet(s) \subseteq ToSet(r)
    BY <1>1, <1>2 DEF ToSet
<1>6. \A i \in DOMAIN r : r[i] \in ToSet(s) \/ r[i] \in ToSet(t)
    BY <1>3 DEF ToSet
<1> QED BY <1>1, <1>4, <1>5, <1>6 DEF r

\* Coins of the wallet's offer after the caller's.
LEMMA OfferJoined ==
    ASSUME GraphSound, Chosen(params.utxos), NEW ops \in SUBSET filter_utxos
    PROVE  Chosen(params.utxos \o Locals(ops))
<1> DEFINE u == params.utxos
           l == Locals(ops)
<1>1. filter_utxos \subseteq list_unspent /\ \A op \in filter_utxos : op \notin Ops(params.utxos)
    BY DEF filter_utxos
<1>2. /\ l \in Seq(Utxos) /\ Distinct(l)
      /\ \A i \in DOMAIN l : l[i].op \in ops /\ l[i] = Local(l[i].op)
    BY <1>1, LocalsListed
<1> HIDE DEF l
<1>3. u \in Seq(Utxos) /\ Distinct(u)
    BY DEF Chosen
<1>4. \A i \in DOMAIN u, j \in DOMAIN l : u[i].op # l[j].op
    BY <1>1, <1>2 DEF Ops
<1> HIDE DEF u
<1>5. /\ u \o l \in Seq(Utxos) /\ Distinct(u \o l) /\ ToSet(u) \subseteq ToSet(u \o l)
      /\ \A i \in DOMAIN (u \o l) : (u \o l)[i] \in ToSet(u) \/ (u \o l)[i] \in ToSet(l)
    BY <1>2, <1>3, <1>4, ListsJoined
<1>6. \A x \in ToSet(l) : x.op \in filter_utxos /\ x = Local(x.op)
    BY <1>2 DEF ToSet
<1>7. Chosen(u \o l)
    <2> DEFINE r == u \o l
    <2> HIDE DEF r
    <2>1. /\ r \in Seq(Utxos) /\ Distinct(r) /\ ToSet(u) \subseteq ToSet(r)
          /\ \A i \in DOMAIN r : r[i] \in ToSet(u) \/ r[i] \in ToSet(l)
        BY <1>5 DEF r
    <2>2. Chosen(r)
        BY <1>6, <2>1 DEF Chosen, u
    <2> QED BY <2>2 DEF r
<1> QED BY <1>7 DEF u, l

\* The contract adds up as the model does.
LEMMA ContractTotal ==
    ASSUME NEW f
    PROVE  Select!Total(f) = SumOver(f)
BY DEF Select!Total, Select!FoldFunction, Select!FoldFunctionOnSet, Select!MapThenFoldSet,
       SumOver, FoldFunction, FoldFunctionOnSet, MapThenFoldSet

\* A fee is rounded up.
LEMMA FeeAtIs ==
    ASSUME NEW r \in Nat, NEW w \in Nat
    PROVE  /\ Select!FeeAt(r, w) \in Nat
           /\ Select!FeeAt(r, w) * FeeUnit >= r * w
           /\ Select!FeeAt(r, w) * FeeUnit < r * w + FeeUnit
<1> DEFINE x == r * w
<1>1. x \in Nat /\ FeeUnit \in Nat /\ FeeUnit > 0
    BY FeeUnitAssumption
<1>2. Select!FeeAt(r, w) = (x + FeeUnit - 1) \div FeeUnit
    BY DEF Select!FeeAt
<1> HIDE DEF x
<1> DEFINE y == x + FeeUnit - 1
<1>3. y \in Nat /\ y = x + FeeUnit - 1
    BY <1>1
<1> HIDE DEF y
<1> DEFINE q == y \div FeeUnit
           m == y % FeeUnit
<1>4. q \in Nat /\ m \in 0..FeeUnit - 1 /\ y = FeeUnit * q + m
    BY <1>1, <1>3
<1>5. Select!FeeAt(r, w) = q
    BY <1>2 DEF y
<1> HIDE DEF q, m
<1> DEFINE z == q * FeeUnit
<1>6. z \in Nat /\ y = z + m
    BY <1>1, <1>4
<1> HIDE DEF z
<1>7. z >= x /\ z < x + FeeUnit
    BY <1>1, <1>3, <1>4, <1>6
<1> QED BY <1>4, <1>5, <1>7 DEF x, z

\* It is the least number that covers the rate for the weight, and no number that
\* exceeds this by less than one is more.
LEMMA FeeAtBounds ==
    ASSUME NEW r \in Nat, NEW w \in Nat, NEW n \in Nat
    PROVE  /\ n * FeeUnit >= r * w => n >= Select!FeeAt(r, w)
           /\ n * FeeUnit < r * w + FeeUnit => n <= Select!FeeAt(r, w)
<1> DEFINE f == Select!FeeAt(r, w)
           x == r * w
<1>1. f \in Nat /\ f * FeeUnit >= x /\ f * FeeUnit < x + FeeUnit
    BY FeeAtIs
<1>2. x \in Nat /\ FeeUnit \in Nat /\ FeeUnit > 0
    BY FeeUnitAssumption
<1> HIDE DEF f, x
<1>3. ASSUME n < f PROVE n * FeeUnit < x
    <2>1. n + 1 <= f
        BY <1>1, <1>3
    <2>2. (n + 1) * FeeUnit <= f * FeeUnit /\ (n + 1) * FeeUnit = n * FeeUnit + FeeUnit
        BY <1>1, <1>2, <2>1
    <2> QED BY <1>1, <1>2, <2>2
<1>4. ASSUME n > f PROVE n * FeeUnit >= x + FeeUnit
    <2>1. f + 1 <= n
        BY <1>1, <1>4
    <2>2. (f + 1) * FeeUnit <= n * FeeUnit /\ (f + 1) * FeeUnit = f * FeeUnit + FeeUnit
        BY <1>1, <1>2, <2>1
    <2> QED BY <1>1, <1>2, <2>2
<1>5. n * FeeUnit \in Nat
    BY <1>2
<1> QED BY <1>1, <1>2, <1>3, <1>4, <1>5 DEF f, x

\* Rounded in two parts, a fee is at most one more, and never less.
LEMMA FeeInParts ==
    ASSUME NEW r \in Nat, NEW a \in Nat, NEW b \in Nat
    PROVE  /\ Select!FeeAt(r, a + b) <= Select!FeeAt(r, a) + Select!FeeAt(r, b)
           /\ Select!FeeAt(r, a) + Select!FeeAt(r, b) <= Select!FeeAt(r, a + b) + 1
           /\ Select!FeeAt(r, a) <= Select!FeeAt(r, a + b)
<1> DEFINE f == Select!FeeAt(r, a)
           g == Select!FeeAt(r, b)
           h == Select!FeeAt(r, a + b)
           x == r * a
           y == r * b
           F == f * FeeUnit
           G == g * FeeUnit
           H == h * FeeUnit
<1>1. /\ f \in Nat /\ F >= x /\ F < x + FeeUnit
      /\ g \in Nat /\ G >= y /\ G < y + FeeUnit
    BY FeeAtIs
<1>2. h \in Nat /\ H >= r * (a + b) /\ H < r * (a + b) + FeeUnit
    <2>1. a + b \in Nat
        OBVIOUS
    <2> QED BY <2>1, FeeAtIs
<1>3. r * (a + b) = x + y /\ x \in Nat /\ y \in Nat /\ FeeUnit \in Nat /\ FeeUnit > 0
    BY FeeUnitAssumption
<1>4. \A n \in Nat : (n * FeeUnit >= x + y => n >= h) /\ (n * FeeUnit < x + y + FeeUnit => n <= h)
    <2>1. a + b \in Nat
        OBVIOUS
    <2> QED BY <1>3, <2>1, FeeAtBounds
<1> HIDE DEF f, g, h, x, y
<1>5. (f + g) * FeeUnit = F + G /\ F \in Nat /\ G \in Nat /\ f + g \in Nat
    BY <1>1, <1>3
<1>6. h <= f + g
    <2>1. F + G >= x + y
        BY <1>1, <1>3, <1>5
    <2> QED BY <1>4, <1>5, <2>1
<1>7. f <= h
    <2>1. F < x + y + FeeUnit
        BY <1>1, <1>3, <1>5
    <2> QED BY <1>1, <1>4, <2>1
<1>8. f + g <= h + 1
    <2>1. CASE f + g = 0
        BY <1>2, <2>1
    <2>2. CASE f + g # 0
        <3> DEFINE k == f + g - 1
        <3>1. k \in Nat /\ f + g = k + 1
            BY <1>1, <1>5, <2>2
        <3> HIDE DEF k
        <3>2. k * FeeUnit = F + G - FeeUnit
            <4>1. (k + 1) * FeeUnit = k * FeeUnit + FeeUnit /\ k * FeeUnit \in Nat
                BY <1>3, <3>1
            <4>2. (k + 1) * FeeUnit = F + G
                BY <1>5, <3>1
            <4> HIDE DEF F, G
            <4> QED BY <1>3, <1>5, <4>1, <4>2
        <3>3. k * FeeUnit < x + y + FeeUnit
            BY <1>1, <1>3, <1>5, <3>2
        <3>4. k <= h
            BY <1>4, <3>1, <3>3
        <3> QED BY <1>2, <3>1, <3>4
    <2> QED BY <2>1, <2>2
<1> QED BY <1>6, <1>7, <1>8 DEF f, g, h

\* Rounded for each of n inputs, it is at most n more.
LEMMA CoinFeesBound ==
    ASSUME Rate \in Nat, NEW n \in Nat, NEW fee \in CoinFees(n)
    PROVE  /\ fee \in Nat /\ n * InWeight \in Nat
           /\ fee >= Select!FeeAt(Rate, n * InWeight)
           /\ fee <= Select!FeeAt(Rate, n * InWeight) + n
<1> DEFINE f == Select!FeeAt(Rate, InWeight)
           h == Select!FeeAt(Rate, n * InWeight)
           x == Rate * InWeight
<1>1. InWeight \in Nat /\ n * InWeight \in Nat /\ FeeUnit \in Nat /\ FeeUnit > 0
    BY SpendingAssumption, FeeUnitAssumption
<1>2. f \in Nat /\ f * FeeUnit >= x /\ f * FeeUnit < x + FeeUnit /\ x \in Nat
    <2>1. x \in Nat
        BY <1>1
    <2> QED BY <1>1, <2>1, FeeAtIs
<1>3. h \in Nat /\ h * FeeUnit >= Rate * (n * InWeight)
    BY <1>1, FeeAtIs
<1>4. \A k \in Nat : k * FeeUnit >= Rate * (n * InWeight) => k >= h
    BY <1>1, FeeAtBounds
<1>5. Rate * (n * InWeight) = n * x
    BY <1>1
<1>6. fee = n * f \/ fee = h
    BY DEF CoinFees
<1> HIDE DEF f, h, x
<1>7. n * f \in Nat /\ (n * f) * FeeUnit = n * (f * FeeUnit) /\ f * FeeUnit \in Nat
    BY <1>1, <1>2
<1> DEFINE F == f * FeeUnit
<1>8. F \in Nat /\ F >= x /\ F <= x + FeeUnit
    BY <1>1, <1>2, <1>7
<1> HIDE DEF F
<1>9. n * F >= n * x /\ n * F <= n * (x + FeeUnit) /\ n * (x + FeeUnit) = n * x + n * FeeUnit
    BY <1>1, <1>2, <1>8
<1>10. n * f >= h
    BY <1>4, <1>5, <1>7, <1>9 DEF F
<1>11. n * f <= h + n
    <2>1. (h + n) * FeeUnit = h * FeeUnit + n * FeeUnit /\ h * FeeUnit \in Nat /\ n * FeeUnit \in Nat /\ n * x \in Nat
        BY <1>1, <1>2, <1>3
    <2>2. (n * f) * FeeUnit <= (h + n) * FeeUnit
        <3> DEFINE A == (n * f) * FeeUnit
                   B == h * FeeUnit
                   C == n * FeeUnit
                   X == n * x
        <3>1. A \in Nat /\ A <= X + C /\ B >= X /\ (h + n) * FeeUnit = B + C
              /\ B \in Nat /\ C \in Nat /\ X \in Nat
            <4>1. A = n * F /\ A \in Nat
                BY <1>1, <1>7 DEF F
            <4>2. B >= X
                BY <1>3, <1>5
            <4> HIDE DEF A, B, C, X
            <4> QED BY <1>9, <2>1, <4>1, <4>2 DEF C, X, B
        <3> HIDE DEF A, B, C, X
        <3>2. A <= B + C
            BY <3>1
        <3> QED BY <3>1, <3>2 DEF A
    <2>3. \A k, l \in Nat : k > l => k * FeeUnit > l * FeeUnit
        BY <1>1
    <2>4. h + n \in Nat /\ (n * f) * FeeUnit \in Nat /\ (h + n) * FeeUnit \in Nat
        BY <1>1, <1>3, <1>7
    <2>5. ~(n * f > h + n)
        BY <1>7, <2>2, <2>3, <2>4
    <2> QED BY <1>7, <2>4, <2>5
<1> QED BY <1>1, <1>3, <1>6, <1>7, <1>10, <1>11 DEF h

\* What coins are worth and what their inputs cost, as the contract says it.
LEMMA ContractAmounts ==
    ASSUME NEW s \in Seq(Utxos), Rate \in Nat
    PROVE  /\ Select!Worth(s) = SumOver(Amounts(s)) /\ SumOver(Amounts(s)) \in Nat
           /\ Select!Fees(s, Rate) = CoinFees(Len(s))
<1>1. Select!Worth(s) = SumOver(Amounts(s))
    BY ContractTotal DEF Select!Worth, Amounts
<1>2. SumOver(Amounts(s)) \in Nat
    <2>1. \A a \in Utxos : a.value \in Nat
        BY DEF Utxos
    <2> QED BY <2>1, AmountsAdd
<1>3. InWeight \in Nat /\ Len(s) \in Nat /\ DOMAIN s = 1..Len(s)
    BY SpendingAssumption
<1>4. \A i \in DOMAIN s : s[i].weight = InWeight
    <2>1. \A u \in Utxos : u.weight = InWeight
        BY DEF Utxos
    <2> QED BY <2>1
<1>5. Select!FeeFor(s, Rate) = Len(s) * Select!FeeAt(Rate, InWeight)
    <2> DEFINE c == Select!FeeAt(Rate, InWeight)
    <2>1. c \in Nat
        BY <1>3, FeeAtIs
    <2>2. [i \in DOMAIN s |-> Select!FeeAt(Rate, s[i].weight)] = [i \in 1..Len(s) |-> c]
        BY <1>3, <1>4
    <2>3. Select!FeeFor(s, Rate) = SumOver([i \in DOMAIN s |-> Select!FeeAt(Rate, s[i].weight)])
        BY ContractTotal DEF Select!FeeFor
    <2> HIDE DEF c
    <2>4. SumOver([i \in 1..Len(s) |-> c]) = Len(s) * c
        <3>1. c \in Int
            BY <2>1
        <3> QED BY <1>3, <3>1, SumConstant
    <2> QED BY <2>2, <2>3, <2>4 DEF c
<1>6. Select!FeeForAll(s, Rate) = Select!FeeAt(Rate, Len(s) * InWeight)
    <2>1. [i \in DOMAIN s |-> s[i].weight] = [i \in 1..Len(s) |-> InWeight]
        BY <1>3, <1>4
    <2>2. SumOver([i \in 1..Len(s) |-> InWeight]) = Len(s) * InWeight
        <3>1. InWeight \in Int
            BY <1>3
        <3> QED BY <1>3, <3>1, SumConstant
    <2>3. Select!Total([i \in DOMAIN s |-> s[i].weight]) = Len(s) * InWeight
        BY <2>1, <2>2, ContractTotal
    <2> QED BY <2>3 DEF Select!FeeForAll
<1> QED BY <1>1, <1>2, <1>5, <1>6 DEF Select!Fees, CoinFees

\* What is asked of the coins is a number.
LEMMA TargetIs ==
    ASSUME params \in ParamsType
    PROVE  /\ Rate \in Nat /\ FixedFee \in Nat /\ Outgoing \in Nat
           /\ Outgoing = SumOver(Amounts(params.recipients))
           /\ Target = Outgoing + FixedFee + Select!FeeAt(Rate, Weight(0, Len(params.recipients)))
           /\ Target \in Nat
<1>1. params.fee.n \in Nat /\ params.recipients \in Seq(OutputData)
    BY DEF ParamsType
<1>2. Rate \in Nat /\ FixedFee \in Nat
    BY <1>1 DEF Rate, FixedFee
<1>3. Outgoing = SumOver(Amounts(params.recipients))
    BY DEF Outgoing, SumOf, SumOver, Amounts
<1>4. Outgoing \in Nat
    <2>1. \A a \in OutputData : a.value \in Nat
        BY DEF OutputData
    <2> QED BY <1>1, <1>3, <2>1, AmountsAdd
<1>5. Len(params.recipients) \in Nat
    BY <1>1
<1>6. Weight(0, Len(params.recipients)) \in Nat
    BY <1>5, WeightPositive
<1>7. Select!FeeAt(Rate, Weight(0, Len(params.recipients))) \in Nat
    BY <1>2, <1>6, FeeAtIs
<1> QED BY <1>2, <1>3, <1>4, <1>7 DEF Target

\* A successful selection: the caller's coins with some the wallet offers, and
\* they pay.
LEMMA SelectionSound ==
    ASSUME TypeOK, UtxosSound, NEW r \in Selections, r.ok
    PROVE  \E fee \in CoinFees(Len(r.selected)) :
             /\ Chosen(r.selected) /\ Rest(r.selected, fee) \in Nat
             /\ r.change = Change(Rest(r.selected, fee))
<1> DEFINE offered == filter_utxos
           required == params.utxos \o (IF params.drain_wallet THEN Locals(offered) ELSE <<>>)
           optional == IF params.drain_wallet THEN {} ELSE offered
           chosen == {required \o Locals(ops) : ops \in SUBSET optional}
<1>0. GraphSound /\ params \in ParamsType /\ params.utxos \in Seq(Utxos)
    BY DEF TypeOK, ParamsType
<1>11. PICK s \in chosen : \E fee \in Select!Fees(s, Rate) :
         Select!Worth(s) >= Target + fee /\ r = Select!Success(s, fee, Target, Rate)
    <2> DEFINE paying == UNION {{Select!Success(s, fee, Target, Rate) :
                   fee \in {f \in Select!Fees(s, Rate) : Select!Worth(s) >= Target + f}} : s \in chosen}
    <2>1. ~Select!Failure.ok
        BY DEF Select!Failure
    <2>2. r \in paying \/ r = Select!Failure
        <3> HIDE DEF paying
        <3>1. r \in (IF Select!MayFail(required, Locals(optional), Rate, Target)
                     THEN paying \cup {Select!Failure} ELSE paying)
            BY DEF Selections, paying
        <3> QED BY <3>1
    <2>3. r \in paying
        BY <2>1, <2>2
    <2> HIDE DEF required, optional, chosen
    <2> QED BY <2>3
<1>1. PICK fee \in Select!Fees(s, Rate) :
         Select!Worth(s) >= Target + fee /\ r = Select!Success(s, fee, Target, Rate)
    BY <1>11
<1>2. Chosen(params.utxos)
    BY <1>0 DEF Chosen, UtxosSound, ToSet
<1>3. Chosen(s)
    <2>1. PICK ops \in SUBSET optional : s = required \o Locals(ops)
        OBVIOUS
    <2>2. CASE params.drain_wallet
        <3>1. ops = {}
            BY <2>1, <2>2
        <3>2. Locals({}) = <<>>
            <4>1. IsFiniteSet({})
                BY FS_EmptySet
            <4>2. SetToSeq({}) \in Seq({})
                BY <4>1, SetListed
            <4>3. SetToSeq({}) = <<>>
                BY <4>2
            <4>4. DOMAIN SetToSeq({}) = {}
                BY <4>3
            <4> QED BY <4>4 DEF Locals
        <3>3. required = params.utxos \o Locals(offered)
            BY <2>2
        <3>4. Chosen(required)
            BY <1>0, <1>2, <3>3, OfferJoined
        <3> HIDE DEF required
        <3>5. required \in Seq(Utxos)
            BY <3>4 DEF Chosen
        <3>6. s = required
            BY <2>1, <3>1, <3>2, <3>5
        <3> QED BY <3>4, <3>6
    <2>3. CASE ~params.drain_wallet
        <3>1. required = params.utxos /\ ops \in SUBSET filter_utxos
            BY <1>0, <2>1, <2>3
        <3> HIDE DEF required
        <3> QED BY <1>0, <1>2, <2>1, <3>1, OfferJoined
    <2> QED BY <2>2, <2>3
<1> HIDE DEF chosen
<1>4. s \in Seq(Utxos)
    BY <1>3 DEF Chosen
<1>5. Rate \in Nat /\ Target \in Nat
    BY <1>0, TargetIs
<1>6. /\ Select!Worth(s) = SumOver(Amounts(s)) /\ SumOver(Amounts(s)) \in Nat
      /\ fee \in CoinFees(Len(s))
    BY <1>1, <1>4, <1>5, ContractAmounts
<1>7. fee \in Nat
    <2>1. Len(s) \in Nat
        BY <1>4
    <2> QED BY <1>5, <1>6, <2>1, CoinFeesBound
<1>8. Rest(s, fee) = Select!Worth(s) - Target - fee
    BY <1>6 DEF Rest
<1>9. Rest(s, fee) \in Nat
    BY <1>1, <1>5, <1>6, <1>7, <1>8
<1>10. r.selected = s /\ r.change = Select!decide_change(Rest(s, fee), Rate)
    BY <1>1, <1>8 DEF Select!Success
<1> QED BY <1>3, <1>6, <1>9, <1>10 DEF Change

-----------------------------------------------------------------------------
(***************************************************************************)
(* create_tx: the transaction.                                             *)
(***************************************************************************)
\* Two conditions together are a condition.
LEMMA MergeSound ==
    ASSUME NEW a \in Conditions, NEW b \in Conditions
    PROVE  merge(a, b) \in Conditions
<1>1. MergeLock(a.csv, b.csv) \in TimeLocks \cup {None} /\ MergeLock(a.timelock, b.timelock) \in TimeLocks \cup {None}
    BY DEF Conditions, MergeLock, Later
<1>2. Incompatible \in Conditions
    BY DEF Incompatible, Conditions
<1> QED BY <1>1, <1>2 DEF merge, Condition, Conditions

\* What the policies demand.
LEMMA RequirementsSound ==
    ASSUME TypeOK
    PROVE  Requirements \in Conditions
<1>1. "External" \in DOMAIN policy /\ DOMAIN policy \subseteq {"External", "Internal"}
    BY DEF TypeOK, PolicySound
<1>2. \A k \in DOMAIN policy : policy[k][params.path[k]] \in Conditions
    BY DEF TypeOK, PolicySound
<1>3. NoCondition \in Conditions
    BY DEF NoCondition, Condition, Conditions
<1> QED BY <1>1, <1>2, <1>3, MergeSound DEF Requirements

\* The fields of the transaction have their types.
LEMMA FieldsSound ==
    ASSUME TypeOK
    PROVE  /\ Version \in Nat /\ Height \in Nat /\ LockTime \in TimeLocks \cup {None}
           /\ Sequence \in SequenceValues \cup {None}
<1>1. /\ params.version \in Nat \cup {Unset} /\ params.current_height \in Nat \cup {Unset} /\ tip \in Nat
      /\ params.locktime \in TimeLocks \cup {None} /\ params.sequence \in SequenceValues \cup {None}
    BY DEF TypeOK, ParamsType
<1>2. Requirements.csv \in TimeLocks \cup {None} /\ Requirements.timelock \in TimeLocks \cup {None}
    BY RequirementsSound DEF Conditions
<1>3. Version \in Nat /\ Height \in Nat
    BY <1>1 DEF Version, Height
<1>4. Blocks(Height) \in TimeLocks
    BY <1>3 DEF Blocks, TimeLocks
<1>5. LockTime \in TimeLocks \cup {None}
    BY <1>1, <1>2, <1>4 DEF LockTime
<1>6. Disabled("rbf") \in SequenceValues /\ TimeLocks \subseteq SequenceValues
    BY DEF SequenceValues
<1>7. Sequence \in SequenceValues \cup {None}
    BY <1>1, <1>2, <1>6 DEF Sequence
<1> QED BY <1>3, <1>5, <1>7

\* A rearranged list is worth the same.
LEMMA WorthRearranged ==
    ASSUME NEW A, \A a \in A : a.value \in Nat, NEW s \in Seq(A), NEW o, NEW p, Rearranges(o, s, p)
    PROVE  o \in Seq(A) /\ Len(o) = Len(s) /\ ToSet(o) = ToSet(s) /\ SumOver(Amounts(o)) = SumOver(Amounts(s))
<1>1. /\ DOMAIN s = 1..Len(s) /\ Len(s) \in Nat /\ p \in [1..Len(s) -> 1..Len(s)]
      /\ \A i, j \in 1..Len(s) : p[i] = p[j] => i = j
      /\ \A k \in 1..Len(s) : \E i \in 1..Len(s) : p[i] = k
      /\ o = [i \in 1..Len(s) |-> s[p[i]]]
    <2>1. DOMAIN s = 1..Len(s) /\ Len(s) \in Nat
        OBVIOUS
    <2> DEFINE D == DOMAIN s
    <2>2. /\ p \in [D -> D] /\ (\A i, j \in D : p[i] = p[j] => i = j)
          /\ (\A k \in D : \E i \in D : p[i] = k) /\ o = [i \in D |-> s[p[i]]]
        BY DEF Rearranges
    <2> HIDE DEF D
    <2>3. D = 1..Len(s)
        BY <2>1 DEF D
    <2> QED BY <2>1, <2>2, <2>3, Zenon
<1>2. o \in Seq(A) /\ Len(o) = Len(s) /\ DOMAIN o = 1..Len(s) /\ \A i \in 1..Len(s) : o[i] = s[p[i]]
    <2> DEFINE n == Len(s)
    <2>1. \A i \in 1..n : p[i] \in 1..n
        BY <1>1
    <2>2. \A i \in 1..n : s[p[i]] \in A
        BY <1>1, <2>1
    <2>3. o = [i \in 1..n |-> s[p[i]]] /\ n \in Nat
        BY <1>1
    <2> HIDE DEF n
    <2>4. o \in Seq(A) /\ Len(o) = n /\ DOMAIN o = 1..n /\ \A i \in 1..n : o[i] = s[p[i]]
        BY <2>2, <2>3
    <2> QED BY <2>4 DEF n
<1>3. ToSet(o) = ToSet(s)
    <2>1. ASSUME NEW x \in ToSet(o) PROVE x \in ToSet(s)
        <3>1. PICK i \in 1..Len(s) : x = s[p[i]]
            BY <1>2 DEF ToSet
        <3>2. p[i] \in DOMAIN s
            BY <1>1
        <3> QED BY <3>1, <3>2 DEF ToSet
    <2>2. ASSUME NEW x \in ToSet(s) PROVE x \in ToSet(o)
        <3>1. PICK k \in DOMAIN s : x = s[k]
            BY DEF ToSet
        <3>2. PICK i \in 1..Len(s) : p[i] = k
            BY <1>1
        <3>3. o[i] = x /\ i \in DOMAIN o
            BY <1>2, <3>1, <3>2
        <3> QED BY <3>3 DEF ToSet
    <2> QED BY <2>1, <2>2
<1>4. Amounts(s) \in [1..Len(s) -> Int] /\ Amounts(o) \in [1..Len(s) -> Int]
    BY <1>2, AmountsAdd
<1>5. \A i \in 1..Len(s) : Amounts(o)[i] = Amounts(s)[p[i]]
    BY <1>1, <1>2 DEF Amounts
<1>6. IsFiniteSet(1..Len(s))
    BY FiniteUpTo
<1>7. Renumbers(Amounts(o), 1..Len(s), Amounts(s), 1..Len(s), p)
    BY <1>1, <1>4, <1>5, <1>6 DEF Renumbers
<1> QED BY <1>2, <1>3, <1>7, SumReindex

\* The coins in the order of the transaction are still those chosen.
LEMMA ChosenRearranged ==
    ASSUME NEW s, Chosen(s), ~Incomplete(s), NEW o, NEW p, Rearranges(o, s, p)
    PROVE  Chosen(o) /\ ~Incomplete(o) /\ Len(o) = Len(s) /\ \A fee : Rest(o, fee) = Rest(s, fee)
<1>0. s \in Seq(Utxos) /\ Distinct(s)
    BY DEF Chosen
<1>1. \A a \in Utxos : a.value \in Nat
    BY DEF Utxos
<1>2. o \in Seq(Utxos) /\ Len(o) = Len(s) /\ ToSet(o) = ToSet(s) /\ SumOver(Amounts(o)) = SumOver(Amounts(s))
    BY <1>0, <1>1, WorthRearranged
<1>3. Distinct(o)
    <2>1. /\ \A i \in DOMAIN s : p[i] \in DOMAIN s /\ o[i] = s[p[i]]
          /\ DOMAIN o = DOMAIN s /\ \A i, j \in DOMAIN s : p[i] = p[j] => i = j
        BY DEF Rearranges
    <2> SUFFICES ASSUME NEW i \in DOMAIN o, NEW j \in DOMAIN o, o[i].op = o[j].op PROVE i = j
        BY DEF Distinct
    <2>2. s[p[i]].op = s[p[j]].op /\ p[i] \in DOMAIN s /\ p[j] \in DOMAIN s
        BY <2>1
    <2>3. p[i] = p[j]
        BY <1>0, <2>2 DEF Distinct
    <2> QED BY <2>1, <2>3
<1>4. Chosen(o)
    <2>1. \A x \in ToSet(s) : x \in ToSet(params.utxos) \/ (x.op \in filter_utxos /\ x = Local(x.op))
        BY DEF Chosen, ToSet
    <2>2. \A i \in DOMAIN o : o[i] \in ToSet(s)
        BY <1>2 DEF ToSet
    <2>3. ToSet(params.utxos) \subseteq ToSet(o)
        BY <1>2 DEF Chosen
    <2> QED BY <1>2, <1>3, <2>1, <2>2, <2>3 DEF Chosen
<1>5. ~Incomplete(o)
    BY DEF Incomplete, Rearranges
<1>6. Len(o) = Len(s) /\ \A fee : Rest(o, fee) = Rest(s, fee)
    BY <1>2 DEF Rest
<1> QED BY <1>4, <1>5, <1>6

\* The change is unset, or what is left after its own fee (for a script of which
\* no output is dust it may be 0 although that fee is not covered).
LEMMA ChangeIs ==
    ASSUME NEW rest \in Nat, Rate \in Nat
    PROVE  /\ Change(rest) = Unset \/ Change(rest) \in Nat
           /\ Change(rest) = Unset => rest < Select!FeeAt(Rate, OutWeight) + Dust
           /\ Change(rest) # Unset /\ Dust > 0 => Change(rest) = rest - Select!FeeAt(Rate, OutWeight)
<1>1. OutWeight \in Nat /\ Dust \in Nat
    BY SpendingAssumption
<1> DEFINE c == Select!FeeAt(Rate, OutWeight)
           C == Change(rest)
<1>2. c \in Nat
    BY <1>1, FeeAtIs
<1>3. C = IF (IF rest >= c THEN rest - c ELSE 0) < Dust THEN -1 ELSE IF rest >= c THEN rest - c ELSE 0
    BY DEF Change, Select!decide_change
<1> HIDE DEF c, C
<1>4. (C = -1 \/ C \in Nat) /\ (C = -1 => rest < c + Dust) /\ (C # -1 /\ Dust > 0 => C = rest - c)
    <2>1. CASE rest >= c
        BY <1>1, <1>2, <1>3, <2>1
    <2>2. CASE ~(rest >= c)
        BY <1>1, <1>2, <1>3, <2>2
    <2> QED BY <2>1, <2>2
<1> QED BY <1>4 DEF Unset, c, C

\* The outputs: the recipients, and the change if there is any.
LEMMA OutputsBalance ==
    ASSUME TypeOK, NEW rest \in Nat, NEW r, r.change = Change(rest),
           NEW outs \in Orders(params.recipients \o Drain(r))
    PROVE  /\ outs \in Seq(OutputData)
           /\ SumOver(Amounts(outs)) = Outgoing + (IF Change(rest) = Unset THEN 0 ELSE Change(rest))
           /\ Len(outs) = Len(params.recipients) + (IF Change(rest) = Unset THEN 0 ELSE 1)
<1> DEFINE rec == params.recipients
           d == Drain(r)
           all == rec \o d
<1>1. params \in ParamsType /\ rec \in Seq(OutputData) /\ params.ordering \in {"shuffle", "untouched", "custom"}
    BY DEF TypeOK, ParamsType
<1>2. /\ Rate \in Nat /\ Outgoing \in Nat /\ Outgoing = SumOver(Amounts(rec))
    BY <1>1, TargetIs
<1>3. \A a \in OutputData : a.value \in Nat
    BY DEF OutputData
<1>4. Change(rest) = Unset \/ Change(rest) \in Nat
    BY <1>2, ChangeIs
<1>5. /\ d \in Seq(OutputData) /\ Len(d) = (IF Change(rest) = Unset THEN 0 ELSE 1)
      /\ SumOver(Amounts(d)) = (IF Change(rest) = Unset THEN 0 ELSE Change(rest))
    <2>1. CASE Change(rest) = Unset
        <3>1. d = <<>>
            BY <2>1 DEF Drain
        <3>2. Amounts(<<>>) \in [{} -> Int] /\ IsFiniteSet({})
            BY FS_EmptySet DEF Amounts
        <3>3. SumOver(Amounts(<<>>)) = 0
            BY <3>2, SumRemove
        <3> HIDE DEF d
        <3> QED BY <2>1, <3>1, <3>3
    <2>2. CASE Change(rest) # Unset
        <3>0. PICK to \in Payees : d = <<Out(to, Change(rest))>>
            <4> DEFINE w == IF params.drain_to THEN "other" ELSE ChangeKeychain
            <4>1. w \in Payees
                BY DEF ChangeKeychain, Payees
            <4>2. d = <<Out(w, Change(rest))>>
                BY <2>2 DEF Drain
            <4> HIDE DEF w, d
            <4> QED BY <4>1, <4>2
        <3>1. Out(to, Change(rest)) \in OutputData /\ Out(to, Change(rest)).value = Change(rest)
            BY <1>4, <2>2 DEF Out, OutputData
        <3> DEFINE x == Out(to, Change(rest))
                   g == Amounts(d)
        <3> HIDE DEF d, x
        <3>2. d = <<x>> /\ x \in OutputData /\ x.value = Change(rest)
            BY <3>0, <3>1 DEF x
        <3>3. d \in Seq(OutputData) /\ Len(d) = 1 /\ d[1] = x /\ DOMAIN d = 1..1
            BY <3>2
        <3>4. g = [i \in 1..1 |-> Change(rest)]
            <4>1. \A i \in 1..1 : d[i].value = Change(rest)
                BY <3>2, <3>3
            <4> QED BY <3>3, <4>1 DEF Amounts
        <3>5. Change(rest) \in Int /\ 1 \in Nat
            BY <1>4, <2>2
        <3>6. SumOver(g) = 1 * Change(rest)
            BY <3>4, <3>5, SumConstant
        <3> QED BY <2>2, <3>3, <3>5, <3>6
    <2> QED BY <2>1, <2>2
<1> HIDE DEF d
<1>6. /\ all \in Seq(OutputData) /\ Len(all) = Len(rec) + Len(d)
      /\ \A i \in 1..(Len(rec) + Len(d)) : all[i] = IF i <= Len(rec) THEN rec[i] ELSE d[i - Len(rec)]
    BY <1>1, <1>5, ConcatProperties
<1>7. PICK p : Rearranges(outs, all, p)
    BY <1>1, <1>6, OrdersRearrange DEF d
<1> HIDE DEF all, rec
<1>8. outs \in Seq(OutputData) /\ Len(outs) = Len(all) /\ SumOver(Amounts(outs)) = SumOver(Amounts(all))
    BY <1>3, <1>6, <1>7, WorthRearranged
<1>9. SumOver(Amounts(all)) = SumOver(Amounts(rec)) + SumOver(Amounts(d))
    <2>1. Len(rec) \in Nat /\ Len(d) \in Nat
        BY <1>1, <1>5
    <2>2. /\ Amounts(all) \in [1..Len(rec) + Len(d) -> Int] /\ Amounts(rec) \in [1..Len(rec) -> Int]
          /\ Amounts(d) \in [1..Len(d) -> Int]
        BY <1>1, <1>3, <1>5, <1>6, AmountsAdd
    <2>3. \A i \in 1..Len(rec) : Amounts(rec)[i] = Amounts(all)[i]
        BY <1>1, <1>6, <2>1 DEF Amounts
    <2>4. \A i \in 1..Len(d) : Amounts(d)[i] = Amounts(all)[Len(rec) + i]
        <3> TAKE i \in 1..Len(d)
        <3>1. Len(rec) + i \in 1..(Len(rec) + Len(d)) /\ ~(Len(rec) + i <= Len(rec)) /\ (Len(rec) + i) - Len(rec) = i
            BY <2>1
        <3>2. all[Len(rec) + i] = d[i]
            BY <1>6, <3>1
        <3>3. Len(rec) + i \in DOMAIN all /\ i \in DOMAIN d
            BY <1>5, <1>6, <3>1
        <3> QED BY <3>2, <3>3 DEF Amounts
    <2> QED BY <2>1, <2>2, <2>3, <2>4, SumJoined
<1> QED BY <1>2, <1>5, <1>6, <1>8, <1>9 DEF rec

\* The inputs of the transaction are in order.
LEMMA InputsSound ==
    ASSUME TypeOK, UtxosSound, NEW s, Chosen(s)
    PROVE  LET ins == [i \in DOMAIN s |-> TxIn(s[i])]
           IN  /\ ins \in Seq(InputData)
               /\ \A i \in DOMAIN s : ins[i].op = s[i].op /\ ins[i].op[1] < Len(txs) + 1
               /\ \A i, j \in DOMAIN s : ins[i].op = ins[j].op => i = j
<1> DEFINE ins == [i \in DOMAIN s |-> TxIn(s[i])]
<1>1. s \in Seq(Utxos) /\ Distinct(s) /\ GraphSound /\ params.utxos \in Seq(Utxos)
    BY DEF Chosen, TypeOK, ParamsType
<1>2. ASSUME NEW i \in DOMAIN s PROVE s[i].op \in Nameable
    <2>1. CASE s[i] \in ToSet(params.utxos)
        BY <2>1 DEF UtxosSound, ToSet
    <2>2. CASE s[i].op \in filter_utxos
        <3>1. s[i].op \in list_unspent
            BY <2>2 DEF filter_utxos
        <3> QED BY <1>1, <3>1, Unspent
    <2> QED BY <2>1, <2>2 DEF Chosen
<1>3. ASSUME NEW i \in DOMAIN s PROVE s[i].op \in Outpoint /\ s[i].op[1] < Len(txs) + 1
    <2>1. s[i].op \in Outpoint /\ s[i].op[1] \in 0..Len(txs) /\ Len(txs) \in Nat
        BY <1>1, <1>2 DEF Nameable, GraphSound
    <2> QED BY <2>1
<1>4. \A i \in DOMAIN s : TxIn(s[i]) \in InputData /\ TxIn(s[i]).op = s[i].op
    <2> TAKE i \in DOMAIN s
    <2>1. Sequence \in SequenceValues \cup {None}
        BY FieldsSound
    <2>2. s[i] \in Utxos
        BY <1>1
    <2>3. s[i].sequence \in SequenceValues \cup {None}
        BY <2>2 DEF Utxos
    <2> QED BY <1>3, <2>1, <2>3 DEF TxIn, In, InputData
<1>5. ins \in Seq(InputData) /\ \A i \in DOMAIN s : ins[i].op = s[i].op
    BY <1>1, <1>4
<1> QED BY <1>1, <1>3, <1>5 DEF Distinct

\* What create_tx gives is a transaction made from such coins.
LEMMA GiveSound ==
    ASSUME TypeOK, UtxosSound, ~Refused, NEW r \in Selections, r.ok, ~Incomplete(r.selected),
           NEW selected \in Orders(r.selected), NEW outs \in Orders(params.recipients \o Drain(r))
    PROVE  LET tx == Tx(Version, LockTime, [i \in DOMAIN selected |-> TxIn(selected[i])], outs)
           IN  /\ Chosen(selected) /\ ~Incomplete(selected) /\ Balanced(selected, outs)
               /\ TxSound(tx, Len(txs) + 1) /\ tx.height = 0
<1> DEFINE ins == [i \in DOMAIN selected |-> TxIn(selected[i])]
           tx == Tx(Version, LockTime, ins, outs)
<1>1. PICK fee \in CoinFees(Len(r.selected)) :
         /\ Chosen(r.selected) /\ Rest(r.selected, fee) \in Nat
         /\ r.change = Change(Rest(r.selected, fee))
    BY SelectionSound
<1>2. params.ordering \in {"shuffle", "untouched", "custom"} /\ r.selected \in Seq(Utxos)
    BY <1>1 DEF TypeOK, ParamsType, Chosen
<1>3. PICK p : Rearranges(selected, r.selected, p)
    BY <1>2, OrdersRearrange
<1> DEFINE rest == Rest(r.selected, fee)
<1>4. /\ Chosen(selected) /\ ~Incomplete(selected) /\ rest \in Nat
      /\ Rest(selected, fee) = rest /\ fee \in CoinFees(Len(selected))
    BY <1>1, <1>3, ChosenRearranged
<1> HIDE DEF rest
<1>5. /\ outs \in Seq(OutputData)
      /\ SumOver(Amounts(outs)) = Outgoing + (IF Change(rest) = Unset THEN 0 ELSE Change(rest))
      /\ Len(outs) = Len(params.recipients) + (IF Change(rest) = Unset THEN 0 ELSE 1)
    <2>1. r.change = Change(rest)
        BY <1>1 DEF rest
    <2> QED BY <1>4, <2>1, OutputsBalance
<1>6. Balanced(selected, outs)
    BY <1>4, <1>5 DEF Balanced, Settled
<1>7. /\ ins \in Seq(InputData)
      /\ \A i \in DOMAIN selected : ins[i].op = selected[i].op /\ ins[i].op[1] < Len(txs) + 1
      /\ \A i, j \in DOMAIN selected : ins[i].op = ins[j].op => i = j
      /\ DOMAIN ins = DOMAIN selected
    BY <1>4, InputsSound
<1> HIDE DEF ins
<1>8. Version \in Nat /\ LockTime \in TimeLocks \cup {None}
    BY FieldsSound
<1>9. tx \in Transactions /\ tx.ins = ins /\ ~tx.floating /\ tx.height = 0
    BY <1>5, <1>7, <1>8 DEF Tx, Transactions
<1>10. TxSound(tx, Len(txs) + 1)
    <2> HIDE DEF tx
    <2> QED BY <1>7, <1>9 DEF TxSound
<1> QED BY <1>4, <1>6, <1>9, <1>10 DEF ins

\* A builder that is gone leaves nothing behind.
LEMMA FailKeeps ==
    ASSUME Inv, Fail, UNCHANGED descriptors, GraphSound', tip' \in Nat
    PROVE  Inv'
<1>1. /\ stage' = "idle" /\ params' = Default /\ original' = 0 /\ budget' = budget
      /\ UNCHANGED <<policy, kind, rooted>>
    BY DEF Fail, descriptors
<1>2. TypeOK
    BY DEF Inv
<1>3. PolicySound' = PolicySound
    BY <1>1 DEF PolicySound
<1>4. \A k \in DOMAIN policy : Default.path[k] \in DOMAIN policy[k]
    BY <1>2, DefaultSound DEF TypeOK, PolicySound
<1>5. TypeOK'
    BY <1>1, <1>2, <1>3, <1>4, DefaultSound DEF TypeOK
<1> QED BY <1>1, <1>5 DEF Inv, BuiltSound

\* What the recipients get, now and in the next state.
LEMMA OutgoingSum == Outgoing = SumOver(Amounts(params.recipients))
BY DEF Outgoing, SumOf, SumOver, Amounts

\* The same, in the next state.
LEMMA OutgoingSumNext == (Outgoing = SumOver(Amounts(params.recipients)))'
BY OutgoingSum, PTL

\* What a transaction is judged by is the same once it is built.
LEMMA JudgedUnchanged ==
    ASSUME UNCHANGED <<wallet, descriptors, params>>
    PROVE  /\ Refused' = Refused /\ Version' = Version /\ LockTime' = LockTime
           /\ filter_utxos' = filter_utxos /\ Target' = Target /\ Rate' = Rate /\ Outgoing' = Outgoing
           /\ \A u : TxIn(u)' = TxIn(u) /\ InputInfo(u)' = InputInfo(u)
           /\ \A s : Incomplete(s)' = Incomplete(s)
           /\ \A op : Local(op)' = Local(op)
<1>0. UNCHANGED <<txs, tip, locked, policy, kind, rooted, params>>
    BY DEF wallet, descriptors
<1>1. Requirements' = Requirements
    BY <1>0 DEF Requirements
<1>2. Version' = Version /\ Height' = Height /\ Rate' = Rate /\ FixedFee' = FixedFee
    BY <1>0 DEF Version, Height, Rate, FixedFee
<1>3. LockTime' = LockTime /\ Sequence' = Sequence
    BY <1>0, <1>1, <1>2 DEF LockTime, Sequence
<1>4. Refused' = Refused
    BY <1>0, <1>1, <1>2 DEF Refused, PathMissing, requires_path, VersionRefused, LockTimeRefused, SequenceRefused,
                            FeeRefused, NothingSelected, RecipientRefused
<1>5. list_unspent' = list_unspent /\ \A op : TxOut(op)' = TxOut(op)
    BY <1>0, ViewUnchanged
<1>6. filter_utxos' = filter_utxos
    BY <1>0, <1>2, <1>5 DEF filter_utxos, IsMature, TrucAllows, ChangePolicyAllows, Confirmed, TxOut
<1>7. Outgoing' = Outgoing
    BY <1>0, OutgoingSum, OutgoingSumNext DEF Amounts
<1>8. Target' = Target
    BY <1>0, <1>2, <1>7 DEF Target, Select!FeeAt
<1>9. \A u : TxIn(u)' = TxIn(u) /\ InputInfo(u)' = InputInfo(u)
    BY <1>0, <1>3 DEF TxIn, InputInfo, get_psbt_input
<1>10. \A s : Incomplete(s)' = Incomplete(s)
    BY <1>0 DEF Incomplete
<1>11. \A op : Local(op)' = Local(op)
    BY <1>0 DEF Local, TxOut
<1> QED BY <1>2, <1>3, <1>4, <1>6, <1>7, <1>8, <1>9, <1>10, <1>11

\* Nor are the coins it was made from.
LEMMA MadeUnchanged ==
    ASSUME UNCHANGED <<wallet, descriptors, params>>, NEW s
    PROVE  /\ Chosen(s)' = Chosen(s)
           /\ \A outs : Balanced(s, outs)' = Balanced(s, outs)
<1>1. /\ filter_utxos' = filter_utxos /\ Target' = Target /\ Rate' = Rate /\ Outgoing' = Outgoing
      /\ \A op : Local(op)' = Local(op)
    BY JudgedUnchanged
<1>2. Chosen(s)' = Chosen(s)
    BY <1>1 DEF Chosen
<1>3. \A fee : Rest(s, fee)' = Rest(s, fee)
    BY <1>1 DEF Rest
<1>4. \A rest : Change(rest)' = Change(rest)
    BY <1>1 DEF Change, Select!decide_change, Select!FeeAt
<1>5. CoinFees(Len(s))' = CoinFees(Len(s))
    BY <1>1 DEF CoinFees, Select!FeeAt
<1>6. ASSUME NEW outs PROVE Balanced(s, outs)' = Balanced(s, outs)
    <2>1. \A rest : Settled(rest, outs)' = Settled(rest, outs)
        BY <1>1, <1>4 DEF Settled
    <2>2. \A fee : Settled(Rest(s, fee), outs)' = Settled(Rest(s, fee), outs)
        BY <1>3, <2>1
    <2> QED BY <1>5, <2>2 DEF Balanced
<1> QED BY <1>2, <1>6

\* Nor is the list, or what is known of the transaction to replace.
LEMMA ListUnchanged ==
    ASSUME UNCHANGED <<wallet, descriptors, original, params, named>>, UtxosSound, BumpSound
    PROVE  UtxosSound' /\ BumpSound'
<1>1. UNCHANGED <<wallet, descriptors, original>> /\ params' = params /\ named' = named /\ original' = original
    OBVIOUS
<1>2. UtxosSound'
    <2>1. \A i \in DOMAIN params.utxos :
            LET u == params.utxos[i] IN u.op \in Nameable' /\ (OfWallet(u)' \/ OfCaller(u)' \/ OfOriginal(u)')
        BY <1>1, OriginsKept DEF UtxosSound
    <2> QED BY <1>1, <2>1 DEF UtxosSound, Distinct
<1>3. BumpSound'
    <2>1. /\ txs' = txs /\ Canonical' = Canonical /\ \A t : Confirmed(t)' = Confirmed(t)
          /\ \A x : FeeKnown(x)' = FeeKnown(x) /\ calculate_fee(x)' = calculate_fee(x)
          /\ \A in : OriginalUtxo(in)' = OriginalUtxo(in)
        BY <1>1, ViewUnchanged, CoinsUnchanged DEF wallet
    <2> QED BY <1>1, <2>1 DEF BumpSound
<1> QED BY <1>2, <1>3

\* finish, and the last step of finish_mweb_pegin.
LEMMA CreateTxKeeps ==
    ASSUME Inv, stage = "open", CreateTx, UNCHANGED <<wallet, descriptors>>
    PROVE  Inv'
<1>0. TypeOK /\ UtxosSound /\ BumpSound /\ UNCHANGED <<txs, tip, locked, policy, kind, rooted>>
    BY DEF Inv, wallet, descriptors
<1>1. CASE Fail
    <2>1. GraphSound' /\ tip' \in Nat
        BY <1>0, ViewUnchanged DEF TypeOK
    <2> QED BY <1>1, <2>1, FailKeeps
<1>2. CASE ~Fail
    <2>1. ~Refused
        BY <1>2 DEF CreateTx
    <2>2. PICK r \in Selections : r.ok /\ ~Incomplete(r.selected) /\ stage' = "built" /\ Give(r)
                                  /\ UNCHANGED <<params, original, budget, named>>
        BY <1>2, <2>1 DEF CreateTx
    <2>3. PICK selected \in Orders(r.selected), outs \in Orders(params.recipients \o Drain(r)) :
             built' = [tx |-> Tx(Version, LockTime, [i \in DOMAIN selected |-> TxIn(selected[i])], outs),
                       inputs |-> [i \in DOMAIN selected |-> InputInfo(selected[i])]]
        BY <2>2 DEF Give
    <2> DEFINE ins == [i \in DOMAIN selected |-> TxIn(selected[i])]
               tx == Tx(Version, LockTime, ins, outs)
    <2>4. /\ Chosen(selected) /\ ~Incomplete(selected) /\ Balanced(selected, outs)
          /\ TxSound(tx, Len(txs) + 1) /\ tx.height = 0
        BY <1>0, <2>1, <2>2, GiveSound
    <2>5. PICK made : made = tx
        OBVIOUS
    <2>6. /\ made.ins = ins /\ made.outs = outs /\ made.version = Version /\ made.lock_time = LockTime
          /\ TxSound(made, Len(txs) + 1) /\ made.height = 0
          /\ built'.tx = made /\ built'.inputs = [i \in DOMAIN selected |-> InputInfo(selected[i])]
        BY <2>3, <2>4, <2>5 DEF Tx
    <2> HIDE DEF tx
    <2>7. TypeOK'
        BY <1>0, <2>2, ViewUnchanged, CoinsUnchanged DEF TypeOK
    <2>8. UtxosSound' /\ BumpSound'
        BY <1>0, <2>2, ListUnchanged
    <2>9. BuiltSound'
        <3>1. UNCHANGED <<wallet, descriptors, params>>
            BY <2>2
        <3>2. /\ ~Refused' /\ Version' = Version /\ LockTime' = LockTime
              /\ \A u : TxIn(u)' = TxIn(u) /\ InputInfo(u)' = InputInfo(u)
              /\ ~Incomplete(selected)'
            BY <2>1, <2>4, <3>1, JudgedUnchanged
        <3>3. Chosen(selected)' /\ Balanced(selected, outs)'
            BY <2>4, <3>1, MadeUnchanged
        <3>4. (TxSound(built.tx, Len(txs) + 1))' /\ built'.tx.height = 0
            BY <1>0, <2>6
        <3>5. /\ built'.tx.ins = [i \in DOMAIN selected |-> TxIn(selected[i])']
              /\ built'.inputs = [i \in DOMAIN selected |-> InputInfo(selected[i])']
            BY <2>6, <3>2
        <3>6. \E s : /\ Chosen(s)' /\ ~Incomplete(s)' /\ (Balanced(s, built.tx.outs))'
                     /\ built'.tx.ins = [i \in DOMAIN s |-> TxIn(s[i])']
                     /\ built'.inputs = [i \in DOMAIN s |-> InputInfo(s[i])']
            <4>1. (Balanced(selected, built.tx.outs))'
                BY <2>6, <3>3
            <4> QED BY <3>2, <3>3, <3>5, <4>1
        <3>7. built'.tx.version = Version' /\ built'.tx.lock_time = LockTime'
            BY <2>6, <3>2
        <3> QED BY <3>2, <3>4, <3>6, <3>7 DEF BuiltSound
    <2> QED BY <2>7, <2>8, <2>9 DEF Inv
<1> QED BY <1>1, <1>2

\* A step that changes nothing.
LEMMA Unmoved ==
    ASSUME Inv, UNCHANGED vars
    PROVE  Inv'
<1>1. /\ UNCHANGED <<wallet, descriptors, original, params, named>> /\ UNCHANGED <<wallet, descriptors, params>>
      /\ UNCHANGED <<txs, tip, policy, kind, rooted, stage, params, original, budget, named, built>>
      /\ UNCHANGED <<wallet, descriptors, original>>
    BY DEF vars, builder, wallet, descriptors
<1>2. TypeOK'
    BY <1>1, ViewUnchanged, CoinsUnchanged DEF TypeOK, Inv
<1>3. stage \in {"open", "built"} => UtxosSound' /\ BumpSound'
    BY <1>1, ListUnchanged DEF Inv
<1>4. BuiltSound'
    <2> SUFFICES ASSUME stage = "built" PROVE BuiltSound'
        BY <1>1 DEF BuiltSound
    <2>1. PICK s : /\ Chosen(s) /\ ~Incomplete(s) /\ Balanced(s, built.tx.outs)
                   /\ built.tx.ins = [i \in DOMAIN s |-> TxIn(s[i])]
                   /\ built.inputs = [i \in DOMAIN s |-> InputInfo(s[i])]
        BY DEF Inv, BuiltSound
    <2>2. /\ Refused' = Refused /\ Version' = Version /\ LockTime' = LockTime
          /\ \A u : TxIn(u)' = TxIn(u) /\ InputInfo(u)' = InputInfo(u)
          /\ Incomplete(s)' = Incomplete(s)
        BY <1>1, JudgedUnchanged
    <2>3. Chosen(s)' /\ (Balanced(s, built.tx.outs))'
        BY <1>1, <2>1, MadeUnchanged
    <2>4. /\ built'.tx.ins = [i \in DOMAIN s |-> TxIn(s[i])']
          /\ built'.inputs = [i \in DOMAIN s |-> InputInfo(s[i])']
        BY <1>1, <2>1, <2>2
    <2>5. \E x : /\ Chosen(x)' /\ ~Incomplete(x)' /\ (Balanced(x, built.tx.outs))'
                 /\ built'.tx.ins = [i \in DOMAIN x |-> TxIn(x[i])']
                 /\ built'.inputs = [i \in DOMAIN x |-> InputInfo(x[i])']
        BY <2>1, <2>2, <2>3, <2>4
    <2>6. /\ ~Refused /\ built.tx.version = Version /\ built.tx.lock_time = LockTime
          /\ TxSound(built.tx, Len(txs) + 1) /\ built.tx.height = 0
        BY DEF Inv, BuiltSound
    <2> QED BY <1>1, <2>2, <2>5, <2>6 DEF BuiltSound
<1> QED BY <1>1, <1>2, <1>3, <1>4 DEF Inv

-----------------------------------------------------------------------------
(***************************************************************************)
(* The wallet between builders.                                            *)
(***************************************************************************)
\* A step of the wallet while no builder is open.
LEMMA IdleKeeps ==
    ASSUME Inv, stage = "idle", UNCHANGED <<descriptors, builder>>, GraphSound', tip' \in Nat
    PROVE  Inv'
<1>1. UNCHANGED <<policy, kind, rooted, stage, params, original, budget, named, built>>
    BY DEF descriptors, builder
<1>2. TypeOK
    BY DEF Inv
<1>3. PolicySound' = PolicySound
    BY <1>1 DEF PolicySound
<1>4. TypeOK'
    BY <1>1, <1>2, <1>3 DEF TypeOK
<1> QED BY <1>1, <1>4 DEF Inv, BuiltSound

\* Every step keeps the invariant.
LEMMA InvNext ==
    ASSUME Inv, [BuilderNext]_vars
    PROVE  Inv'
<1>0. GraphSound /\ tip \in Nat
    BY DEF Inv, TypeOK
<1>1. CASE build_tx
    BY <1>1, BuildTxKeeps
<1>2. ASSUME NEW t \in DOMAIN txs, build_fee_bump(t) PROVE Inv'
    BY <1>2, BuildFeeBumpKeeps
<1>3. CASE AnyCall
    BY <1>3, AnyCallKeeps
<1>4. CASE finish
    BY <1>4, CreateTxKeeps DEF finish
<1>5. CASE finish_mweb_pegin
    <2>1. stage = "open" /\ UNCHANGED <<wallet, descriptors>> /\ (CreateTx \/ Fail)
        BY <1>5 DEF finish_mweb_pegin
    <2>2. GraphSound' /\ tip' \in Nat
        BY <1>0, <2>1, ViewUnchanged DEF wallet
    <2> QED BY <2>1, <2>2, CreateTxKeeps, FailKeeps
<1>6. CASE broadcast
    <2>1. TxSound(built.tx, Len(txs) + 1) /\ built.tx.height = 0
        BY <1>6 DEF broadcast, Inv, BuiltSound
    <2>2. txs' = Append(txs, built.tx) /\ tip' = tip /\ Fail /\ UNCHANGED descriptors
        BY <1>6 DEF broadcast, Seen
    <2>3. GraphSound'
        BY <1>0, <2>1, <2>2, SeenKeeps
    <2> QED BY <1>0, <2>2, <2>3, FailKeeps
<1>7. ASSUME NEW tx \in Transactions, tx.height = 0, TxSound(tx, Len(txs) + 1), Idle(Seen(tx)) PROVE Inv'
    <2>1. stage = "idle" /\ UNCHANGED <<descriptors, builder>> /\ txs' = Append(txs, tx) /\ tip' = tip
        BY <1>7 DEF Idle, Seen
    <2>2. GraphSound'
        BY <1>0, <1>7, <2>1, SeenKeeps
    <2> QED BY <1>0, <2>1, <2>2, IdleKeeps
<1>8. ASSUME NEW t \in DOMAIN txs, Idle(Mine(t)) PROVE Inv'
    <2>1. stage = "idle" /\ UNCHANGED <<descriptors, builder>> /\ Mine(t)
        BY <1>8 DEF Idle
    <2>2. GraphSound' /\ tip' \in Nat
        BY <1>0, <2>1, MineKeeps
    <2> QED BY <2>1, <2>2, IdleKeeps
<1>9. ASSUME NEW op, Idle(lock_outpoint(op)) \/ Idle(unlock_outpoint(op)) PROVE Inv'
    <2>1. stage = "idle" /\ UNCHANGED <<descriptors, builder>> /\ UNCHANGED <<txs, tip>>
        BY <1>9 DEF Idle, lock_outpoint, unlock_outpoint
    <2>2. GraphSound'
        BY <1>0, <2>1, ViewUnchanged
    <2> QED BY <1>0, <2>1, <2>2, IdleKeeps
<1>10. CASE UNCHANGED vars
    BY <1>10, Unmoved
<1> QED BY <1>1, <1>2, <1>3, <1>4, <1>5, <1>6, <1>7, <1>8, <1>9, <1>10 DEF BuilderNext

\* A wallet in order, without a builder.
LEMMA InvInit ==
    ASSUME BuilderInit
    PROVE  Inv
<1>1. /\ GraphSound /\ tip \in Nat /\ PolicySound /\ stage = "idle" /\ params = Default /\ original = 0
      /\ kind \in {"legacy", "segwit", "taproot"} /\ rooted \in BOOLEAN /\ budget \in Nat
    BY SpendingAssumption DEF BuilderInit, Closed
<1>2. \A k \in DOMAIN policy : params.path[k] \in DOMAIN policy[k]
    BY <1>1, DefaultSound DEF PolicySound
<1>3. TypeOK
    BY <1>1, <1>2, DefaultSound DEF TypeOK
<1> QED BY <1>1, <1>3 DEF Inv, BuiltSound

\* The invariant holds in every state.
LEMMA InvHolds == BuilderSpec => []Inv
<1>1. BuilderInit => Inv
    BY InvInit
<1>2. Inv /\ [BuilderNext]_vars => Inv'
    BY InvNext
<1> QED BY <1>1, <1>2, PTL DEF BuilderSpec

-----------------------------------------------------------------------------
(***************************************************************************)
(* What the invariant says of the transaction that was built.              *)
(***************************************************************************)
Made(s) ==
    /\ Chosen(s) /\ ~Incomplete(s) /\ Balanced(s, built.tx.outs)
    /\ built.tx.ins = [i \in DOMAIN s |-> TxIn(s[i])]
    /\ built.inputs = [i \in DOMAIN s |-> InputInfo(s[i])]

\* The inputs are the outpoints of the coins.
LEMMA MadeInputs ==
    ASSUME NEW s, Made(s)
    PROVE  /\ DOMAIN Inputs = DOMAIN s /\ Spent(built.tx) = Ops(s)
           /\ \A i \in DOMAIN s : Inputs[i] = TxIn(s[i]) /\ Inputs[i].op = s[i].op
           /\ DOMAIN built.inputs = DOMAIN s /\ \A i \in DOMAIN s : built.inputs[i] = InputInfo(s[i])
<1>1. \A u : TxIn(u).op = u.op
    BY DEF TxIn, In
<1>2. DOMAIN Inputs = DOMAIN s /\ \A i \in DOMAIN s : Inputs[i] = TxIn(s[i]) /\ Inputs[i].op = s[i].op
    BY <1>1 DEF Made, Inputs
<1>3. Spent(built.tx) = Ops(s)
    BY <1>2 DEF Spent, Ops, Inputs
<1> QED BY <1>2, <1>3 DEF Made

\* A coin that is neither named nor an input of the original is one the wallet
\* offered.
LEMMA AutomaticOffered ==
    ASSUME Inv, IsBuilt, NEW s, Made(s), NEW op \in Automatic
    PROVE  op \in filter_utxos
<1>0. UtxosSound /\ BumpSound /\ TypeOK
    BY DEF Inv, IsBuilt
<1>1. op \in Spent(built.tx) /\ op \notin named /\ (original # 0 => op \notin Spent(txs[original]))
    BY DEF Automatic
<1>2. PICK i \in DOMAIN s : s[i].op = op
    BY <1>1, MadeInputs DEF Ops
<1>3. CASE s[i] \in ToSet(params.utxos)
    <2>1. OfWallet(s[i]) \/ OfCaller(s[i]) \/ OfOriginal(s[i])
        BY <1>0, <1>3 DEF UtxosSound, ToSet
    <2>2. OfOriginal(s[i])
        BY <1>1, <1>2, <2>1 DEF OfWallet, OfCaller
    <2>3. PICK j \in DOMAIN txs[original].ins : s[i] = OriginalUtxo(txs[original].ins[j]) /\ original # 0
        BY <2>2 DEF OfOriginal
    <2>4. op = txs[original].ins[j].op
        BY <1>2, <2>3 DEF OriginalUtxo, Local, Foreign
    <2>5. op \in Spent(txs[original])
        BY <2>4 DEF Spent
    <2> QED BY <1>1, <2>3, <2>5
<1>4. CASE s[i].op \in filter_utxos
    BY <1>2, <1>4
<1> QED BY <1>3, <1>4 DEF Made, Chosen

\* Coins that come in by themselves are allowed.
LEMMA AutomaticAllowedHolds ==
    ASSUME Inv
    PROVE  AutomaticAllowed
<1> SUFFICES ASSUME IsBuilt PROVE AutomaticAllowed
    BY DEF AutomaticAllowed
<1>0. TypeOK /\ GraphSound /\ PolicySound /\ BumpSound /\ built.tx.version = Version
    BY DEF Inv, IsBuilt, BuiltSound, TypeOK
<1>1. PICK s : Made(s)
    BY DEF Inv, IsBuilt, BuiltSound, Made
<1> SUFFICES ASSUME NEW op \in Automatic
             PROVE  LET parent == txs[op[1]]
                    IN  /\ ~params.manually_selected_only
                        /\ op \notin locked \cup params.unspendable
                        /\ "Internal" \in DOMAIN policy =>
                             /\ params.change_policy = "OnlyChange" => TxOut(op).to = "Internal"
                             /\ params.change_policy = "ChangeForbidden" => TxOut(op).to = "External"
                        /\ parent.coinbase => Height + 1 - parent.height >= Maturity
                        /\ ~Confirmed(op[1]) =>
                             /\ original = 0
                             /\ parent.version = 3 <=> built.tx.version = 3
    BY DEF AutomaticAllowed
<1>2. op \in filter_utxos
    BY <1>1, AutomaticOffered
<1>3. /\ ~params.manually_selected_only /\ op \in list_unspent /\ op \notin locked \cup params.unspendable
      /\ IsMature(op, Height) /\ TrucAllows(op) /\ ChangePolicyAllows(op)
      /\ params.bumping_fee.absolute = Unset \/ Confirmed(op[1])
    BY <1>2 DEF filter_utxos
<1>4. ASSUME "Internal" \in DOMAIN policy
      PROVE  /\ params.change_policy = "OnlyChange" => TxOut(op).to = "Internal"
             /\ params.change_policy = "ChangeForbidden" => TxOut(op).to = "External"
    <2>1. DOMAIN policy # {"External"}
        BY <1>4
    <2> QED BY <1>3, <2>1 DEF ChangePolicyAllows
<1>5. txs[op[1]].coinbase => Height + 1 - txs[op[1]].height >= Maturity
    <2>1. op[1] \in DOMAIN txs
        BY <1>0, <1>3, Unspent
    <2>2. txs[op[1]] \in Transactions
        BY <1>0, <2>1 DEF GraphSound
    <2>3. txs[op[1]].height \in Nat
        BY <2>2 DEF Transactions
    <2>4. Height \in Nat /\ Maturity \in Nat
        BY <1>0, FieldsSound, SpendingAssumption DEF TypeOK, ParamsType
    <2> QED BY <1>3, <2>3, <2>4 DEF IsMature
<1>6. ASSUME ~Confirmed(op[1]) PROVE original = 0
    <2>1. params.bumping_fee.absolute = Unset
        BY <1>3, <1>6
    <2> QED BY <1>0, <2>1 DEF BumpSound, Unset
<1>7. ~Confirmed(op[1]) => (txs[op[1]].version = 3 <=> built.tx.version = 3)
    BY <1>0, <1>3 DEF TrucAllows
<1> QED BY <1>3, <1>4, <1>5, <1>6, <1>7

\* A coin the caller did not name is spent only if nothing speaks against it in the
\* wallet (locked outpoints, immature coinbases, unconfirmed parents of another kind)
\* or in the builder (the exclusions, the change policy, a bump): what filter_utxos
\* is for, for every wallet and every sequence of calls.
THEOREM AutomaticInputsAllowed == BuilderSpec => []AutomaticAllowed
<1>1. Inv => AutomaticAllowed
    BY AutomaticAllowedHolds
<1> QED BY <1>1, InvHolds, PTL

-----------------------------------------------------------------------------
\* No coin is spent twice.
LEMMA NoDoubleSpendHolds ==
    ASSUME Inv
    PROVE  NoDoubleSpend
<1> SUFFICES ASSUME IsBuilt PROVE NoDoubleSpend
    BY DEF NoDoubleSpend
<1>0. UtxosSound /\ BumpSound /\ TypeOK /\ GraphSound
    BY DEF Inv, IsBuilt, TypeOK
<1>1. PICK s : Made(s)
    BY DEF Inv, IsBuilt, BuiltSound, Made
<1>2. Chosen(s) /\ Distinct(s)
    BY <1>1 DEF Made, Chosen
<1>3. \A i, j \in DOMAIN Inputs : Inputs[i].op = Inputs[j].op => i = j
    BY <1>1, <1>2, MadeInputs DEF Distinct
<1>4. ASSUME NEW t \in Canonical \ {original}, NEW op \in Spent(txs[t]) \cap Spent(built.tx)
      PROVE  op \in Brought
    <2>1. PICK i \in DOMAIN s : s[i].op = op
        BY <1>1, MadeInputs DEF Ops
    <2>2. op \notin list_unspent
        BY <1>0, Unspent
    <2>3. s[i] \in ToSet(params.utxos)
        BY <1>2, <2>1, <2>2 DEF Chosen, filter_utxos
    <2>4. PICK j \in DOMAIN params.utxos : params.utxos[j] = s[i]
        BY <2>3 DEF ToSet
    <2>5. OfWallet(s[i]) \/ OfCaller(s[i]) \/ OfOriginal(s[i])
        BY <1>0, <2>4 DEF UtxosSound
    <2>6. ~OfWallet(s[i])
        BY <2>1, <2>2 DEF OfWallet
    <2>7. ~OfOriginal(s[i])
        <3> SUFFICES ASSUME OfOriginal(s[i]) PROVE FALSE
            OBVIOUS
        <3>1. PICK k \in DOMAIN txs[original].ins : s[i] = OriginalUtxo(txs[original].ins[k]) /\ original # 0
            BY DEF OfOriginal
        <3>2. op = txs[original].ins[k].op
            BY <2>1, <3>1 DEF OriginalUtxo, Local, Foreign
        <3>3. op \in Spent(txs[original])
            BY <3>2 DEF Spent
        <3>4. original \in Canonical /\ t \in Canonical /\ t # original
            BY <1>0, <3>1 DEF BumpSound
        <3>5. Conflicting(t, original)
            BY <3>3, <3>4 DEF Conflicting
        <3> QED BY <1>0, <3>4, <3>5, CanonicalConsistent DEF Consistent
    <2>8. ~params.utxos[j].local /\ params.utxos[j].op = op
        BY <2>1, <2>4, <2>5, <2>6, <2>7 DEF OfCaller
    <2> QED BY <2>8 DEF Brought
<1> QED BY <1>3, <1>4 DEF NoDoubleSpend

\* No transaction the builder makes spends a coin twice, however the caller mixed
\* add_utxo, add_foreign_utxo and repeated calls, or spends against a transaction of
\* the wallet's view other than the one a bump replaces.
THEOREM NoCoinSpentTwice == BuilderSpec => []NoDoubleSpend
<1>1. Inv => NoDoubleSpend
    BY NoDoubleSpendHolds
<1> QED BY <1>1, InvHolds, PTL

-----------------------------------------------------------------------------
\* A bump can replace its original.
LEMMA BumpReplacesHolds ==
    ASSUME Inv
    PROVE  BumpReplaces
<1> SUFFICES ASSUME IsBuilt, original # 0 PROVE BumpReplaces
    BY DEF BumpReplaces
<1>0. UtxosSound /\ BumpSound /\ TypeOK /\ GraphSound
    BY DEF Inv, IsBuilt, TypeOK
<1>1. PICK s : Made(s)
    BY DEF Inv, IsBuilt, BuiltSound, Made
<1>2. Chosen(s) /\ ToSet(params.utxos) \subseteq ToSet(s)
    BY <1>1 DEF Made, Chosen
<1>3. original \in Canonical /\ ~Confirmed(original) /\ params.bumping_fee.absolute # Unset /\ original \in DOMAIN txs
    <2>1. original \in Canonical /\ ~Confirmed(original) /\ params.bumping_fee.absolute >= 0
        BY <1>0 DEF BumpSound
    <2>2. original \in DOMAIN txs
        BY <1>0, <2>1, CanonicalConsistent DEF Consistent
    <2> QED BY <2>1, <2>2 DEF Unset
<1>4. Spent(txs[original]) \subseteq Spent(built.tx)
    <2>1. Spent(txs[original]) \subseteq Ops(params.utxos)
        BY <1>0 DEF BumpSound, Spent
    <2>2. Ops(params.utxos) \subseteq Ops(s)
        BY <1>2 DEF Ops, ToSet
    <2> QED BY <1>1, <2>1, <2>2, MadeInputs
<1>5. ASSUME NEW op \in Automatic PROVE op[1] \notin {original} \cup Descendants(original)
    <2>1. op \in filter_utxos
        BY <1>1, AutomaticOffered
    <2>2. Confirmed(op[1]) /\ op \in list_unspent
        BY <1>3, <2>1 DEF filter_utxos
    <2>3. op[1] \in DOMAIN txs
        BY <1>0, <2>2, Unspent
    <2>4. original \notin Ancestors[op[1]]
        BY <1>0, <1>3, <2>2, <2>3, ConfirmedAncestors
    <2> QED BY <1>3, <2>2, <2>4 DEF Descendants
<1>6. ASSUME NEW i \in DOMAIN txs[original].ins,
             ~Ours(txs[original].ins[i].op), txs[original].ins[i].op \notin named
      PROVE  txs[original].ins[i] \in ToSet(Inputs)
    <2> DEFINE in == txs[original].ins[i]
    <2>1. OriginalUtxo(in) \in ToSet(params.utxos)
        BY <1>0, <1>6 DEF BumpSound
    <2>2. PICK k \in DOMAIN s : s[k] = OriginalUtxo(in)
        BY <1>2, <2>1 DEF ToSet
    <2>3. s[k].op = in.op /\ ~s[k].local /\ s[k].sequence = in.sequence
        BY <1>6, <2>2 DEF OriginalUtxo, Foreign
    <2>4. in \in InputData
        <3>1. txs[original] \in Transactions
            BY <1>0, <1>3 DEF GraphSound
        <3>2. txs[original].ins \in Seq(InputData)
            BY <3>1 DEF Transactions
        <3> QED BY <3>2
    <2> HIDE DEF in
    <2>5. In(in.op, in.sequence) = in
        BY <2>4 DEF In, InputData
    <2>6. Inputs[k] = in /\ k \in DOMAIN Inputs
        BY <1>1, <2>2, <2>3, <2>5, MadeInputs DEF TxIn
    <2> QED BY <2>6 DEF ToSet, in
<1> QED BY <1>4, <1>5, <1>6 DEF BumpReplaces

\* A fee bump spends every input of its original and the inputs of other parties
\* as they were, and build_fee_bump with filter_utxos never adds a coin that the
\* replacement takes out of existence: for every graph of transactions.
THEOREM BumpsReplace == BuilderSpec => []BumpReplaces
<1>1. Inv => BumpReplaces
    BY BumpReplacesHolds
<1> QED BY <1>1, InvHolds, PTL

-----------------------------------------------------------------------------
\* What two conditions demand together covers what each demands.
LEMMA MergeCovers ==
    ASSUME NEW a \in Conditions, NEW b \in Conditions, merge(a, b).ok, NEW c \in {a, b}
    PROVE  /\ c.ok
           /\ c.csv # None => /\ merge(a, b).csv \in TimeLocks /\ SameUnit(merge(a, b).csv, c.csv)
                              /\ merge(a, b).csv.n >= c.csv.n
           /\ c.timelock # None => /\ merge(a, b).timelock \in TimeLocks /\ SameUnit(merge(a, b).timelock, c.timelock)
                                   /\ merge(a, b).timelock.n >= c.timelock.n
<1>1. /\ a.ok /\ b.ok /\ Mergeable(a.csv, b.csv) /\ Mergeable(a.timelock, b.timelock)
      /\ merge(a, b) = Condition(MergeLock(a.csv, b.csv), MergeLock(a.timelock, b.timelock))
    BY DEF merge, Incompatible
<1>2. ASSUME NEW x \in TimeLocks \cup {None}, NEW y \in TimeLocks \cup {None}, Mergeable(x, y), NEW z \in {x, y}, z # None
      PROVE  MergeLock(x, y) \in TimeLocks /\ SameUnit(MergeLock(x, y), z) /\ MergeLock(x, y).n >= z.n
    <2>1. \A l \in TimeLocks : l.n \in Nat
        BY DEF TimeLocks
    <2>2. CASE x = None \/ y = None
        BY <1>2, <2>1, <2>2 DEF MergeLock, SameUnit
    <2>3. CASE x # None /\ y # None
        <3>1. x \in TimeLocks /\ y \in TimeLocks /\ x.unit = y.unit /\ x.n \in Nat /\ y.n \in Nat
            BY <1>2, <2>1, <2>3 DEF Mergeable, SameUnit
        <3> QED BY <1>2, <2>3, <3>1 DEF MergeLock, Later, SameUnit
    <2> QED BY <2>2, <2>3
<1>3. /\ a.csv \in TimeLocks \cup {None} /\ b.csv \in TimeLocks \cup {None}
      /\ a.timelock \in TimeLocks \cup {None} /\ b.timelock \in TimeLocks \cup {None}
    BY DEF Conditions
<1>4. merge(a, b).csv = MergeLock(a.csv, b.csv) /\ merge(a, b).timelock = MergeLock(a.timelock, b.timelock)
    BY <1>1 DEF Condition
<1>5. c.csv \in {a.csv, b.csv} /\ c.timelock \in {a.timelock, b.timelock} /\ c.ok
    BY <1>1
<1>6. c.csv # None => /\ merge(a, b).csv \in TimeLocks /\ SameUnit(merge(a, b).csv, c.csv)
                      /\ merge(a, b).csv.n >= c.csv.n
    BY <1>1, <1>2, <1>3, <1>4, <1>5
<1>7. c.timelock # None => /\ merge(a, b).timelock \in TimeLocks /\ SameUnit(merge(a, b).timelock, c.timelock)
                           /\ merge(a, b).timelock.n >= c.timelock.n
    BY <1>1, <1>2, <1>3, <1>4, <1>5
<1> QED BY <1>5, <1>6, <1>7

\* The fields of a coin of the wallet and of what a PSBT input tells.
LEMMA LocalFields ==
    ASSUME NEW op
    PROVE  Local(op).local = TRUE /\ Local(op).op = op
BY DEF Local

\* The fields of a PSBT input's description.
LEMMA InfoFields ==
    ASSUME NEW witness, NEW tap, NEW full
    PROVE  /\ Info(witness, tap, full).witness = witness
           /\ Info(witness, tap, full).tap = tap
           /\ Info(witness, tap, full).full = full
BY DEF Info

\* An input that nobody brought with its own sequence is the wallet's.
LEMMA OwnInputs ==
    ASSUME NEW s, Made(s), NEW i \in DOMAIN s, s[i].op \notin Brought
    PROVE  s[i].local
<1>1. CASE s[i] \in ToSet(params.utxos)
    <2>1. PICK j \in DOMAIN params.utxos : params.utxos[j] = s[i]
        BY <1>1 DEF ToSet
    <2> QED BY <2>1 DEF Brought
<1>2. CASE s[i] = Local(s[i].op)
    BY <1>2, LocalFields
<1> QED BY <1>1, <1>2 DEF Made, Chosen

\* The locks of the named paths are granted.
LEMMA LocksGrantedHolds ==
    ASSUME Inv
    PROVE  LocksGranted
<1> SUFFICES ASSUME IsBuilt PROVE LocksGranted
    BY DEF LocksGranted
<1>0. TypeOK /\ ~Refused /\ built.tx.version = Version /\ built.tx.lock_time = LockTime
    BY DEF Inv, IsBuilt, BuiltSound
<1>1. PICK s : Made(s)
    BY DEF Inv, IsBuilt, BuiltSound, Made
<1>2. Requirements.ok /\ ~VersionRefused /\ ~LockTimeRefused /\ ~SequenceRefused
    BY <1>0 DEF Refused
<1>3. /\ Version \in Nat /\ Height \in Nat /\ params.locktime \in TimeLocks \cup {None}
      /\ params.sequence \in SequenceValues \cup {None}
    BY <1>0, FieldsSound DEF TypeOK, ParamsType
<1>4. /\ \A l \in TimeLocks : l.n \in Nat /\ IsLock(l) /\ l # None
    BY DEF TimeLocks, IsLock, None
<1> SUFFICES ASSUME NEW k \in DOMAIN policy
             PROVE  LET required == policy[k][params.path[k]]
                    IN  /\ required.ok
                        /\ required.csv # None =>
                             /\ built.tx.version >= 2
                             /\ \A i \in DOMAIN Inputs : Inputs[i].op \notin Brought =>
                                  check_nsequence_rbf(Inputs[i].sequence, required.csv)
                        /\ required.timelock # None =>
                             /\ SameUnit(built.tx.lock_time, required.timelock)
                             /\ built.tx.lock_time.n >= required.timelock.n
    BY DEF LocksGranted
<1> DEFINE required == policy[k][params.path[k]]
<1>5. /\ required \in Conditions /\ required.ok
      /\ required.csv # None => /\ Requirements.csv \in TimeLocks /\ SameUnit(Requirements.csv, required.csv)
                                /\ Requirements.csv.n >= required.csv.n
      /\ required.timelock # None => /\ Requirements.timelock \in TimeLocks
                                     /\ SameUnit(Requirements.timelock, required.timelock)
                                     /\ Requirements.timelock.n >= required.timelock.n
    <2> DEFINE a == policy["External"][params.path["External"]]
               b == IF "Internal" \in DOMAIN policy THEN policy["Internal"][params.path["Internal"]] ELSE NoCondition
    <2>1. /\ "External" \in DOMAIN policy /\ DOMAIN policy \subseteq {"External", "Internal"}
          /\ \A j \in DOMAIN policy : policy[j][params.path[j]] \in Conditions
        BY <1>0 DEF TypeOK, PolicySound
    <2>2. NoCondition \in Conditions
        BY DEF NoCondition, Condition, Conditions
    <2>3. a \in Conditions /\ b \in Conditions /\ required \in Conditions
        BY <2>1, <2>2
    <2>4. required \in {a, b}
        <3>1. CASE k = "External"
            BY <3>1
        <3>2. CASE k = "Internal"
            BY <3>2
        <3> QED BY <2>1, <3>1, <3>2
    <2>5. Requirements = merge(a, b)
        BY DEF Requirements
    <2> HIDE DEF a, b, required
    <2> QED BY <1>2, <2>3, <2>4, <2>5, MergeCovers
<1>6. (required.csv # None => required.csv \in TimeLocks) /\ (required.timelock # None => required.timelock \in TimeLocks)
    BY <1>5 DEF Conditions
<1> HIDE DEF required
<1>7. ASSUME required.csv # None PROVE built.tx.version >= 2
    <2>1. Requirements.csv # None
        BY <1>4, <1>5, <1>7
    <2> QED BY <1>0, <1>2, <1>3, <2>1 DEF VersionRefused
<1>8. ASSUME required.csv # None, NEW i \in DOMAIN Inputs, Inputs[i].op \notin Brought
      PROVE  check_nsequence_rbf(Inputs[i].sequence, required.csv)
    <2>1. i \in DOMAIN s /\ Inputs[i] = TxIn(s[i]) /\ Inputs[i].op = s[i].op
        BY <1>1, <1>8, MadeInputs
    <2>2. s[i].local
        BY <1>1, <1>8, <2>1, OwnInputs
    <2>3. Inputs[i].sequence = Sequence
        BY <2>1, <2>2 DEF TxIn, In
    <2>4. /\ Requirements.csv # None /\ Requirements.csv.n \in Nat /\ IsLock(Requirements.csv)
          /\ required.csv.n \in Nat /\ Requirements.csv.n >= required.csv.n /\ Requirements.csv.unit = required.csv.unit
        BY <1>4, <1>5, <1>6, <1>8 DEF SameUnit
    <2>5. Sequence.n \in Nat
        <3>1. \A x \in SequenceValues \cup {None} : x.n \in Nat
            BY DEF SequenceValues, TimeLocks, Disabled, None
        <3> QED BY <1>0, <3>1, FieldsSound
    <2>6. check_nsequence_rbf(Sequence, Requirements.csv)
        <3>1. CASE params.sequence # None
            BY <1>2, <2>4, <3>1 DEF Sequence, SequenceRefused
        <3>2. CASE params.sequence = None
            BY <2>4, <3>2 DEF Sequence, check_nsequence_rbf, SameUnit
        <3> QED BY <3>1, <3>2
    <2> QED BY <2>3, <2>4, <2>5, <2>6 DEF check_nsequence_rbf, SameUnit
<1>9. ASSUME required.timelock # None
      PROVE  SameUnit(LockTime, required.timelock) /\ LockTime.n >= required.timelock.n
    <2> DEFINE m == Requirements.timelock
    <2>1. /\ m \in TimeLocks /\ m # None /\ m.n \in Nat /\ required.timelock.n \in Nat
          /\ m.n >= required.timelock.n /\ m.unit = required.timelock.unit
        BY <1>4, <1>5, <1>6, <1>9 DEF SameUnit
    <2>2. CASE params.locktime # None
        <3>1. params.locktime.n \in Nat /\ m.unit = params.locktime.unit /\ params.locktime.n >= m.n
            BY <1>2, <1>3, <1>4, <2>1, <2>2 DEF LockTimeRefused, SameUnit
        <3>2. LockTime = params.locktime
            BY <2>2 DEF LockTime
        <3> QED BY <2>1, <3>1, <3>2 DEF SameUnit
    <2>3. CASE params.locktime = None
        <3>1. CASE m.unit = "blocks" /\ m.n < Height
            <4>1. LockTime = Blocks(Height)
                BY <2>3, <3>1 DEF LockTime
            <4> QED BY <1>3, <2>1, <3>1, <4>1 DEF Blocks, SameUnit
        <3>2. CASE ~(m.unit = "blocks" /\ m.n < Height)
            <4>1. LockTime = m
                BY <2>1, <2>3, <3>2 DEF LockTime
            <4> QED BY <2>1, <4>1 DEF SameUnit
        <3> QED BY <3>1, <3>2
    <2> QED BY <2>2, <2>3
<1> QED BY <1>0, <1>5, <1>7, <1>8, <1>9 DEF required

\* A transaction satisfies the time locks of the policy paths it was built for:
\* create_tx merges what both keychains demand and refuses what does not grant it,
\* for every policy, every lock time, sequence, version and height that was set.
THEOREM TimeLocksGranted == BuilderSpec => []LocksGranted
<1>1. Inv => LocksGranted
    BY LocksGrantedHolds
<1> QED BY <1>1, InvHolds, PTL

-----------------------------------------------------------------------------
\* Every input can be signed.
LEMMA InputsSignableHolds ==
    ASSUME Inv
    PROVE  InputsSignable
<1> SUFFICES ASSUME IsBuilt PROVE InputsSignable
    BY DEF InputsSignable
<1>0. UtxosSound /\ TypeOK
    BY DEF Inv, IsBuilt
<1>1. PICK s : Made(s)
    BY DEF Inv, IsBuilt, BuiltSound, Made
<1>2. kind \in {"legacy", "segwit", "taproot"} /\ s \in Seq(Utxos)
    BY <1>0, <1>1 DEF TypeOK, Made, Chosen
<1> SUFFICES ASSUME NEW i \in DOMAIN built.inputs
             PROVE  LET info == built.inputs[i]
                    IN  /\ Inputs[i].op \notin Brought =>
                             (info.tap <=> kind = "taproot") /\ (info.witness <=> kind # "legacy")
                        /\ \/ info.full
                           \/ info.witness /\ (info.tap \/ params.only_witness_utxo)
                           \/ original # 0 /\ ~info.witness /\ params.only_witness_utxo
    BY DEF InputsSignable
<1> DEFINE info == built.inputs[i]
           u == s[i]
<1>3. i \in DOMAIN s /\ info = InputInfo(u) /\ Inputs[i].op = u.op
    BY <1>1, MadeInputs
<1>4. u.local => /\ (info.tap <=> kind = "taproot") /\ (info.witness <=> kind # "legacy")
                 /\ (info.full <=> kind = "legacy" \/ (kind = "segwit" /\ ~params.only_witness_utxo))
    <2> DEFINE w == kind # "legacy"
               tap == kind = "taproot"
               full == kind = "legacy" \/ (kind = "segwit" /\ ~params.only_witness_utxo)
    <2>1. u.local => info = Info(w, tap, full)
        BY <1>3, Zenon DEF InputInfo, get_psbt_input
    <2> HIDE DEF w, tap, full, info
    <2>2. u.local => info.witness = w /\ info.tap = tap /\ info.full = full
        BY <2>1, InfoFields
    <2> QED BY <2>2 DEF w, tap, full
<1>5. u.op \notin Brought => u.local
    BY <1>1, <1>3, OwnInputs
<1>6. ASSUME ~u.local
      PROVE  \/ info.full
             \/ info.witness /\ (info.tap \/ params.only_witness_utxo)
             \/ original # 0 /\ ~info.witness /\ params.only_witness_utxo
    <2>1. info = u.info /\ (info.tap \/ params.only_witness_utxo \/ info.full)
        BY <1>1, <1>3, <1>6 DEF Made, Incomplete, InputInfo
    <2>2. u \in ToSet(params.utxos)
        <3>1. u \in ToSet(params.utxos) \/ u = Local(u.op)
            BY <1>1, <1>3 DEF Made, Chosen
        <3> QED BY <1>6, <3>1, LocalFields
    <2>3. OfWallet(u) \/ OfCaller(u) \/ OfOriginal(u)
        BY <1>0, <2>2 DEF UtxosSound, ToSet
    <2>4. ~OfWallet(u)
        BY <1>6 DEF OfWallet, Local
    <2>5. CASE OfCaller(u)
        BY <2>1, <2>5 DEF OfCaller
    <2>6. CASE OfOriginal(u)
        <3>1. PICK j \in DOMAIN txs[original].ins : original # 0 /\ u = OriginalUtxo(txs[original].ins[j])
            BY <2>6 DEF OfOriginal
        <3>2. u.info.tap => u.info.witness
            <4> DEFINE in == txs[original].ins[j]
            <4>1. ~Ours(in.op)
                <5>1. Ours(in.op) => u = Local(in.op)
                    BY <3>1 DEF OriginalUtxo
                <5> QED BY <1>6, <5>1, LocalFields
            <4> DEFINE w == kind # "legacy"
                       tap == kind = "taproot"
                       full == in.op[1] \in Held
            <4>2. u = Foreign(in.op, TxOut(in.op).value, in.sequence, Info(w, tap, full))
                BY <3>1, <4>1 DEF OriginalUtxo
            <4> HIDE DEF w, tap, full, u
            <4>3. u.info = Info(w, tap, full)
                BY <4>2 DEF Foreign
            <4>4. u.info.tap = tap /\ u.info.witness = w
                BY <4>3, InfoFields
            <4> QED BY <4>4 DEF w, tap
        <3> QED BY <2>1, <3>1, <3>2
    <2> QED BY <2>3, <2>4, <2>5, <2>6
<1> HIDE DEF info, u
<1>7. Inputs[i].op \notin Brought =>
        (info.tap <=> kind = "taproot") /\ (info.witness <=> kind # "legacy")
    BY <1>3, <1>4, <1>5
<1>8. u.local => info.full \/ (info.witness /\ (info.tap \/ params.only_witness_utxo))
    BY <1>2, <1>4
<1> QED BY <1>6, <1>7, <1>8 DEF info

\* Every input of a PSBT the builder makes can be signed safely, after any ordering:
\* get_psbt_input and complete_transaction attach the full transaction, or the output
\* where that is enough.
THEOREM PsbtInputsSignable == BuilderSpec => []InputsSignable
<1>1. Inv => InputsSignable
    BY InputsSignableHolds
<1> QED BY <1>1, InvHolds, PTL

-----------------------------------------------------------------------------
(***************************************************************************)
(* The fee.                                                                *)
(***************************************************************************)
\* Without the change the outputs pay no more, and there is one less at most.
LEMMA KeptPaysLess ==
    ASSUME NEW outs \in Seq(OutputData)
    PROVE  /\ SumOver(Amounts(DropChange(outs))) <= SumOver(Amounts(outs))
           /\ Len(DropChange(outs)) + 1 >= Len(outs)
<1>0. \A a \in OutputData : a.value \in Nat
    BY DEF OutputData
<1>1. SumOver(Amounts(outs)) \in Nat /\ Amounts(outs) \in [1..Len(outs) -> Int]
    BY <1>0, AmountsAdd
<1>2. CASE DropChange(outs) = outs
    BY <1>1, <1>2
<1>3. ASSUME NEW m \in 1..Len(outs), DropChange(outs) = RemoveAt(outs, m)
      PROVE  /\ SumOver(Amounts(DropChange(outs))) <= SumOver(Amounts(outs))
             /\ Len(DropChange(outs)) + 1 >= Len(outs)
    <2> DEFINE n == Len(outs)
               r == RemoveAt(outs, m)
               q == [i \in 1..n - 1 |-> IF i < m THEN i ELSE i + 1]
    <2>1. r \in Seq(OutputData)
        BY <1>3, DropChangeKeeps
    <2>2. Len(r) = n - 1 /\ \A i \in 1..n - 1 : r[i] = outs[q[i]]
        <3> DEFINE a == SubSeq(outs, 1, m - 1)
                   b == SubSeq(outs, m + 1, n)
        <3>1. /\ a \in Seq(OutputData) /\ Len(a) = m - 1 /\ \A i \in 1..m - 1 : a[i] = outs[i]
              /\ b \in Seq(OutputData) /\ Len(b) = n - m /\ \A i \in 1..n - m : b[i] = outs[m + i]
            OBVIOUS
        <3>2. r = a \o b
            BY DEF RemoveAt
        <3>3. m \in Nat /\ n \in Nat /\ 1 <= m /\ m <= n
            OBVIOUS
        <3> HIDE DEF a, b, r, n
        <3>4. /\ Len(a \o b) = Len(a) + Len(b)
              /\ \A i \in 1..Len(a) + Len(b) : (a \o b)[i] = IF i <= Len(a) THEN a[i] ELSE b[i - Len(a)]
            BY <3>1, ConcatProperties
        <3>5. Len(r) = n - 1
            BY <3>1, <3>2, <3>3, <3>4
        <3>6. ASSUME NEW i \in 1..n - 1 PROVE r[i] = outs[q[i]]
            <4>1. r[i] = IF i <= m - 1 THEN a[i] ELSE b[i - (m - 1)]
                BY <3>1, <3>2, <3>3, <3>4
            <4>2. CASE i < m
                BY <3>1, <3>3, <4>1, <4>2
            <4>3. CASE ~(i < m)
                <5>1. i - (m - 1) \in 1..n - m /\ m + (i - (m - 1)) = i + 1 /\ ~(i <= m - 1)
                    BY <3>3, <4>3
                <5>2. r[i] = outs[i + 1]
                    BY <3>1, <4>1, <5>1
                <5> QED BY <4>3, <5>2
            <4> QED BY <4>2, <4>3
        <3> QED BY <3>5, <3>6
    <2>3. /\ n \in Nat /\ n - 1 \in Nat /\ DOMAIN outs = 1..n
        OBVIOUS
    <2>4. q \in [1..n - 1 -> 1..n] /\ \A i, j \in 1..n - 1 : q[i] = q[j] => i = j
        BY <2>3
    <2> HIDE DEF n, q, r
    <2>5. DOMAIN r = 1..n - 1
        BY <2>1, <2>2
    <2>6. Amounts(r) \in [1..n - 1 -> Int] /\ SumOver(Amounts(r)) \in Nat
        BY <1>0, <2>1, <2>2, AmountsAdd
    <2>7. \A i \in 1..n - 1 : Amounts(r)[i] = Amounts(outs)[q[i]]
        BY <2>2, <2>3, <2>4, <2>5 DEF Amounts
    <2>8. \A i \in 1..n : Amounts(outs)[i] >= 0
        <3>1. \A i \in 1..n : outs[i] \in OutputData
            BY <2>3 DEF n
        <3> QED BY <1>0, <2>3, <3>1 DEF Amounts
    <2>9. IsFiniteSet(1..n) /\ IsFiniteSet(1..n - 1)
        BY <2>3, FiniteUpTo
    <2>10. Amounts(outs) \in [1..n -> Int]
        BY <1>1 DEF n
    <2>11. SumOver(Amounts(r)) <= SumOver(Amounts(outs))
        <3> DEFINE D == 1..n
                   A == 1..n - 1
                   f == Amounts(outs)
                   h == Amounts(r)
        <3>1. PartOf(h, A, f, D, q)
            BY <2>4, <2>6, <2>7, <2>8, <2>9, <2>10 DEF PartOf
        <3> HIDE DEF D, A, f, h
        <3>2. SumOver(h) <= SumOver(f)
            BY <3>1, SumPart
        <3> QED BY <3>2 DEF f, h
    <2> QED BY <1>3, <2>2, <2>3, <2>11 DEF r, n
<1> QED BY <1>2, <1>3, DropChangeKeeps

\* What the inputs are worth, as the property adds it up.
InValues ==
    [i \in DOMAIN Inputs |->
        IF Known(Inputs[i].op) THEN TxOut(Inputs[i].op).value
        ELSE params.utxos[CHOOSE j \in DOMAIN params.utxos : params.utxos[j].op = Inputs[i].op].value]

\* It is the sum of these.
LEMMA InValueIs == InValue = SumOver(InValues)
BY DEF InValue, InValues, SumOf, SumOver

\* Every coin is worth what the graph says, if the graph has it.
LEMMA CoinWorth ==
    ASSUME Inv, IsBuilt, NEW s, Made(s), NEW i \in DOMAIN s
    PROVE  /\ Known(s[i].op) => s[i].value = TxOut(s[i].op).value
           /\ ~Known(s[i].op) => s[i] \in ToSet(params.utxos)
<1>0. UtxosSound /\ BumpSound /\ TypeOK /\ GraphSound
    BY DEF Inv, IsBuilt, TypeOK
<1>1. CASE s[i] = Local(s[i].op) /\ s[i].op \in list_unspent
    <2>1. Known(s[i].op)
        BY <1>0, <1>1, Unspent DEF Ours
    <2>2. s[i].value = TxOut(s[i].op).value
        BY <1>1 DEF Local
    <2> QED BY <2>1, <2>2
<1>2. CASE s[i] \in ToSet(params.utxos)
    <2>1. OfWallet(s[i]) \/ OfCaller(s[i]) \/ OfOriginal(s[i])
        BY <1>0, <1>2 DEF UtxosSound, ToSet
    <2>2. CASE OfWallet(s[i])
        BY <1>1, <2>2 DEF OfWallet
    <2>3. CASE OfCaller(s[i])
        BY <1>2, <2>3 DEF OfCaller
    <2>4. CASE OfOriginal(s[i])
        <3>1. PICK j \in DOMAIN txs[original].ins : s[i] = OriginalUtxo(txs[original].ins[j]) /\ original # 0
            BY <2>4 DEF OfOriginal
        <3>2. original \in Canonical /\ FeeKnown(txs[original])
            BY <1>0, <3>1 DEF BumpSound
        <3>3. original \in DOMAIN txs
            BY <1>0, <3>2, CanonicalConsistent DEF Consistent
        <3> QED BY <1>0, <1>2, <3>1, <3>2, <3>3, OriginalCoin
    <2> QED BY <2>1, <2>2, <2>3, <2>4
<1>3. s[i] \in ToSet(params.utxos) \/ (s[i] = Local(s[i].op) /\ s[i].op \in list_unspent)
    BY DEF Made, Chosen, filter_utxos
<1> QED BY <1>1, <1>2, <1>3

\* So the inputs are worth what the selection counted.
LEMMA InputsWorth ==
    ASSUME Inv, IsBuilt, NEW s, Made(s)
    PROVE  InValue = SumOver(Amounts(s))
<1>0. UtxosSound /\ Distinct(params.utxos)
    BY DEF Inv, IsBuilt, UtxosSound
<1>1. DOMAIN Inputs = DOMAIN s /\ \A i \in DOMAIN s : Inputs[i].op = s[i].op
    BY MadeInputs
<1>2. ASSUME NEW i \in DOMAIN s, ~Known(s[i].op)
      PROVE  params.utxos[CHOOSE j \in DOMAIN params.utxos : params.utxos[j].op = s[i].op] = s[i]
    <2>1. PICK j \in DOMAIN params.utxos : params.utxos[j] = s[i]
        BY <1>2, CoinWorth DEF ToSet
    <2> DEFINE c == CHOOSE k \in DOMAIN params.utxos : params.utxos[k].op = s[i].op
    <2>2. c \in DOMAIN params.utxos /\ params.utxos[c].op = s[i].op
        BY <2>1
    <2> HIDE DEF c
    <2>3. c = j
        BY <1>0, <2>1, <2>2 DEF Distinct
    <2> QED BY <2>1, <2>3 DEF c
<1>3. InValues = Amounts(s)
    <2>1. \A i \in DOMAIN s : InValues[i] = s[i].value
        <3> TAKE i \in DOMAIN s
        <3>1. CASE Known(s[i].op)
            BY <1>1, <3>1, CoinWorth DEF InValues
        <3>2. CASE ~Known(s[i].op)
            BY <1>1, <1>2, <3>2 DEF InValues
        <3> QED BY <3>1, <3>2
    <2>2. InValues = [i \in DOMAIN s |-> InValues[i]]
        BY <1>1 DEF InValues
    <2> QED BY <2>1, <2>2 DEF Amounts
<1> QED BY <1>3, InValueIs

\* A bump has no fewer inputs than its original, and they are worth no less.
LEMMA OriginalPart ==
    ASSUME Inv, IsBuilt, original # 0, NEW s, Made(s)
    PROVE  /\ Len(txs[original].ins) <= Len(s)
           /\ SumOver(ValuesOf(txs[original].ins)) <= SumOver(Amounts(s))
<1> DEFINE tx == txs[original]
           A == 1..Len(tx.ins)
           D == 1..Len(s)
           q == [i \in A |-> CHOOSE k \in D : s[k].op = tx.ins[i].op]
<1>0. UtxosSound /\ BumpSound /\ TypeOK /\ GraphSound
    BY DEF Inv, IsBuilt, TypeOK
<1>1. original \in DOMAIN txs /\ FeeKnown(tx)
    BY <1>0, CanonicalConsistent DEF BumpSound, Consistent
<1>2. tx \in Transactions /\ TxSound(tx, original)
    BY <1>0, <1>1 DEF GraphSound
<1>3. tx.ins \in Seq(InputData) /\ DOMAIN tx.ins = A /\ Len(tx.ins) \in Nat
    <2>1. tx.ins \in Seq(InputData)
        BY <1>2 DEF Transactions
    <2> QED BY <2>1
<1>4. s \in Seq(Utxos) /\ DOMAIN s = D /\ Len(s) \in Nat
    <2>1. s \in Seq(Utxos)
        BY DEF Made, Chosen
    <2> QED BY <2>1
<1>5. Spent(tx) \subseteq Ops(s)
    <2>1. BumpReplaces
        BY BumpReplacesHolds
    <2> QED BY <2>1, MadeInputs DEF BumpReplaces
<1> HIDE DEF tx
<1>6. ASSUME NEW i \in A PROVE \E k \in D : s[k].op = tx.ins[i].op
    <2>1. tx.ins[i].op \in Ops(s)
        BY <1>3, <1>5 DEF Spent
    <2> QED BY <1>4, <2>1 DEF Ops
<1> HIDE DEF A, D
<1>7. q \in [A -> D] /\ \A i \in A : q[i] \in D /\ s[q[i]].op = tx.ins[i].op
    BY <1>6
<1> HIDE DEF q
<1>8. \A i, j \in A : q[i] = q[j] => i = j
    BY <1>2, <1>3, <1>7 DEF TxSound
<1>9. IsFiniteSet(A) /\ IsFiniteSet(D) /\ Cardinality(A) = Len(tx.ins) /\ Cardinality(D) = Len(s)
    <2>1. IsFiniteSet(A) /\ IsFiniteSet(D)
        BY <1>3, <1>4, FiniteUpTo DEF A, D
    <2>2. Cardinality(A) = Len(tx.ins)
        BY <1>3, FS_Interval DEF A
    <2>3. Cardinality(D) = Len(s)
        BY <1>4, FS_Interval DEF D
    <2> QED BY <2>1, <2>2, <2>3
<1>10. Len(tx.ins) <= Len(s)
    <2>1. q \in Injection(A, D)
        BY <1>7, <1>8 DEF Injection, IsInjective
    <2>2. Cardinality(A) <= Cardinality(D)
        BY <1>9, <2>1, FS_Injection
    <2> QED BY <1>9, <2>2
<1>11. SumOver(ValuesOf(tx.ins)) <= SumOver(Amounts(s))
    <2> DEFINE f == Amounts(s)
               h == ValuesOf(tx.ins)
    <2>1. h \in [A -> Int]
        BY <1>0, <1>1, <1>2, FeeIs DEF A
    <2>2. \A u \in Utxos : u.value \in Nat
        BY DEF Utxos
    <2>3. f \in [D -> Int]
        BY <1>4, <2>2, AmountsAdd DEF D
    <2>4. \A k \in D : f[k] >= 0
        <3>1. \A k \in D : s[k] \in Utxos
            BY <1>4
        <3> QED BY <1>4, <2>2, <3>1 DEF Amounts
    <2>5. ASSUME NEW i \in A PROVE h[i] = f[q[i]]
        <3>1. Known(tx.ins[i].op)
            BY <1>1, <1>3 DEF FeeKnown, Spent
        <3>2. s[q[i]].value = TxOut(s[q[i]].op).value
            BY <1>4, <1>7, <3>1, CoinWorth
        <3>3. h[i] = TxOut(tx.ins[i].op).value
            BY <1>3 DEF ValuesOf
        <3>4. f[q[i]] = s[q[i]].value
            BY <1>4, <1>7 DEF Amounts
        <3> QED BY <1>7, <3>2, <3>3, <3>4
    <2> HIDE DEF f, h
    <2>6. PartOf(h, A, f, D, q)
        BY <1>7, <1>8, <1>9, <2>1, <2>3, <2>4, <2>5 DEF PartOf
    <2>7. SumOver(h) <= SumOver(f)
        BY <2>6, SumPart
    <2> QED BY <2>7 DEF f, h
<1> QED BY <1>10, <1>11 DEF tx

\* A rate above the old one, for no less weight, is a fee above the old one.
LEMMA HigherRatePays ==
    ASSUME NEW fee \in Nat, NEW w \in Nat \ {0}, NEW v \in Nat, v >= w, NEW r \in Nat, r >= fee \div w + 1
    PROVE  r * v >= fee
<1> DEFINE d == fee \div w
<1>1. d \in Nat /\ fee < (d + 1) * w
    <2> DEFINE m == fee % w
    <2>1. m \in 0..w - 1
        OBVIOUS
    <2>5. fee = w * d + m
        OBVIOUS
    <2>2. d \in Nat
        OBVIOUS
    <2> HIDE DEF m
    <2> HIDE DEF d
    <2>3. (d + 1) * w = w * d + w
        BY <2>2
    <2>4. w * d \in Nat
        BY <2>2
    <2> QED BY <2>1, <2>2, <2>3, <2>4, <2>5
<1> HIDE DEF d
<1>2. r >= d + 1
    BY DEF d
<1>3. (d + 1) * w <= (d + 1) * v
    BY <1>1
<1>4. (d + 1) * v <= r * v
    BY <1>1, <1>2
<1>5. (d + 1) * w \in Nat /\ (d + 1) * v \in Nat /\ r * v \in Nat
    BY <1>1
<1> QED BY <1>1, <1>3, <1>4, <1>5

\* What the transaction costs: what was asked for it before it had inputs and
\* change, the fee for the inputs, and that for change or what is too little for it.
Asked(fee) == Select!FeeAt(Rate, Weight(0, Len(params.recipients))) + FixedFee + fee
Breakdown(s, fee, rest) ==
    \/ /\ Fee = Asked(fee) + rest /\ Fee = SumOver(Amounts(s)) - Outgoing
       /\ rest < Dust + Select!FeeAt(Rate, OutWeight)
       /\ Len(built.tx.outs) = Len(params.recipients)
    \/ /\ Fee = Asked(fee) + Select!FeeAt(Rate, OutWeight)
       /\ Len(built.tx.outs) = Len(params.recipients) + 1

LEMMA FeeBreakdown ==
    ASSUME Dust > 0, Inv, IsBuilt, NEW s, Made(s)
    PROVE  /\ Rate \in Nat /\ FixedFee \in Nat /\ Outgoing \in Nat /\ SumOver(Amounts(s)) \in Nat
           /\ Len(built.tx.ins) = Len(s) /\ Len(s) \in Nat /\ Len(params.recipients) \in Nat
           /\ \E fee \in CoinFees(Len(s)), rest \in Nat : Breakdown(s, fee, rest)
<1>0. TypeOK /\ params \in ParamsType /\ Chosen(s) /\ Balanced(s, built.tx.outs) /\ s \in Seq(Utxos)
    BY DEF Inv, TypeOK, Made, Chosen
<1>1. /\ Rate \in Nat /\ FixedFee \in Nat /\ Outgoing \in Nat
      /\ Target = Outgoing + FixedFee + Select!FeeAt(Rate, Weight(0, Len(params.recipients)))
    BY <1>0, TargetIs
<1>2. PICK fee \in CoinFees(Len(s)) : Settled(Rest(s, fee), built.tx.outs)
    BY <1>0 DEF Balanced
<1> DEFINE n == Len(params.recipients)
           l == Len(s)
           rest == Rest(s, fee)
           C == Change(rest)
           W == SumOver(Amounts(s))
           a == Select!FeeAt(Rate, Weight(0, n))
           d == Select!FeeAt(Rate, OutWeight)
<1>3. n \in Nat /\ l \in Nat /\ W \in Nat /\ OutWeight \in Nat /\ Dust \in Nat
    <2>1. params.recipients \in Seq(OutputData)
        BY <1>0 DEF ParamsType
    <2>2. \A u \in Utxos : u.value \in Nat
        BY DEF Utxos
    <2>3. W \in Nat
        BY <1>0, <2>2, AmountsAdd
    <2> QED BY <1>0, <2>1, <2>3, SpendingAssumption
<1>4. a \in Nat /\ d \in Nat /\ fee \in Nat
    <2>1. Weight(0, n) \in Nat
        BY <1>3, WeightPositive
    <2> QED BY <1>1, <1>3, <2>1, FeeAtIs, CoinFeesBound
<1>5. /\ InValue = W
      /\ OutValue = Outgoing + (IF C = Unset THEN 0 ELSE C)
      /\ Len(built.tx.outs) = n + (IF C = Unset THEN 0 ELSE 1)
      /\ rest \in Nat
    <2>1. OutValue = SumOver(Amounts(built.tx.outs))
        BY DEF OutValue, SumOf, SumOver, Amounts
    <2> QED BY <1>2, <2>1, InputsWorth DEF Settled
<1>6. Len(built.tx.ins) = l
    <2>1. built.tx.ins = [i \in DOMAIN s |-> TxIn(s[i])]
        BY DEF Made
    <2>2. built.tx.ins = [i \in 1..Len(s) |-> TxIn(s[i])]
        BY <1>0, <2>1
    <2> QED BY <1>3, <2>2
<1>7. rest = W - (Outgoing + FixedFee + a) - fee
    BY <1>1 DEF Rest
<1>8. /\ C = Unset \/ C \in Nat
      /\ C = Unset => rest < d + Dust
      /\ C # Unset => C = rest - d
    BY <1>1, <1>5, ChangeIs
<1>9. Fee = InValue - OutValue /\ Asked(fee) = a + FixedFee + fee
    BY DEF Fee, Asked
<1> HIDE DEF n, l, rest, C, W, a, d
<1>10. Breakdown(s, fee, rest)
    <2>1. CASE C = Unset
        <3>1. OutValue = Outgoing /\ Len(built.tx.outs) = n
            BY <1>1, <1>3, <1>5, <2>1
        <3>2. Fee = Asked(fee) + rest /\ Fee = W - Outgoing /\ rest < Dust + d
            BY <1>1, <1>3, <1>4, <1>5, <1>7, <1>8, <1>9, <2>1, <3>1
        <3> QED BY <1>5, <3>1, <3>2 DEF Breakdown, n, W, d
    <2>2. CASE C # Unset
        <3>1. OutValue = Outgoing + C /\ Len(built.tx.outs) = n + 1 /\ C = rest - d
            BY <1>5, <1>8, <2>2
        <3>2. Fee = Asked(fee) + d
            BY <1>1, <1>3, <1>4, <1>5, <1>7, <1>9, <3>1
        <3> QED BY <1>5, <3>1, <3>2 DEF Breakdown, n, d
    <2> QED BY <2>1, <2>2
<1> QED BY <1>1, <1>2, <1>3, <1>5, <1>6, <1>10 DEF n, l, W

\* The weight of the whole against that of its parts: the fees for the parts differ
\* from that for the whole by what was not weighed and by the rounding of each.
LEMMA WholeAndParts ==
    ASSUME Rate \in Nat, NEW n \in Nat, NEW l \in Nat, NEW k \in {0, 1}, NEW fee \in CoinFees(l)
    PROVE  LET u == CountWeight(l) + CountWeight(n + k) - CountWeight(n)
               f == Select!FeeAt(Rate, Weight(0, n)) + fee + k * Select!FeeAt(Rate, OutWeight)
               whole == Select!FeeAt(Rate, Weight(l, n + k))
           IN  /\ f \in Nat /\ whole \in Nat /\ Select!FeeAt(Rate, u) \in Nat
               /\ f + Select!FeeAt(Rate, u) >= whole
               /\ f <= whole + 1 + l + k * Select!FeeAt(Rate, OutWeight)
<1> DEFINE u == CountWeight(l) + CountWeight(n + k) - CountWeight(n)
           w0 == Weight(0, n)
           li == l * InWeight
           o == k * OutWeight
           P == Select!FeeAt(Rate, w0)
           Q == Select!FeeAt(Rate, li)
           S == Select!FeeAt(Rate, OutWeight)
           So == Select!FeeAt(Rate, o)
           X == Select!FeeAt(Rate, u)
           T == Select!FeeAt(Rate, Weight(l, n + k))
<1>1. n + k \in Nat /\ n <= n + k /\ k \in Nat /\ 0 \in Nat
    OBVIOUS
<1>2. u \in Nat
    <2>1. CountWeight(l) \in Nat /\ CountWeight(n) \in Nat /\ CountWeight(n + k) \in Nat
        BY <1>1, WeightPositive
    <2>2. CountWeight(n) <= CountWeight(n + k)
        BY <1>1, CountsGrow
    <2> QED BY <2>1, <2>2
<1>3. /\ w0 \in Nat /\ li \in Nat /\ o \in Nat /\ OutWeight \in Nat
      /\ Weight(l, n + k) = ((w0 + li) + o) + u
    <2>1. /\ BaseWeight \in Nat /\ InWeight \in Nat /\ OutWeight \in Nat
        BY SpendingAssumption
    <2>2. /\ w0 \in Nat
          /\ w0 = BaseWeight + 0 * InWeight + n * OutWeight + CountWeight(0) + CountWeight(n)
          /\ Weight(l, n + k) = BaseWeight + l * InWeight + (n + k) * OutWeight + CountWeight(l) + CountWeight(n + k)
          /\ CountWeight(l) \in Nat /\ CountWeight(n) \in Nat /\ CountWeight(n + k) \in Nat
        BY <1>1, WeightPositive
    <2>3. 0 * InWeight = 0 /\ CountWeight(0) = 0
        BY <2>1, CountsGrow
    <2>4. (n + k) * OutWeight = n * OutWeight + k * OutWeight /\ n * OutWeight \in Nat /\ o \in Nat /\ li \in Nat
        BY <1>1, <2>1
    <2> DEFINE no == n * OutWeight
    <2>5. no \in Nat /\ w0 = BaseWeight + no + CountWeight(n)
          /\ Weight(l, n + k) = BaseWeight + li + (no + o) + CountWeight(l) + CountWeight(n + k)
        BY <2>1, <2>2, <2>3, <2>4
    <2> HIDE DEF no, w0, li, o
    <2>6. Weight(l, n + k) = ((w0 + li) + o) + u
        BY <2>1, <2>2, <2>4, <2>5
    <2> QED BY <2>1, <2>2, <2>4, <2>6
<1> HIDE DEF u, w0, li, o
<1>4. /\ P \in Nat /\ Q \in Nat /\ S \in Nat /\ So \in Nat /\ X \in Nat
      /\ fee \in Nat /\ fee >= Q /\ fee <= Q + l
    <2>1. fee \in Nat /\ fee >= Q /\ fee <= Q + l
        BY CoinFeesBound DEF li
    <2> QED BY <1>2, <1>3, <2>1, FeeAtIs
<1>5. So = k * S
    <2>1. CASE k = 0
        <3>1. o = 0 /\ k * S = 0
            BY <1>3, <1>4, <2>1 DEF o
        <3>2. 0 \in Nat /\ 0 * FeeUnit >= Rate * 0
            BY FeeUnitAssumption
        <3>3. 0 >= Select!FeeAt(Rate, 0)
            BY <3>2, FeeAtBounds
        <3> QED BY <1>4, <3>1, <3>3
    <2>2. CASE k = 1
        BY <1>3, <1>4, <2>2 DEF o
    <2> QED BY <2>1, <2>2
<1> DEFINE A == Select!FeeAt(Rate, w0 + li)
           B == Select!FeeAt(Rate, (w0 + li) + o)
<1>6. w0 + li \in Nat /\ (w0 + li) + o \in Nat /\ ((w0 + li) + o) + u \in Nat
    BY <1>2, <1>3
<1>7. A \in Nat /\ B \in Nat /\ T \in Nat
    BY <1>3, <1>6, FeeAtIs
<1>8. A <= P + Q /\ P + Q <= A + 1 /\ A <= B /\ B <= A + So /\ B <= T /\ T <= B + X
    BY <1>2, <1>3, <1>6, FeeInParts
<1> HIDE DEF P, Q, S, So, X, T, A, B
<1>9. k * S \in Nat
    BY <1>1, <1>4
<1> DEFINE kS == k * S
<1>10. /\ P + fee + kS \in Nat /\ P + fee + kS + X >= T /\ P + fee + kS <= T + 1 + l + kS
    <2> HIDE DEF kS
    <2>1. kS \in Nat /\ So = kS
        BY <1>5, <1>9 DEF kS
    <2> QED BY <1>4, <1>7, <1>8, <2>1
<1> QED BY <1>4, <1>7, <1>10 DEF P, S, X, T, u, w0

\* The fee is what was asked for.
LEMMA FeeAsAskedHolds ==
    ASSUME Dust > 0, Inv
    PROVE  FeeAsAsked
<1> SUFFICES ASSUME IsBuilt PROVE FeeAsAsked
    BY DEF FeeAsAsked
<1>0. TypeOK /\ BumpSound /\ GraphSound /\ ~FeeRefused /\ params \in ParamsType
    BY DEF Inv, IsBuilt, TypeOK, BuiltSound, Refused
<1>1. PICK s : Made(s)
    BY DEF Inv, IsBuilt, BuiltSound, Made
<1> DEFINE n == Len(params.recipients)
           l == Len(s)
           lo == Len(built.tx.outs)
           W == SumOver(Amounts(s))
           v == WeightOf(built.tx)
           T == Select!FeeAt(Rate, v)
           S == Select!FeeAt(Rate, OutWeight)
           X == Select!FeeAt(Rate, Unweighed)
<1>2. /\ Rate \in Nat /\ FixedFee \in Nat /\ Outgoing \in Nat /\ W \in Nat
      /\ Len(built.tx.ins) = l /\ l \in Nat /\ n \in Nat
      /\ \E fee \in CoinFees(l), rest \in Nat : Breakdown(s, fee, rest)
    BY <1>1, FeeBreakdown
<1>3. PICK fee \in CoinFees(l), rest \in Nat : Breakdown(s, fee, rest)
    BY <1>2
<1>4. Dust \in Nat /\ OutWeight \in Nat /\ InWeight \in Nat /\ S \in Nat /\ rest \in Nat
    <2>1. Dust \in Nat /\ OutWeight \in Nat /\ InWeight \in Nat
        BY SpendingAssumption
    <2> QED BY <1>2, <1>3, <2>1, FeeAtIs DEF Breakdown
<1> DEFINE P == Select!FeeAt(Rate, Weight(0, n))
           kept == Fee = P + FixedFee + fee + rest /\ Fee = W - Outgoing /\ rest < Dust + S /\ lo = n
           changed == Fee = P + FixedFee + fee + S /\ lo = n + 1
<1>5. kept \/ changed
    BY <1>3 DEF Breakdown, Asked
<1>6. \A k \in {0, 1} : lo = n + k =>
        /\ P + fee + k * S \in Nat /\ T \in Nat /\ X \in Nat
        /\ P + fee + k * S + X >= T
        /\ P + fee + k * S <= T + 1 + l + k * S
    <2> TAKE k \in {0, 1}
    <2> HAVE lo = n + k
    <2>1. v = Weight(l, n + k) /\ Unweighed = CountWeight(l) + CountWeight(n + k) - CountWeight(n)
        BY <1>2 DEF WeightOf, Unweighed, Inputs
    <2> QED BY <1>2, <1>3, <2>1, WholeAndParts
<1> HIDE DEF P, S, T, X, W, n, l, lo, v
<1>7. /\ T \in Nat /\ X \in Nat /\ Fee \in Int
      /\ Fee + X >= T + FixedFee
      /\ Fee < T + FixedFee + Dust + S + l + 1
    <2>1. CASE kept
        <3>1. lo = n + 0 /\ 0 * S = 0 /\ 0 \in {0, 1}
            BY <1>2, <1>4, <2>1
        <3>2. /\ P + fee + 0 \in Nat /\ T \in Nat /\ X \in Nat
              /\ P + fee + 0 + X >= T /\ P + fee + 0 <= T + 1 + l + 0
            BY <1>6, <3>1
        <3>3. Fee = P + FixedFee + fee + rest /\ rest < Dust + S
            BY <2>1
        <3>4. P \in Nat /\ fee \in Nat
            <4>1. Weight(0, n) \in Nat
                BY <1>2, WeightPositive
            <4> QED BY <1>2, <1>3, <4>1, FeeAtIs, CoinFeesBound DEF P
        <3> QED BY <1>2, <1>4, <3>2, <3>3, <3>4
    <2>2. CASE changed
        <3>1. lo = n + 1 /\ 1 * S = S /\ 1 \in {0, 1}
            BY <1>2, <1>4, <2>2
        <3>2. /\ P + fee + S \in Nat /\ T \in Nat /\ X \in Nat
              /\ P + fee + S + X >= T /\ P + fee + S <= T + 1 + l + S
            BY <1>6, <3>1
        <3>3. Fee = P + FixedFee + fee + S
            BY <2>2
        <3>4. P \in Nat /\ fee \in Nat
            <4>1. Weight(0, n) \in Nat
                BY <1>2, WeightPositive
            <4> QED BY <1>2, <1>3, <4>1, FeeAtIs, CoinFeesBound DEF P
        <3> QED BY <1>2, <1>4, <3>2, <3>3, <3>4
    <2> QED BY <1>5, <2>1, <2>2
<1>8. ASSUME original # 0, params.recipients = DropChange(txs[original].outs)
      PROVE  Fee + X >= calculate_fee(txs[original])
    <2> DEFINE tx == txs[original]
               F == calculate_fee(tx)
               w == WeightOf(tx)
    <2>1. /\ original \in DOMAIN txs /\ FeeKnown(tx)
          /\ params.bumping_fee = [absolute |-> F, rate |-> (F * FeeUnit) \div w]
          /\ params.bumping_fee.absolute >= 0
        BY <1>0, <1>8, CanonicalConsistent DEF BumpSound, Consistent
    <2>2. tx \in Transactions
        BY <1>0, <2>1 DEF GraphSound
    <2>3. tx.ins \in Seq(InputData) /\ tx.outs \in Seq(OutputData)
        BY <2>2 DEF Transactions
    <2>4. /\ F = SumOver(ValuesOf(tx.ins)) - SumOver(Amounts(tx.outs))
          /\ SumOver(ValuesOf(tx.ins)) \in Int /\ SumOver(Amounts(tx.outs)) \in Nat /\ F \in Int
        BY <1>0, <2>1, <2>2, FeeIs
    <2> DEFINE oi == Len(tx.ins)
               oo == Len(tx.outs)
    <2>5. oi \in Nat /\ oo \in Nat /\ w = Weight(oi, oo)
        BY <2>3 DEF WeightOf
    <2>6. oi <= l /\ SumOver(ValuesOf(tx.ins)) <= W
        BY <1>1, <1>8, OriginalPart DEF W, l
    <2>7. Outgoing <= SumOver(Amounts(tx.outs)) /\ n + 1 >= oo
        <3>1. Outgoing = SumOver(Amounts(params.recipients))
            BY <1>0, TargetIs
        <3> QED BY <1>8, <2>3, <3>1, KeptPaysLess DEF n
    <2> HIDE DEF F, w
    <2> HIDE DEF oi, oo
    <2>8. w \in Nat \ {0} /\ FeeUnit \in Nat /\ FeeUnit > 0
        <3>1. Weight(oi, oo) \in Nat \ {0}
            BY <2>5, WeightPositive
        <3> QED BY <2>5, <3>1, FeeUnitAssumption
    <2>9. /\ F \in Nat /\ F * FeeUnit \in Nat /\ (F * FeeUnit) \div w \in Nat
          /\ params.bumping_fee.absolute = F /\ params.bumping_fee.rate = (F * FeeUnit) \div w
        <3>1. params.bumping_fee.absolute = F /\ params.bumping_fee.rate = (F * FeeUnit) \div w
            BY <2>1
        <3>2. F \in Nat
            BY <2>1, <2>4, <3>1
        <3>3. F * FeeUnit \in Nat
            BY <2>8, <3>2
        <3> QED BY <2>8, <3>1, <3>2, <3>3
    <2>10. CASE kept
        <3> DEFINE x == SumOver(ValuesOf(tx.ins))
                   y == SumOver(Amounts(tx.outs))
        <3>1. F = x - y /\ x \in Int /\ y \in Nat /\ x <= W /\ Outgoing <= y
            BY <2>4, <2>6, <2>7
        <3>2. Fee = W - Outgoing
            BY <2>10
        <3> HIDE DEF x, y, tx
        <3>3. Fee + X >= F
            BY <1>2, <1>7, <3>1, <3>2
        <3> QED BY <3>3 DEF F, tx
    <2>11. CASE params.fee.policy = "amount"
        <3>1. params.fee.n >= F /\ FixedFee = params.fee.n
            <4>1. params.bumping_fee.absolute # Unset
                BY <2>9 DEF Unset
            <4>2. ~(params.fee.n < F)
                BY <1>0, <2>9, <2>11, <4>1 DEF FeeRefused
            <4>3. params.fee.n \in Nat
                BY <1>0 DEF ParamsType
            <4> QED BY <2>9, <2>11, <4>2, <4>3 DEF FixedFee
        <3>2. Fee + X >= F
            BY <1>2, <1>7, <2>9, <3>1
        <3> QED BY <3>2 DEF F
    <2>12. CASE changed /\ params.fee.policy # "amount"
        <3>1. Rate >= (F * FeeUnit) \div w + 1
            <4> DEFINE d == (F * FeeUnit) \div w
            <4>1. params.bumping_fee.absolute # Unset
                BY <2>9 DEF Unset
            <4>2. d \in Nat /\ params.bumping_fee.rate = d
                BY <2>9
            <4> HIDE DEF d
            <4>3. ~(params.fee.n < d + 1)
                BY <1>0, <2>12, <4>1, <4>2 DEF FeeRefused
            <4>4. params.fee.n \in Nat /\ params.fee.policy \in {"rate", "amount"}
                BY <1>0 DEF ParamsType
            <4>5. Rate = params.fee.n
                BY <2>12, <4>4 DEF Rate
            <4>6. Rate >= d + 1
                BY <4>2, <4>3, <4>4, <4>5
            <4> QED BY <4>6 DEF d
        <3>2. v \in Nat /\ v >= w
            <4>1. lo \in Nat /\ oo <= lo /\ v = Weight(l, lo)
                BY <1>2, <2>5, <2>7, <2>12 DEF v, WeightOf, lo, l
            <4> HIDE DEF oi, oo
            <4>2. /\ v = BaseWeight + l * InWeight + lo * OutWeight + CountWeight(l) + CountWeight(lo)
                  /\ w = BaseWeight + oi * InWeight + oo * OutWeight + CountWeight(oi) + CountWeight(oo)
                  /\ v \in Nat /\ BaseWeight \in Nat
                  /\ CountWeight(l) \in Nat /\ CountWeight(lo) \in Nat
                  /\ CountWeight(oi) \in Nat /\ CountWeight(oo) \in Nat
                BY <1>2, <2>5, <4>1, WeightPositive, SpendingAssumption
            <4>3. CountWeight(oi) <= CountWeight(l) /\ CountWeight(oo) <= CountWeight(lo)
                BY <1>2, <2>5, <2>6, <4>1, CountsGrow
            <4>4. oi * InWeight <= l * InWeight /\ oo * OutWeight <= lo * OutWeight
                BY <1>2, <1>4, <2>5, <2>6, <4>1
            <4>5. oi * InWeight \in Nat /\ l * InWeight \in Nat /\ oo * OutWeight \in Nat /\ lo * OutWeight \in Nat
                BY <1>2, <1>4, <2>5, <4>1
            <4> QED BY <4>2, <4>3, <4>4, <4>5
        <3>3. Rate * v >= F * FeeUnit
            <4> DEFINE G == F * FeeUnit
            <4>1. G \in Nat /\ Rate >= G \div w + 1
                BY <2>9, <3>1
            <4> HIDE DEF G
            <4>2. Rate * v >= G
                BY <1>2, <2>8, <3>2, <4>1, HigherRatePays
            <4> QED BY <4>2 DEF G
        <3>4. T * FeeUnit >= Rate * v /\ Rate * v \in Nat /\ T * FeeUnit \in Nat
            <4>1. T * FeeUnit >= Rate * v
                BY <1>2, <3>2, FeeAtIs DEF T
            <4> QED BY <1>2, <1>7, <2>8, <3>2, <4>1
        <3>5. T * FeeUnit >= F * FeeUnit
            BY <2>9, <3>3, <3>4
        <3>6. \A a, b \in Nat : a < b => a * FeeUnit < b * FeeUnit
            BY <2>8
        <3>7. ~(T < F)
            BY <1>7, <2>9, <3>4, <3>5, <3>6
        <3>8. Fee + X >= F
            BY <1>2, <1>7, <2>9, <3>7
        <3> QED BY <3>8 DEF F
    <2> QED BY <1>5, <2>10, <2>11, <2>12
<1>9. Len(Inputs) = l /\ WeightOf(built.tx) = v
    BY <1>2 DEF Inputs, v
<1> QED BY <1>7, <1>8, <1>9 DEF FeeAsAsked, T, S, X, v

\* For every transaction the builder makes, whatever the weights, rates and limits,
\* the fee is the rate for its weight, or the amount, that create_tx was asked for,
\* short of it by no more than the rate for the part of the two counts that was not
\* weighed, and in excess by less than a change output would have cost and the
\* rounding of each part; a bump that leaves the recipients alone pays no less than
\* its original, but for that part.  (No script may have a dust limit of 0:
\* decide_change would add a change output of 0 that nobody pays for.)
THEOREM FeesAsAsked == Dust > 0 => (BuilderSpec => []FeeAsAsked)
<1> SUFFICES ASSUME Dust > 0 PROVE BuilderSpec => []FeeAsAsked
    OBVIOUS
<1>1. Inv => FeeAsAsked
    BY FeeAsAskedHolds
<1> QED BY <1>1, InvHolds, PTL
=============================================================================

--------------------------- MODULE CreatePsbt_proofs ---------------------------
(***************************************************************************)
(* Proofs about PsbtParams, create_psbt and replace_by_fee, for any graph, *)
(* any paths and any parameters (PsbtSpec).  The invariant says that the   *)
(* list and the set of outpoints of a request agree and name each coin     *)
(* once (ListSound), and that what a replacement lists are inputs of what  *)
(* it replaces (ReplaceSound), although the wallet moves on while the      *)
(* parameters are collected.  What holds of a draft follows in the step    *)
(* that makes it.                                                          *)
(***************************************************************************)
EXTENDS CreatePsbt, Spending_proofs

\* The entries of must_spend, and PsbtParams.
Items == [op : Outpoint, planned : BOOLEAN, value : Nat, sequence : SequenceValues \cup {None}]
Overrides == UNION {[D -> SequenceValues] : D \in SUBSET Outpoint}
Requests ==
    [replacing : BOOLEAN, set : SUBSET Outpoint, must_spend : Seq(Items), recipients : Seq(OutputData),
     change_script : BOOLEAN, assets : [after : TimeLocks \cup {None}, older : TimeLocks \cup {None}],
     fee_rate : Nat, coin_selection : {"SingleRandomDraw", "All"}, utxo_filter : {"any", "confirmed"},
     maturity_height : Nat \cup {-1}, manually_selected_only : BOOLEAN, version : Nat,
     min_locktime : TimeLocks, replace : SUBSET Nat, sequence_overrides : Overrides,
     fallback_sequence : SequenceValues \cup {None}]

\* Every outpoint is listed once, the set is that of the list, and planned inputs
\* are worth what the outputs they spend are, if these are known.
ItemSound(x) == x.op \in Nameable /\ (x.planned /\ Known(x.op) => x.value = TxOut(x.op).value)
ListSound(r) ==
    /\ Distinct(r.must_spend)
    /\ r.set = {r.must_spend[i].op : i \in DOMAIN r.must_spend}
    /\ \A i \in DOMAIN r.must_spend : ItemSound(r.must_spend[i])

\* A replacement lists, planned inputs aside, only inputs of what it replaces.
OfReplaced(r, x) == x.planned \/ \E t \in r.replace : x.op \in Spent(txs[t])
ReplaceSound(r) ==
    /\ r.replace \subseteq Held
    /\ r.replacing => \A i \in DOMAIN r.must_spend : OfReplaced(r, r.must_spend[i])
    /\ ~r.replacing => r.replace = {}

RequestSound(r) == r \in Requests /\ ListSound(r) /\ ReplaceSound(r)

\* What is promised of a draft.
DraftSound(d) ==
    /\ TxSound(d.tx, Len(txs) + 1) /\ d.tx.height = 0
    /\ SpendsOnce(d) /\ Conflicts(d) /\ Pays(d) /\ Minable(d)

PsbtInv ==
    /\ GraphSound /\ tip \in Nat /\ PathsSound
    /\ RequestSound(request)
    /\ drafted.done => DraftSound(drafted)

-----------------------------------------------------------------------------
(***************************************************************************)
(* The inputs of a draft.                                                  *)
(***************************************************************************)
Inputs == [op : Outpoint, value : Nat, sequence : SequenceValues \cup {None}, cond : Conditions]

\* The output an outpoint of the graph names.
LEMMA KnownOut ==
    ASSUME GraphSound, NEW op, Known(op)
    PROVE  TxOut(op) \in OutputData /\ TxOut(op).value \in Nat /\ op[1] \in DOMAIN txs /\ txs[op[1]] \in Transactions
<1>1. op[1] \in DOMAIN txs /\ txs[op[1]] \in Transactions /\ op[2] \in DOMAIN txs[op[1]].outs
    BY DEF Known, GraphSound
<1>2. txs[op[1]].outs \in Seq(OutputData)
    BY <1>1 DEF Transactions
<1>3. TxOut(op) \in OutputData
    BY <1>1, <1>2 DEF TxOut
<1>4. TxOut(op).value \in Nat
    BY <1>3 DEF OutputData
<1> QED BY <1>1, <1>3, <1>4

\* The wallet's outputs are outputs of the graph that pay one of its keychains.
LEMMA CoinsKnown ==
    ASSUME GraphSound, NEW op \in Coins
    PROVE  Ours(op) /\ Known(op) /\ TxOut(op).to \in {"External", "Internal"} /\ op[1] \in Canonical
<1>1. Ours(op) /\ op \in UNION {{t} \X DOMAIN txs[t].outs : t \in Canonical}
    BY DEF Coins, OutputsOf
<1> QED BY <1>1 DEF Ours

\* A plan is a path of the keychain, and the locks it demands are granted.
LEMMA PlanIs ==
    ASSUME PathsSound, GraphSound, NEW op, Ours(op)
    PROVE  /\ plan_input(op) \in Conditions
           /\ plan_input(op).ok =>
                /\ Grants(IF request.assets.after = None THEN Blocks(tip) ELSE request.assets.after, plan_input(op).timelock)
                /\ Grants(IF request.assets.older = None THEN Older(op) ELSE request.assets.older, plan_input(op).csv)
<1> DEFINE after == IF request.assets.after = None THEN Blocks(tip) ELSE request.assets.after
           older == IF request.assets.older = None THEN Older(op) ELSE request.assets.older
           own == paths[TxOut(op).to]
           open == {i \in DOMAIN own : Grants(after, own[i].timelock) /\ Grants(older, own[i].csv)}
<1>1. plan_input(op) = IF open = {} \/ op[1] \notin Held THEN Incompatible ELSE own[Min(open)]
    BY DEF plan_input
<1>2. own \in Seq({c \in Conditions : c.ok})
    BY DEF PathsSound, Ours
<1>3. DOMAIN own \subseteq Nat /\ \A i \in DOMAIN own : own[i] \in Conditions
    BY <1>2
<1>4. Incompatible \in Conditions /\ ~Incompatible.ok
    BY DEF Incompatible, Conditions
<1> HIDE DEF own, after, older
<1>5. CASE open = {} \/ op[1] \notin Held
    BY <1>1, <1>4, <1>5
<1>6. CASE ~(open = {} \/ op[1] \notin Held)
    <2>1. Min(open) \in open
        <3>1. open \in SUBSET Nat /\ open # {}
            BY <1>3, <1>6
        <3> HIDE DEF open
        <3> QED BY <3>1, MinOfNaturals
    <2> DEFINE k == Min(open)
    <2>2. k \in DOMAIN own /\ Grants(after, own[k].timelock) /\ Grants(older, own[k].csv)
        BY <2>1
    <2>3. plan_input(op) = own[k]
        BY <1>1, <1>6
    <2> HIDE DEF k, open
    <2> QED BY <1>3, <2>2, <2>3 DEF after, older
<1> QED BY <1>5, <1>6

\* An input of the wallet.
LEMMA WalletInputIs ==
    ASSUME PathsSound, GraphSound, request \in Requests, NEW op \in Outpoint, Ours(op)
    PROVE  /\ WalletInput(op) \in Inputs
           /\ WalletInput(op).op = op /\ WalletInput(op).value = TxOut(op).value
           /\ WalletInput(op).cond = plan_input(op)
           /\ WalletInput(op).sequence = Fallback(plan_input(op))
<1>1. plan_input(op) \in Conditions
    BY PlanIs
<1>2. TxOut(op).value \in Nat
    BY KnownOut DEF Ours
<1>3. request.fallback_sequence \in SequenceValues \cup {None}
    BY DEF Requests
<1>4. \A c \in Conditions : Fallback(c) \in SequenceValues \cup {None}
    BY <1>3 DEF Fallback, Conditions, SequenceValues
<1> QED BY <1>1, <1>2, <1>4 DEF WalletInput, Input, Inputs

\* When the inputs that must be spent can be: what the request and the wallet are.
Ready == GraphSound /\ PathsSound /\ tip \in Nat /\ RequestSound(request) /\ ~MustSpendFails

\* The input made of an entry of the list.
FromItem(u, x) ==
    /\ u.op = x.op
    /\ Known(x.op) => u.value = TxOut(x.op).value
    /\ ~Known(x.op) => x.planned /\ u.value = x.value
    /\ x.planned => u.cond = NoCondition
    /\ ~x.planned => /\ Ours(x.op) /\ u.cond = plan_input(x.op) /\ u.cond.ok
                     /\ x.op \notin DOMAIN request.sequence_overrides => u.sequence = Fallback(u.cond)
FromWallet(u, may) == u.op \in may /\ u = WalletInput(u.op)

\* Every entry of the list makes an input.
LEMMA ItemInput ==
    ASSUME Ready, NEW i \in DOMAIN request.must_spend
    PROVE  MustSpendInput(request.must_spend[i]) \in Inputs
           /\ FromItem(MustSpendInput(request.must_spend[i]), request.must_spend[i])
<1> DEFINE x == request.must_spend[i]
           u == MustSpendInput(x)
<1> SUFFICES u \in Inputs /\ FromItem(u, x)
    OBVIOUS
<1>1. x \in Items /\ ItemSound(x) /\ ~MustSpendRefused(x) /\ request \in Requests /\ GraphSound /\ PathsSound
    <2>1. request.must_spend \in Seq(Items)
        BY DEF Ready, RequestSound, Requests
    <2> QED BY <2>1 DEF Ready, RequestSound, ListSound, MustSpendFails
<1> HIDE DEF x
<1>2. x.op \in Outpoint /\ x.value \in Nat /\ x.planned \in BOOLEAN /\ x.sequence \in SequenceValues \cup {None}
    BY <1>1 DEF Items
<1>3. CASE x.planned
    <2>1. u = Input(x.op, x.value, x.sequence, NoCondition)
        BY <1>3 DEF MustSpendInput
    <2>2. NoCondition \in Conditions
        BY DEF NoCondition, Condition, Conditions
    <2>3. u \in Inputs /\ u.op = x.op /\ u.value = x.value /\ u.cond = NoCondition
        BY <1>2, <2>1, <2>2 DEF Input, Inputs
    <2> HIDE DEF u
    <2> QED BY <1>1, <1>3, <2>3, Zenon DEF FromItem, ItemSound
<1>4. CASE ~x.planned
    <2>1. x.op \in Coins /\ plan_input(x.op).ok
        BY <1>1, <1>4 DEF MustSpendRefused
    <2>2. Ours(x.op) /\ Known(x.op)
        BY <1>1, <2>1, CoinsKnown
    <2>3. /\ WalletInput(x.op) \in Inputs
          /\ WalletInput(x.op).op = x.op /\ WalletInput(x.op).value = TxOut(x.op).value
          /\ WalletInput(x.op).cond = plan_input(x.op)
          /\ WalletInput(x.op).sequence = Fallback(plan_input(x.op))
        BY <1>1, <1>2, <2>2, WalletInputIs
    <2> DEFINE w == WalletInput(x.op)
               o == request.sequence_overrides[x.op]
    <2>4. CASE Overridden(x.op)
        <3>1. u = [w EXCEPT !.sequence = o]
            BY <1>4, <2>4 DEF MustSpendInput
        <3>2. o \in SequenceValues
            <4>1. request.sequence_overrides \in Overrides
                BY <1>1 DEF Requests
            <4>2. PICK D \in SUBSET Outpoint : request.sequence_overrides \in [D -> SequenceValues]
                BY <4>1 DEF Overrides
            <4> QED BY <2>4, <4>2 DEF Overridden
        <3> HIDE DEF w, o
        <3>3. u \in Inputs /\ u.op = w.op /\ u.value = w.value /\ u.cond = w.cond
            <4>1. w \in Inputs
                BY <2>3 DEF w
            <4> QED BY <3>1, <3>2, <4>1 DEF Inputs
        <3>4. u.op = x.op /\ u.value = TxOut(x.op).value /\ u.cond = plan_input(x.op)
            BY <2>3, <3>3 DEF w
        <3>5. x.op \in DOMAIN request.sequence_overrides
            BY <2>4 DEF Overridden
        <3>6. u.cond.ok
            BY <2>1, <3>4
        <3> HIDE DEF u
        <3> QED BY <1>4, <2>2, <3>3, <3>4, <3>5, <3>6, Zenon DEF FromItem
    <2>5. CASE ~Overridden(x.op)
        <3>1. u = w
            BY <1>4, <2>5 DEF MustSpendInput
        <3>2. u.cond.ok
            BY <2>1, <2>3, <3>1
        <3> HIDE DEF u
        <3> QED BY <1>4, <2>2, <2>3, <3>1, <3>2, Zenon DEF FromItem
    <2> QED BY <2>4, <2>5
<1> QED BY <1>3, <1>4

\* The inputs of a draft: those of the list, and some of the candidates, each once.
Drawn(s, may) ==
    /\ s \in Seq(Inputs) /\ Distinct(s)
    /\ \A i \in DOMAIN s : \/ \E j \in DOMAIN request.must_spend : FromItem(s[i], request.must_spend[j])
                           \/ FromWallet(s[i], may)
    /\ \A j \in DOMAIN request.must_spend : \E i \in DOMAIN s : s[i].op = request.must_spend[j].op

\* Any of the candidates may be added to the list.
LEMMA DrawnList ==
    ASSUME Ready, NEW may, may \subseteq list_unspent \ request.set, NEW ops \in SUBSET may,
           NEW s, s = MustSpend \o WalletInputs(ops)
    PROVE  Drawn(s, may)
<1> DEFINE must == request.must_spend
           M == MustSpend
           q == SetToSeq(ops)
           W == WalletInputs(ops)
<1>0. request \in Requests /\ ListSound(request) /\ GraphSound /\ PathsSound
    BY DEF Ready, RequestSound
<1>1. must \in Seq(Items)
    BY <1>0 DEF Requests
<1>2. M = [i \in DOMAIN must |-> MustSpendInput(must[i])]
    BY DEF MustSpend
<1>3. \A i \in DOMAIN must : M[i] \in Inputs /\ FromItem(M[i], must[i])
    BY <1>2, ItemInput
<1> HIDE DEF M, must
<1>4. M \in Seq(Inputs) /\ DOMAIN M = DOMAIN must
    BY <1>1, <1>2, <1>3
<1>5. Distinct(M)
    <2>1. Distinct(must)
        BY <1>0 DEF ListSound, must
    <2>2. \A i \in DOMAIN M : M[i].op = must[i].op
        BY <1>3, <1>4 DEF FromItem
    <2> QED BY <1>4, <2>1, <2>2 DEF Distinct
<1>6. /\ IsFiniteSet(ops) /\ \A op \in ops : Ours(op) /\ op \in Outpoint /\ op \notin request.set /\ op \in may
    <2>1. IsFiniteSet(list_unspent) /\ \A op \in list_unspent : Ours(op) /\ op \in Nameable
        BY <1>0, Unspent
    <2>2. IsFiniteSet(ops)
        BY <2>1, FS_Subset
    <2> QED BY <2>1, <2>2 DEF Nameable
<1>7. q \in Seq(ops) /\ IsInjective(q) /\ ToSet(q) = ops
    BY <1>6, SetListed
<1>8. W = [i \in DOMAIN q |-> WalletInput(q[i])]
    BY DEF WalletInputs
<1> HIDE DEF q, W
<1>9. \A i \in DOMAIN q : q[i] \in ops
    BY <1>7
<1>10. \A i \in DOMAIN q : /\ W[i] \in Inputs /\ W[i].op = q[i] /\ FromWallet(W[i], may)
    <2> TAKE i \in DOMAIN q
    <2>1. W[i] = WalletInput(q[i]) /\ q[i] \in Outpoint /\ Ours(q[i]) /\ q[i] \in may
        BY <1>6, <1>8, <1>9
    <2>2. WalletInput(q[i]) \in Inputs /\ WalletInput(q[i]).op = q[i]
        BY <1>0, <2>1, WalletInputIs
    <2> QED BY <2>1, <2>2 DEF FromWallet
<1>11. W \in Seq(Inputs) /\ DOMAIN W = DOMAIN q
    BY <1>7, <1>8, <1>10
<1>12. Distinct(W)
    BY <1>7, <1>10, <1>11 DEF Distinct, IsInjective
<1>13. \A i \in DOMAIN M, j \in DOMAIN W : M[i].op # W[j].op
    <2>1. \A i \in DOMAIN M : M[i].op \in request.set
        <3>1. \A i \in DOMAIN M : M[i].op = must[i].op
            BY <1>3, <1>4 DEF FromItem
        <3> QED BY <1>0, <1>4, <3>1 DEF ListSound, must
    <2>2. \A j \in DOMAIN W : W[j].op \notin request.set
        BY <1>6, <1>9, <1>10, <1>11
    <2> QED BY <2>1, <2>2
<1>14. s = M \o W
    BY DEF M, W
<1>15. /\ s \in Seq(Inputs) /\ Distinct(s) /\ ToSet(s) = ToSet(M) \cup ToSet(W)
       /\ \A i \in DOMAIN s : \/ i \in DOMAIN M /\ s[i] = M[i]
                              \/ i - Len(M) \in DOMAIN W /\ s[i] = W[i - Len(M)]
    BY <1>4, <1>5, <1>11, <1>12, <1>13, <1>14, ListsJoin
<1>16. \A i \in DOMAIN s : (\E j \in DOMAIN must : FromItem(s[i], must[j])) \/ FromWallet(s[i], may)
    BY <1>3, <1>4, <1>10, <1>11, <1>15
<1>17. ASSUME NEW j \in DOMAIN must PROVE \E i \in DOMAIN s : s[i].op = must[j].op
    <2>1. M[j] \in ToSet(s) /\ M[j].op = must[j].op
        BY <1>3, <1>4, <1>15 DEF ToSet, FromItem
    <2> QED BY <2>1 DEF ToSet
<1> QED BY <1>15, <1>16, <1>17 DEF must, Drawn

-----------------------------------------------------------------------------
(***************************************************************************)
(* The draft.                                                              *)
(***************************************************************************)
\* Candidates are unspent, not locked, mature and planned.
Candidates(may) == \A op \in may : op \in filter_spendable /\ plan_input(op).ok
\* The outpoints, and the inputs, of a selection.
OpsIn(s) == {s[i].op : i \in DOMAIN s}
TxIns(s) == [i \in DOMAIN s |-> In(s[i].op, s[i].sequence)]
DraftOf(s, outs) == [done |-> TRUE, of |-> request, tx |-> Tx(request.version, LockTime(s), TxIns(s), outs)]

\* The fields of a draft.
IsDraft(d, s, outs) ==
    /\ d.of = request /\ d.tx = Tx(request.version, LockTime(s), TxIns(s), outs)
    /\ d.tx.ins = TxIns(s) /\ d.tx.outs = outs /\ d.tx.lock_time = LockTime(s) /\ d.tx.height = 0
    /\ DOMAIN d.tx.ins = DOMAIN s /\ Len(d.tx.ins) = Len(s)
    /\ \A i \in DOMAIN s : d.tx.ins[i].op = s[i].op /\ d.tx.ins[i].sequence = s[i].sequence
    /\ Spent(d.tx) = OpsIn(s)

\* What the fields of a draft are.
LEMMA DraftFields ==
    ASSUME NEW s \in Seq(Inputs), NEW outs, NEW d, d = DraftOf(s, outs)
    PROVE  IsDraft(d, s, outs)
<1>1. /\ d.of = request /\ d.tx = Tx(request.version, LockTime(s), TxIns(s), outs)
    BY DEF DraftOf
<1>2. /\ d.tx.ins = TxIns(s) /\ d.tx.outs = outs /\ d.tx.lock_time = LockTime(s) /\ d.tx.height = 0
    BY <1>1 DEF Tx
<1>3. DOMAIN TxIns(s) = DOMAIN s /\ Len(TxIns(s)) = Len(s)
      /\ \A i \in DOMAIN s : TxIns(s)[i].op = s[i].op /\ TxIns(s)[i].sequence = s[i].sequence
    BY DEF TxIns, In
<1>4. Spent(d.tx) = OpsIn(s)
    BY <1>2, <1>3 DEF Spent, OpsIn
<1> QED BY <1>1, <1>2, <1>3, <1>4 DEF IsDraft

\* No coin twice, and no stale one.
LEMMA DraftSpends ==
    ASSUME Ready, NEW may, Candidates(may), NEW s, Drawn(s, may), NEW outs, NEW d, IsDraft(d, s, outs)
    PROVE  SpendsOnce(d)
<1>1. s \in Seq(Inputs) /\ Distinct(s)
    BY DEF Drawn
<1>2. /\ d.of = request /\ DOMAIN d.tx.ins = DOMAIN s /\ Spent(d.tx) = OpsIn(s)
      /\ \A i \in DOMAIN s : d.tx.ins[i].op = s[i].op
    BY DEF IsDraft
<1>3. \A i, j \in DOMAIN d.tx.ins : d.tx.ins[i].op = d.tx.ins[j].op => i = j
    BY <1>1, <1>2 DEF Distinct
<1>4. ASSUME NEW i \in DOMAIN s, s[i].op \notin request.set PROVE s[i].op \in list_unspent \ locked
    <2>1. \A j \in DOMAIN request.must_spend : request.must_spend[j].op \in request.set
        BY DEF Ready, RequestSound, ListSound
    <2>2. FromWallet(s[i], may)
        BY <1>4, <2>1 DEF Drawn, FromItem
    <2> QED BY <2>2 DEF FromWallet, Candidates, filter_spendable
<1> QED BY <1>2, <1>3, <1>4 DEF SpendsOnce, OpsIn

\* The listed inputs are inputs of the draft.
LEMMA DraftLists ==
    ASSUME Ready, NEW may, NEW s, Drawn(s, may), NEW outs, NEW d, IsDraft(d, s, outs)
    PROVE  request.set \subseteq Spent(d.tx)
<1>1. Spent(d.tx) = OpsIn(s)
    BY DEF IsDraft
<1>2. request.set = {request.must_spend[i].op : i \in DOMAIN request.must_spend}
    BY DEF Ready, RequestSound, ListSound
<1>3. \A j \in DOMAIN request.must_spend : \E i \in DOMAIN s : s[i].op = request.must_spend[j].op
    BY DEF Drawn
<1> QED BY <1>1, <1>2, <1>3 DEF OpsIn

\* The draft conflicts with whatever has an input in the set.
LEMMA DraftConflicts ==
    ASSUME Ready, NEW may, NEW s, Drawn(s, may), NEW outs, NEW d, IsDraft(d, s, outs),
           \A t \in request.replace : Spent(txs[t]) \cap request.set # {}
    PROVE  Conflicts(d)
<1>1. d.of = request
    BY DEF IsDraft
<1>2. request.set \subseteq Spent(d.tx)
    BY DraftLists
<1> QED BY <1>1, <1>2 DEF Conflicts

-----------------------------------------------------------------------------
(***************************************************************************)
(* The lock time.                                                          *)
(***************************************************************************)
\* Finitely many numbers have a bound.
LEMMA NumbersBounded ==
    ASSUME NEW n \in Nat, NEW v \in [1..n -> Nat]
    PROVE  \E b \in Nat : \A i \in 1..n : v[i] <= b
<1>1. IsFiniteSet(1..n) /\ v \in [1..n -> Int] /\ \A i \in 1..n : v[i] >= 0
    BY FiniteUpTo
<1>2. SumOver(v) \in Int /\ SumOver(v) >= 0 /\ \A x \in 1..n : SumOver(v) = v[x] + SumOver([i \in (1..n) \ {x} |-> v[i]])
    BY <1>1, SumRemove, SumNonnegative
<1>3. ASSUME NEW x \in 1..n PROVE v[x] <= SumOver(v)
    <2> DEFINE D == (1..n) \ {x}
               w == [i \in D |-> v[i]]
    <2>1. IsFiniteSet(D)
        BY <1>1, FS_Subset
    <2>2. w \in [D -> Int] /\ \A i \in D : w[i] >= 0
        BY <1>1
    <2>3. SumOver(v) = v[x] + SumOver(w)
        BY <1>2
    <2> HIDE DEF w, D
    <2>4. SumOver(w) \in Int /\ SumOver(w) >= 0
        BY <2>1, <2>2, SumRemove, SumNonnegative
    <2> QED BY <1>1, <1>2, <2>3, <2>4
<1> QED BY <1>2, <1>3

\* The lock time is the latest one demanded.
LEMMA LockTimeIs ==
    ASSUME NEW s \in Seq(Inputs), request \in Requests
    PROVE  LockTime(s) \in TimeLocks /\ (LockTime(s) = Blocks(0) \/ LockTime(s) \in Demanded(s))
<1> DEFINE D == Demanded(s)
           v == [i \in 1..Len(s) |-> s[i].cond.timelock.n]
           N == {l.n : l \in D}
<1>1. \A i \in DOMAIN s : s[i].cond.timelock \in TimeLocks \cup {None}
    <2> TAKE i \in DOMAIN s
    <2>1. s[i] \in Inputs
        OBVIOUS
    <2>2. s[i].cond \in Conditions
        BY <2>1 DEF Inputs
    <2> QED BY <2>2 DEF Conditions
<1>2. request.min_locktime \in TimeLocks /\ Blocks(0) \in TimeLocks
    BY DEF Requests, Blocks, TimeLocks
<1>3. D \subseteq TimeLocks
    BY <1>1, <1>2 DEF Demanded, LockTimes
<1>4. v \in [1..Len(s) -> Nat]
    BY <1>1 DEF TimeLocks, None
<1>5. PICK b \in Nat : \A i \in 1..Len(s) : v[i] <= b
    <2>1. Len(s) \in Nat
        OBVIOUS
    <2> HIDE DEF v
    <2> QED BY <1>4, <2>1, NumbersBounded
<1>6. PICK c \in Nat : b <= c /\ request.min_locktime.n <= c /\ request.min_locktime.n \in Nat
    <2>1. request.min_locktime.n \in Nat
        BY <1>2 DEF TimeLocks
    <2> DEFINE m == request.min_locktime.n
               c == b + m
    <2>2. m \in Nat
        BY <2>1
    <2> HIDE DEF m
    <2>3. c \in Nat /\ b <= c /\ m <= c
        BY <2>2
    <2> QED BY <2>2, <2>3 DEF m
<1>7. \A l \in D : l.n \in 0..c
    <2> TAKE l \in D
    <2>1. CASE l = request.min_locktime
        BY <1>6, <2>1
    <2>2. CASE l # request.min_locktime
        <3>1. PICK i \in DOMAIN s : l = s[i].cond.timelock
            BY <2>2 DEF Demanded, LockTimes
        <3>2. i \in 1..Len(s) /\ v[i] = l.n
            BY <3>1
        <3>3. v[i] \in Nat /\ v[i] <= b
            BY <1>4, <1>5, <3>2
        <3> HIDE DEF v
        <3> QED BY <1>6, <3>2, <3>3
    <2> QED BY <2>1, <2>2
<1> HIDE DEF v
<1>8. CASE D = {}
    BY <1>2, <1>8 DEF LockTime
<1>9. CASE D # {}
    <2>1. N \in SUBSET (0..c) /\ N # {}
        BY <1>7, <1>9
    <2>2. Max(N) \in N /\ \A y \in N : Max(N) >= y
        <3> HIDE DEF N
        <3> QED BY <2>1, MaxOfNaturals
    <2>3. PICK l \in D : \A m \in D : m.n <= l.n
        BY <2>2
    <2>4. LockTime(s) = CHOOSE k \in D : \A m \in D : m.n <= k.n
        BY <1>9 DEF LockTime
    <2>5. LockTime(s) \in D
        BY <2>3, <2>4
    <2> QED BY <1>3, <2>5
<1> QED BY <1>8, <1>9

-----------------------------------------------------------------------------
(***************************************************************************)
(* A draft is a transaction, and it can be mined.                          *)
(***************************************************************************)
\* Every input of a draft is one the caller could name.
LEMMA DrawnNameable ==
    ASSUME Ready, NEW may, Candidates(may), NEW s, Drawn(s, may), NEW i \in DOMAIN s
    PROVE  s[i] \in Inputs /\ s[i].op \in Nameable
<1>1. s[i] \in Inputs
    BY DEF Drawn
<1>2. CASE FromWallet(s[i], may)
    <2>1. s[i].op \in list_unspent
        BY <1>2 DEF FromWallet, Candidates, filter_spendable
    <2> QED BY <1>1, <2>1, Unspent DEF Ready
<1>3. ASSUME NEW j \in DOMAIN request.must_spend, FromItem(s[i], request.must_spend[j])
      PROVE  s[i].op \in Nameable
    <2>1. ItemSound(request.must_spend[j])
        BY DEF Ready, RequestSound, ListSound
    <2> QED BY <1>3, <2>1 DEF FromItem, ItemSound
<1> QED BY <1>1, <1>2, <1>3 DEF Drawn

\* A draft is a transaction that may be seen next.
LEMMA DraftIsTx ==
    ASSUME Ready, NEW may, Candidates(may), NEW s, Drawn(s, may), NEW outs \in Seq(OutputData),
           NEW d, IsDraft(d, s, outs)
    PROVE  TxSound(d.tx, Len(txs) + 1) /\ d.tx.height = 0
<1> DEFINE ins == TxIns(s)
           n == Len(txs)
<1>0. request \in Requests /\ request.version \in Nat /\ s \in Seq(Inputs) /\ Distinct(s) /\ n \in Nat
    BY DEF Ready, RequestSound, Requests, Drawn, GraphSound
<1>1. LockTime(s) \in TimeLocks
    BY <1>0, LockTimeIs
<1>2. ins = [i \in DOMAIN s |-> In(s[i].op, s[i].sequence)] /\ DOMAIN ins = DOMAIN s
    BY DEF TxIns
<1>3. ASSUME NEW i \in DOMAIN s PROVE ins[i] \in InputData /\ ins[i].op = s[i].op /\ ins[i].op[1] < n + 1
    <2>1. s[i] \in Inputs /\ s[i].op \in Nameable
        BY DrawnNameable
    <2>2. ins[i] = In(s[i].op, s[i].sequence)
        BY <1>2
    <2> HIDE DEF ins
    <2>3. ins[i] \in InputData /\ ins[i].op = s[i].op
        BY <2>1, <2>2 DEF In, InputData, Inputs
    <2>4. s[i].op[1] < n + 1
        BY <1>0, <2>1 DEF Nameable
    <2> QED BY <2>3, <2>4
<1> HIDE DEF ins
<1>4. ins \in Seq(InputData)
    BY <1>0, <1>2, <1>3
<1>5. d.tx = Tx(request.version, LockTime(s), ins, outs)
    BY DEF IsDraft, ins
<1> HIDE DEF n
<1>6. d.tx \in Transactions /\ d.tx.ins = ins /\ d.tx.floating = FALSE /\ d.tx.height = 0
    BY <1>0, <1>1, <1>4, <1>5 DEF Tx, Transactions
<1>7. \A i \in DOMAIN ins : ins[i].op[1] < n + 1
    BY <1>2, <1>3
<1>8. \A i, j \in DOMAIN ins : ins[i].op = ins[j].op => i = j
    BY <1>0, <1>2, <1>3 DEF Distinct
<1>9. d.tx.floating => d.tx.ins = <<>>
    BY <1>6
<1> QED BY <1>6, <1>7, <1>8, <1>9 DEF TxSound, n

\* An input the wallet planned demands what the chain grants.
LEMMA PlannedByWallet ==
    ASSUME Ready, NEW may, Candidates(may), NEW s, Drawn(s, may), NEW i \in DOMAIN s
    PROVE  \/ \E j \in DOMAIN request.must_spend :
                request.must_spend[j].planned /\ request.must_spend[j].op = s[i].op /\ s[i].cond = NoCondition
           \/ /\ Ours(s[i].op) /\ s[i].cond = plan_input(s[i].op) /\ plan_input(s[i].op).ok
              /\ s[i].op \notin DOMAIN request.sequence_overrides => s[i].sequence = Fallback(s[i].cond)
              /\ s[i].op \notin request.set => IsMature(s[i].op, MaturityHeight)
<1>1. s[i] \in Inputs /\ request \in Requests /\ GraphSound /\ PathsSound
    BY DEF Drawn, Ready, RequestSound
<1>2. CASE FromWallet(s[i], may)
    <2>1. s[i].op \in list_unspent /\ IsMature(s[i].op, MaturityHeight) /\ plan_input(s[i].op).ok /\ s[i] = WalletInput(s[i].op)
        BY <1>2 DEF FromWallet, Candidates, filter_spendable
    <2>2. Ours(s[i].op) /\ s[i].op \in Outpoint
        BY <1>1, <2>1, Unspent DEF Nameable
    <2>3. /\ WalletInput(s[i].op).cond = plan_input(s[i].op)
          /\ WalletInput(s[i].op).sequence = Fallback(plan_input(s[i].op))
        BY <1>1, <2>2, WalletInputIs
    <2> QED BY <2>1, <2>2, <2>3
<1>3. ASSUME NEW j \in DOMAIN request.must_spend, FromItem(s[i], request.must_spend[j]), request.must_spend[j].planned
      PROVE  request.must_spend[j].op = s[i].op /\ s[i].cond = NoCondition
    BY <1>3 DEF FromItem
<1>4. ASSUME NEW j \in DOMAIN request.must_spend, FromItem(s[i], request.must_spend[j]), ~request.must_spend[j].planned
      PROVE  /\ Ours(s[i].op) /\ s[i].cond = plan_input(s[i].op) /\ plan_input(s[i].op).ok
             /\ s[i].op \notin DOMAIN request.sequence_overrides => s[i].sequence = Fallback(s[i].cond)
             /\ s[i].op \in request.set
    <2>1. s[i].op \in request.set
        BY <1>4 DEF FromItem, Ready, RequestSound, ListSound
    <2> QED BY <1>4, <2>1 DEF FromItem
<1> QED BY <1>2, <1>3, <1>4 DEF Drawn

\* Planned with the locks the chain grants, a draft can be mined in the next block.
LEMMA DraftMinable ==
    ASSUME Ready, NEW may, Candidates(may), NEW s, Drawn(s, may), NEW outs, NEW d, IsDraft(d, s, outs)
    PROVE  Minable(d)
<1> DEFINE r == request
           planned == {r.must_spend[i].op : i \in {j \in DOMAIN r.must_spend : r.must_spend[j].planned}}
<1>0. d.of = r /\ d.tx.lock_time = LockTime(s) /\ DOMAIN d.tx.ins = DOMAIN s /\ tip \in Nat
      /\ \A i \in DOMAIN s : d.tx.ins[i].op = s[i].op /\ d.tx.ins[i].sequence = s[i].sequence
    BY DEF IsDraft, Ready
<1>1. s \in Seq(Inputs) /\ request \in Requests /\ GraphSound /\ PathsSound
    BY DEF Drawn, Ready, RequestSound
<1>2. SUFFICES ASSUME r.assets = [after |-> None, older |-> None], r.min_locktime = Blocks(0), r.maturity_height = -1,
                      ~IsLock(r.fallback_sequence)
               PROVE  /\ LockTime(s).unit = "blocks" /\ LockTime(s).n <= tip
                      /\ \A i \in DOMAIN s :
                           LET mined == IF Confirmed(s[i].op[1]) THEN txs[s[i].op[1]].height ELSE tip + 1
                           IN  Ours(s[i].op) /\ s[i].op \notin DOMAIN r.sequence_overrides \cup planned =>
                                 /\ s[i].sequence.unit = "blocks" => mined + s[i].sequence.n <= tip + 1
                                 /\ txs[s[i].op[1]].coinbase /\ s[i].op \notin r.set =>
                                      txs[s[i].op[1]].height + Maturity <= tip + 1
    BY <1>0 DEF Minable
<1>3. r.assets.after = None /\ r.assets.older = None /\ MaturityHeight = tip
    BY <1>2 DEF MaturityHeight
<1>4. ASSUME NEW op, Ours(op), plan_input(op).ok
      PROVE  /\ plan_input(op) \in Conditions
             /\ Grants(Blocks(tip), plan_input(op).timelock) /\ Grants(Blocks(Age(op)), plan_input(op).csv)
    <2>1. /\ plan_input(op) \in Conditions
          /\ Grants(IF r.assets.after = None THEN Blocks(tip) ELSE r.assets.after, plan_input(op).timelock)
          /\ Grants(IF r.assets.older = None THEN Older(op) ELSE r.assets.older, plan_input(op).csv)
        BY <1>1, <1>4, PlanIs
    <2> QED BY <1>3, <2>1 DEF Older
<1>5. LockTime(s).unit = "blocks" /\ LockTime(s).n <= tip
    <2>1. CASE LockTime(s) = Blocks(0)
        BY <1>0, <2>1 DEF Blocks
    <2>2. CASE LockTime(s) # Blocks(0)
        <3>1. LockTime(s) \in Demanded(s)
            BY <1>1, <2>2, LockTimeIs
        <3>2. PICK i \in DOMAIN s : LockTime(s) = s[i].cond.timelock /\ s[i].cond.timelock # None
            BY <1>2, <2>2, <3>1 DEF Demanded, LockTimes
        <3>3. s[i].cond # NoCondition
            BY <3>2 DEF NoCondition, Condition
        <3>4. Ours(s[i].op) /\ s[i].cond = plan_input(s[i].op) /\ plan_input(s[i].op).ok
            BY <3>3, PlannedByWallet
        <3>5. Grants(Blocks(tip), s[i].cond.timelock)
            BY <1>4, <3>4
        <3> QED BY <3>2, <3>5 DEF Grants, SameUnit, Blocks
    <2> QED BY <2>1, <2>2
<1>6. ASSUME NEW i \in DOMAIN s, Ours(s[i].op), s[i].op \notin DOMAIN r.sequence_overrides \cup planned
      PROVE  /\ s[i].sequence.unit = "blocks" =>
                  (IF Confirmed(s[i].op[1]) THEN txs[s[i].op[1]].height ELSE tip + 1) + s[i].sequence.n <= tip + 1
             /\ txs[s[i].op[1]].coinbase /\ s[i].op \notin r.set =>
                  txs[s[i].op[1]].height + Maturity <= tip + 1
    <2> DEFINE op == s[i].op
               h == txs[op[1]].height
               c == plan_input(op)
    <2>1. /\ s[i].cond = c /\ c.ok /\ s[i].sequence = Fallback(c)
          /\ op \notin r.set => IsMature(op, tip)
        BY <1>3, <1>6, PlannedByWallet
    <2>2. c \in Conditions /\ Grants(Blocks(Age(op)), c.csv)
        BY <1>4, <1>6, <2>1
    <2>3. op[1] \in DOMAIN txs /\ txs[op[1]] \in Transactions
        BY <1>1, <1>6, KnownOut DEF Ours
    <2>4. h \in Nat /\ Maturity \in Nat
        BY <2>3, SpendingAssumption DEF Transactions
    <2>5. txs[op[1]].coinbase /\ op \notin r.set => h + Maturity <= tip + 1
        BY <1>0, <2>1, <2>4 DEF IsMature
    <2> HIDE DEF c
    <2>6. ASSUME s[i].sequence.unit = "blocks"
          PROVE  (IF Confirmed(op[1]) THEN h ELSE tip + 1) + s[i].sequence.n <= tip + 1
        <3>1. c.csv # None
            BY <1>2, <2>1, <2>6 DEF Fallback, IsLock
        <3>2. s[i].sequence = c.csv /\ c.csv \in TimeLocks
            BY <2>1, <2>2, <3>1 DEF Fallback, Conditions
        <3>3. c.csv.n \in Nat /\ Age(op) >= c.csv.n
            BY <2>2, <3>1, <3>2 DEF Grants, Blocks, TimeLocks
        <3>4. Age(op) = IF Confirmed(op[1]) THEN tip + 1 - h ELSE 0
            BY DEF Age
        <3> HIDE DEF op, h
        <3> QED BY <1>0, <2>4, <3>2, <3>3, <3>4
    <2> QED BY <2>5, <2>6
<1> QED BY <1>5, <1>6

-----------------------------------------------------------------------------
(***************************************************************************)
(* What a draft pays.                                                      *)
(***************************************************************************)
\* One amount more.
LEMMA OneAmountMore ==
    ASSUME NEW A, \A a \in A : a.value \in Nat, NEW s \in Seq(A), NEW x \in A
    PROVE  /\ s \o <<x>> \in Seq(A) /\ Len(s \o <<x>>) = Len(s) + 1
           /\ SumOver(Amounts(s \o <<x>>)) = SumOver(Amounts(s)) + x.value
<1> DEFINE n == Len(s)
           all == s \o <<x>>
           D == 1..(n + 1)
           f == Amounts(all)
<1>1. n \in Nat /\ DOMAIN s = 1..n
    OBVIOUS
<1>2. all \in Seq(A) /\ Len(all) = n + 1 /\ DOMAIN all = D /\ all[n + 1] = x /\ \A i \in 1..n : all[i] = s[i]
    OBVIOUS
<1> HIDE DEF n, all
<1>3. f \in [D -> Int]
    BY <1>2, AmountsAdd
<1>4. f[n + 1] = x.value /\ \A i \in 1..n : f[i] = s[i].value
    BY <1>1, <1>2 DEF Amounts
<1>5. n + 1 \in D /\ D \ {n + 1} = 1..n /\ n + 1 \in Nat
    BY <1>1
<1>6. IsFiniteSet(D)
    BY <1>5, FiniteUpTo
<1>7. Amounts(s) = [i \in D \ {n + 1} |-> f[i]]
    <2>1. Amounts(s) = [i \in 1..n |-> s[i].value]
        BY <1>1 DEF Amounts
    <2> HIDE DEF f, D
    <2> QED BY <1>4, <1>5, <2>1
<1> HIDE DEF f, D
<1>8. SumOver(f) = f[n + 1] + SumOver([i \in D \ {n + 1} |-> f[i]])
    <2>1. \A e \in D : SumOver(f) = f[e] + SumOver([i \in D \ {e} |-> f[i]])
        BY <1>3, <1>6, SumRemove
    <2> QED BY <1>5, <2>1
<1>9. SumOver(Amounts(s)) \in Nat /\ x.value \in Nat
    BY AmountsAdd
<1> QED BY <1>2, <1>4, <1>7, <1>8, <1>9 DEF f, n, all

\* What a selection must leave to the fee.
LEMMA NeededIs ==
    ASSUME NEW m \in Nat, NEW k \in Nat, NEW rate \in Nat, NEW floor \in Int
    PROVE  /\ Needed(m, k, rate, floor) \in Nat
           /\ floor >= 0 => Needed(m, k, rate, floor) >= floor + Weight(m, k)
<1> DEFINE w == Weight(m, k)
           a == rate * w
           S == {a} \cup IF floor < 0 THEN {} ELSE {floor + w}
           b == a + (IF floor < 0 THEN 0 ELSE floor + w)
<1>1. w \in Nat
    BY WeightPositive
<1> HIDE DEF w
<1>2. a \in Nat
    BY <1>1
<1>3. Needed(m, k, rate, floor) = Max(S)
    BY DEF Needed, w
<1> HIDE DEF a
<1>4. b \in Nat /\ S \in SUBSET (0..b) /\ S # {}
    BY <1>1, <1>2
<1>5. Max(S) \in S /\ \A y \in S : Max(S) >= y
    <2> HIDE DEF b, S
    <2> QED BY <1>4, MaxOfNaturals
<1>6. Max(S) \in Nat
    BY <1>4, <1>5
<1>7. floor >= 0 => floor + w \in S
    OBVIOUS
<1> HIDE DEF S
<1> QED BY <1>3, <1>5, <1>6, <1>7 DEF w

\* What is left of a selection.
LEMMA RestIs ==
    ASSUME request \in Requests, NEW s \in Seq(Inputs), NEW k \in Nat, NEW rate \in Nat, NEW floor \in Int
    PROVE  /\ SumOver(Amounts(s)) \in Nat /\ SumOver(Amounts(request.recipients)) \in Nat
           /\ Needed(Len(s), k, rate, floor) \in Nat
           /\ Rest(s, k, rate, floor) =
                SumOver(Amounts(s)) - SumOver(Amounts(request.recipients)) - Needed(Len(s), k, rate, floor)
           /\ Rest(s, k, rate, floor) \in Int
<1>1. request.recipients \in Seq(OutputData) /\ Len(s) \in Nat
    BY DEF Requests
<1>2. (\A a \in OutputData : a.value \in Nat) /\ (\A a \in Inputs : a.value \in Nat)
    BY DEF OutputData, Inputs
<1>3. SumOver(Amounts(s)) \in Nat /\ SumOver(Amounts(request.recipients)) \in Nat
    BY <1>1, <1>2, AmountsAdd
<1>4. Needed(Len(s), k, rate, floor) \in Nat
    BY <1>1, NeededIs
<1>5. Rest(s, k, rate, floor) =
        SumOver(Amounts(s)) - SumOver(Amounts(request.recipients)) - Needed(Len(s), k, rate, floor)
    BY DEF Rest, SumOf, SumOver, Amounts
<1> QED BY <1>3, <1>4, <1>5

\* A funded selection leaves at least what its size asks for.
LEMMA FundedPays ==
    ASSUME request \in Requests, NEW s \in Seq(Inputs), NEW rate \in Nat, NEW floor \in Int,
           Funds(s, rate, floor), NEW outs, outs = Outputs(s, rate, floor)
    PROVE  /\ outs \in Seq(OutputData)
           /\ SumOver(Amounts(s)) \in Nat /\ SumOver(Amounts(outs)) \in Nat
           /\ SumOver(Amounts(s)) - SumOver(Amounts(outs)) >= Needed(Len(s), Len(outs), rate, floor)
<1> DEFINE rec == request.recipients
           n == Len(rec)
           change == Rest(s, n + 1, rate, floor)
           x == Out(IF request.change_script THEN "other" ELSE "Internal", change)
<1>1. rec \in Seq(OutputData) /\ n \in Nat /\ n + 1 \in Nat /\ Len(s) \in Nat
    BY DEF Requests
<1>2. \A a \in OutputData : a.value \in Nat
    BY DEF OutputData
<1>3. /\ SumOver(Amounts(s)) \in Nat /\ SumOver(Amounts(rec)) \in Nat
      /\ Needed(Len(s), n, rate, floor) \in Nat
      /\ Rest(s, n, rate, floor) = SumOver(Amounts(s)) - SumOver(Amounts(rec)) - Needed(Len(s), n, rate, floor)
    BY <1>1, RestIs
<1>4. /\ Needed(Len(s), n + 1, rate, floor) \in Nat /\ change \in Int
      /\ change = SumOver(Amounts(s)) - SumOver(Amounts(rec)) - Needed(Len(s), n + 1, rate, floor)
    BY <1>1, RestIs
<1>5. CASE change < Dust
    <2>1. outs = rec
        BY <1>1, <1>5 DEF Outputs
    <2>2. Rest(s, n, rate, floor) >= 0
        BY DEF Funds
    <2> HIDE DEF rec, n, change
    <2> QED BY <1>1, <1>3, <2>1, <2>2 DEF n
<1>6. CASE ~(change < Dust)
    <2>1. outs = rec \o <<x>>
        BY <1>6 DEF Outputs
    <2>2. change \in Nat
        BY <1>4, <1>6, SpendingAssumption
    <2>3. x \in OutputData /\ x.value = change
        <3> HIDE DEF change
        <3> QED BY <2>2 DEF Out, OutputData, Payees
    <2> HIDE DEF x, rec, n, change
    <2>4. /\ outs \in Seq(OutputData) /\ Len(outs) = n + 1
          /\ SumOver(Amounts(outs)) = SumOver(Amounts(rec)) + change
        <3>1. /\ rec \o <<x>> \in Seq(OutputData) /\ Len(rec \o <<x>>) = Len(rec) + 1
              /\ SumOver(Amounts(rec \o <<x>>)) = SumOver(Amounts(rec)) + x.value
            BY <1>1, <1>2, <2>3, OneAmountMore
        <3> QED BY <2>1, <2>3, <3>1 DEF n
    <2> QED BY <1>3, <1>4, <2>2, <2>4
<1> QED BY <1>5, <1>6

-----------------------------------------------------------------------------
(***************************************************************************)
(* What a replacement pays for.                                            *)
(***************************************************************************)
\* The transactions of the graph whose fee can be calculated.
Paying == {t \in DOMAIN txs : HasFee(txs[t])}

\* Their fees are not negative.
LEMMA FeesPaid ==
    ASSUME GraphSound, NEW t \in Paying
    PROVE  calculate_fee(txs[t]) \in Nat
<1>1. txs[t] \in Transactions /\ FeeKnown(txs[t]) /\ calculate_fee(txs[t]) >= 0
    BY DEF GraphSound, Paying, HasFee
<1>2. calculate_fee(txs[t]) \in Int
    BY <1>1, FeeIs
<1> QED BY <1>1, <1>2

\* The fees of some transactions, as a sum.
LEMMA FeesSum ==
    ASSUME GraphSound, NEW ts \in SUBSET Paying
    PROVE  /\ IsFiniteSet(ts) /\ FeeOf(ts) \in Nat
           /\ FeeOf(ts) = SumOver([t \in ts |-> calculate_fee(txs[t])])
<1> DEFINE f == [t \in ts |-> calculate_fee(txs[t])]
           q == SetToSeq(ts)
           A == 1..Len(q)
           h == [i \in A |-> calculate_fee(txs[q[i]])]
<1>1. IsFiniteSet(ts)
    <2>1. IsFiniteSet(DOMAIN txs)
        BY FiniteUpTo DEF GraphSound
    <2> QED BY <2>1, FS_Subset DEF Paying
<1>2. \A t \in ts : calculate_fee(txs[t]) \in Nat
    BY FeesPaid
<1>3. f \in [ts -> Int] /\ (\A t \in ts : f[t] >= 0) /\ (\A t \in ts : f[t] = calculate_fee(txs[t]))
    BY <1>2
<1> HIDE DEF f
<1>4. q \in Seq(ts) /\ ToSet(q) = ts /\ IsInjective(q)
    BY <1>1, SetListed
<1>5. FeeOf(ts) = SumOver(h)
    <2>1. DOMAIN q = A
        BY <1>4
    <2> QED BY <2>1 DEF FeeOf, SumOf, SumOver
<1> HIDE DEF q
<1>6. Len(q) \in Nat /\ IsFiniteSet(A) /\ q \in [A -> ts] /\ DOMAIN q = A
    <2>1. Len(q) \in Nat /\ q \in [A -> ts] /\ DOMAIN q = A
        BY <1>4
    <2> QED BY <2>1, FiniteUpTo
<1>7. \A i \in A : q[i] \in ts /\ h[i] = f[q[i]]
    BY <1>3, <1>6
<1>8. h \in [A -> Int]
    BY <1>2, <1>7
<1>9. (\A x, y \in A : q[x] = q[y] => x = y) /\ (\A t \in ts : \E x \in A : q[x] = t)
    BY <1>4, <1>6 DEF IsInjective, ToSet
<1> HIDE DEF h, A
<1>10. Renumbers(h, A, f, ts, q)
    BY <1>1, <1>3, <1>6, <1>7, <1>8, <1>9 DEF Renumbers
<1>11. SumOver(h) = SumOver(f)
    BY <1>10, SumReindex
<1>12. SumOver(f) \in Int /\ SumOver(f) >= 0
    BY <1>1, <1>3, SumRemove, SumNonnegative
<1> QED BY <1>1, <1>5, <1>11, <1>12 DEF f

\* Whatever is evicted is paid for when its part in two sets that do not meet is.
LEMMA FeesCover ==
    ASSUME GraphSound, NEW A \in SUBSET Paying, NEW B \in SUBSET Paying, A \cap B = {}, NEW E \in SUBSET (A \cup B)
    PROVE  FeeOf(A) \in Nat /\ FeeOf(B) \in Nat /\ FeeOf(E) \in Nat /\ FeeOf(A) + FeeOf(B) >= FeeOf(E)
<1> DEFINE D == A \cup B
           f == [t \in D |-> calculate_fee(txs[t])]
           R == D \ E
           g == [t \in R |-> f[t]]
<1>1. A \in SUBSET D /\ B = D \ A /\ D \in SUBSET Paying /\ R \in SUBSET D /\ E \in SUBSET D
    OBVIOUS
<1>2. /\ FeeOf(A) \in Nat /\ FeeOf(A) = SumOver([t \in A |-> calculate_fee(txs[t])])
      /\ FeeOf(B) \in Nat /\ FeeOf(B) = SumOver([t \in B |-> calculate_fee(txs[t])])
      /\ IsFiniteSet(D)
    BY <1>1, FeesSum
<1>3. FeeOf(E) \in Nat /\ FeeOf(E) = SumOver([t \in E |-> calculate_fee(txs[t])])
    BY <1>1, FeesSum
<1>4. \A t \in D : calculate_fee(txs[t]) \in Nat
    BY <1>1, FeesPaid
<1>5. f \in [D -> Int] /\ (\A t \in D : f[t] = calculate_fee(txs[t]) /\ f[t] >= 0)
    BY <1>4
<1> HIDE DEF D, f
<1>6. /\ [t \in A |-> f[t]] = [t \in A |-> calculate_fee(txs[t])]
      /\ [t \in D \ A |-> f[t]] = [t \in B |-> calculate_fee(txs[t])]
      /\ [t \in E |-> f[t]] = [t \in E |-> calculate_fee(txs[t])]
    BY <1>1, <1>5
<1>7. SumOver(f) = SumOver([t \in A |-> f[t]]) + SumOver([t \in D \ A |-> f[t]])
    BY <1>1, <1>2, <1>5, SumSplit
<1>8. SumOver(f) = SumOver([t \in E |-> f[t]]) + SumOver([t \in D \ E |-> f[t]])
    BY <1>1, <1>2, <1>5, SumSplit
<1>9. g \in [R -> Int] /\ (\A t \in R : g[t] >= 0) /\ IsFiniteSet(R)
    BY <1>1, <1>2, <1>5, FS_Subset
<1> HIDE DEF R
<1>10. SumOver(g) \in Int /\ SumOver(g) >= 0
    <2> HIDE DEF g
    <2> QED BY <1>9, SumRemove, SumNonnegative
<1> QED BY <1>2, <1>3, <1>6, <1>7, <1>8, <1>10 DEF R

\* The greater of two numbers.
LEMMA MaxOfTwo ==
    ASSUME NEW a \in Nat, NEW b \in Nat
    PROVE  Max({a, b}) \in Nat
<1> DEFINE S == {a, b}
           c == a + b
<1>1. c \in Nat /\ S \in SUBSET (0..c) /\ S # {}
    OBVIOUS
<1>2. Max(S) \in S
    <2> HIDE DEF S, c
    <2> QED BY <1>1, MaxOfNaturals
<1> QED BY <1>1, <1>2

\* The rate of a replacement.
LEMMA RateIs ==
    ASSUME Ready, ~ReplacementRefused
    PROVE  Max({request.fee_rate, OriginalRate}) \in Nat
<1> DEFINE R == request.replace
           q == SetToSeq(R)
           Each(t) == calculate_fee(txs[t]) \div WeightOf(txs[t])
           v == [i \in 1..Len(q) |-> Each(q[i])]
           S == {Each(t) : t \in R}
<1>1. GraphSound /\ R \in SUBSET Paying /\ R # {} /\ request.fee_rate \in Nat
    <2>1. R \subseteq DOMAIN txs /\ request.fee_rate \in Nat
        BY DEF Ready, RequestSound, ReplaceSound, Held, Requests
    <2> QED BY <2>1 DEF Ready, ReplacementRefused, Paying
<1>2. ASSUME NEW t \in R PROVE Each(t) \in Nat
    <2>1. calculate_fee(txs[t]) \in Nat
        BY <1>1, FeesPaid
    <2>2. txs[t] \in Transactions
        BY <1>1 DEF GraphSound, Paying
    <2>3. txs[t].ins \in Seq(InputData) /\ txs[t].outs \in Seq(OutputData)
        BY <2>2 DEF Transactions
    <2>4. Len(txs[t].ins) \in Nat /\ Len(txs[t].outs) \in Nat
        BY <2>3
    <2>5. WeightOf(txs[t]) \in Nat \ {0}
        BY <2>4, WeightPositive DEF WeightOf
    <2> DEFINE c == calculate_fee(txs[t])
               w == WeightOf(txs[t])
    <2> SUFFICES c \div w \in Nat
        OBVIOUS
    <2>6. c \in Nat /\ w \in Nat \ {0}
        BY <2>1, <2>5
    <2> HIDE DEF c, w
    <2> QED BY <2>6
<1> HIDE DEF Each
<1>3. q \in Seq(R) /\ ToSet(q) = R
    BY <1>1, FeesSum, SetListed
<1> HIDE DEF q
<1>4. Len(q) \in Nat /\ DOMAIN q = 1..Len(q) /\ \A i \in 1..Len(q) : q[i] \in R
    BY <1>3
<1>5. v \in [1..Len(q) -> Nat]
    BY <1>2, <1>4
<1>6. PICK b \in Nat : \A i \in 1..Len(q) : v[i] <= b
    <2> HIDE DEF v
    <2> QED BY <1>4, <1>5, NumbersBounded
<1>7. \A t \in R : \E i \in 1..Len(q) : q[i] = t
    BY <1>3, <1>4 DEF ToSet
<1>8. \A t \in R : Each(t) \in 0..b
    BY <1>2, <1>6, <1>7
<1>9. S \in SUBSET (0..b) /\ S # {}
    BY <1>1, <1>8
<1>10. Max(S) \in S
    <2> HIDE DEF S
    <2> QED BY <1>9, MaxOfNaturals
<1>11. OriginalRate \in Nat
    <2>1. OriginalRate = Max(S)
        BY DEF OriginalRate, Each
    <2> QED BY <1>9, <1>10, <2>1
<1> QED BY <1>1, <1>11, MaxOfTwo

\* Evicted is no more than what is replaced and its descendants, of which the
\* draft spends nothing.
LEMMA EvictsReplaced ==
    ASSUME Ready, request.replacing, request.replace \subseteq Canonical, ~ReplacementRefused,
           NEW may, Candidates(may), \A op \in may : op[1] \notin ToReplace,
           NEW s, Drawn(s, may), NEW outs, NEW d, IsDraft(d, s, outs), ~Entangled(d)
    PROVE  Evicted(d.tx) \subseteq ToReplace /\ \A op \in Spent(d.tx) : op[1] \notin ToReplace
<1> DEFINE r == request
           direct == {t \in Canonical : ~Confirmed(t) /\ Spent(txs[t]) \cap Spent(d.tx) # {}}
<1>0. d.of = r /\ Spent(d.tx) = OpsIn(s) /\ GraphSound
    BY DEF IsDraft, Ready
<1>1. ASSUME NEW t \in direct PROVE t \in r.replace
    <2>1. PICK i \in DOMAIN s : s[i].op \in Spent(txs[t])
        BY <1>0 DEF OpsIn
    <2>2. ~FromWallet(s[i], may)
        <3>1. ASSUME s[i].op \in may PROVE FALSE
            <4>1. s[i].op \in list_unspent
                BY <3>1 DEF Candidates, filter_spendable
            <4> QED BY <1>0, <2>1, <4>1, Unspent
        <3> QED BY <3>1 DEF FromWallet
    <2>3. PICK j \in DOMAIN r.must_spend : FromItem(s[i], r.must_spend[j])
        BY <2>2 DEF Drawn
    <2>4. r.must_spend[j].op \in Spent(txs[t])
        BY <2>1, <2>3 DEF FromItem
    <2>5. ~r.must_spend[j].planned
        BY <1>0, <2>4 DEF Entangled
    <2>6. OfReplaced(r, r.must_spend[j])
        BY DEF Ready, RequestSound, ReplaceSound
    <2>7. PICK u \in r.replace : r.must_spend[j].op \in Spent(txs[u])
        BY <2>5, <2>6 DEF OfReplaced
    <2>8. u \in Canonical /\ t \in Canonical /\ ~Conflicting(t, u)
        BY <1>0, <2>7, CanonicalConsistent DEF Consistent
    <2>9. t = u
        BY <2>4, <2>7, <2>8 DEF Conflicting
    <2> QED BY <2>7, <2>9
<1>2. Evicted(d.tx) \subseteq ToReplace
    <2>1. Evicted(d.tx) = direct \cup UNION {Descendants(t) : t \in direct}
        BY DEF Evicted
    <2>2. direct \subseteq r.replace
        BY <1>1
    <2> HIDE DEF direct
    <2>3. UNION {Descendants(t) : t \in direct} \subseteq UNION {Descendants(t) : t \in r.replace}
        BY <2>2
    <2> DEFINE all == UNION {Descendants(t) : t \in r.replace}
               some == UNION {Descendants(t) : t \in direct}
    <2>4. ToReplace = r.replace \cup (all \ r.replace)
        BY Zenon DEF ToReplace, DescendantsOf
    <2>5. Evicted(d.tx) = direct \cup some /\ some \subseteq all
        BY <2>1, <2>3
    <2> HIDE DEF all, some
    <2> QED BY <2>2, <2>4, <2>5
<1>3. ASSUME NEW op \in Spent(d.tx) PROVE op[1] \notin ToReplace
    <2>1. PICK i \in DOMAIN s : s[i].op = op
        BY <1>0 DEF OpsIn
    <2>2. \A j \in DOMAIN r.must_spend : r.must_spend[j].op[1] \notin ToReplace
        BY DEF ReplacementRefused
    <2>3. (\E j \in DOMAIN r.must_spend : r.must_spend[j].op = op) \/ op \in may
        BY <2>1 DEF Drawn, FromItem, FromWallet
    <2> QED BY <2>2, <2>3
<1> QED BY <1>2, <1>3

\* What the inputs of a draft are worth.
LEMMA DraftWorth ==
    ASSUME Ready, NEW may, Candidates(may), NEW s, Drawn(s, may), NEW outs, NEW d, IsDraft(d, s, outs)
    PROVE  DraftFee(d) = SumOver(Amounts(s)) - SumOver(Amounts(outs))
<1> DEFINE r == request
<1>0. /\ d.of = r /\ d.tx.outs = outs /\ DOMAIN d.tx.ins = DOMAIN s /\ GraphSound /\ PathsSound /\ request \in Requests
      /\ \A i \in DOMAIN s : d.tx.ins[i].op = s[i].op
    BY DEF IsDraft, Ready, RequestSound
<1>1. ASSUME NEW i \in DOMAIN s PROVE WorthIn(d, s[i].op) = s[i].value
    <2> DEFINE op == s[i].op
    <2>1. CASE FromWallet(s[i], may)
        <3>1. op \in list_unspent /\ s[i] = WalletInput(op)
            BY <2>1 DEF FromWallet, Candidates, filter_spendable
        <3>2. Ours(op) /\ op \in Outpoint
            BY <1>0, <3>1, Unspent DEF Nameable
        <3>3. WalletInput(op).value = TxOut(op).value
            BY <1>0, <3>2, WalletInputIs
        <3>4. s[i].value = TxOut(op).value
            BY <3>1, <3>3
        <3> QED BY <3>2, <3>4 DEF WorthIn, Ours
    <2>2. ASSUME NEW j \in DOMAIN r.must_spend, FromItem(s[i], r.must_spend[j])
          PROVE  WorthIn(d, op) = s[i].value
        <3>1. r.must_spend[j].op = op
            BY <2>2 DEF FromItem
        <3>2. CASE Known(op)
            BY <2>2, <3>1, <3>2 DEF FromItem, WorthIn
        <3>3. CASE ~Known(op)
            <4>1. s[i].value = r.must_spend[j].value
                BY <2>2, <3>1, <3>3 DEF FromItem
            <4>2. Distinct(r.must_spend)
                BY DEF Ready, RequestSound, ListSound
            <4>3. (CHOOSE k \in DOMAIN r.must_spend : r.must_spend[k].op = op) = j
                BY <3>1, <4>2 DEF Distinct
            <4>4. WorthIn(d, op) = r.must_spend[CHOOSE k \in DOMAIN r.must_spend : r.must_spend[k].op = op].value
                BY <1>0, <3>3 DEF WorthIn
            <4> QED BY <4>1, <4>3, <4>4
        <3> QED BY <3>2, <3>3
    <2> QED BY <2>1, <2>2 DEF Drawn
<1>2. [i \in DOMAIN d.tx.ins |-> WorthIn(d, d.tx.ins[i].op)] = Amounts(s)
    BY <1>0, <1>1 DEF Amounts
<1>3. DraftFee(d) = SumOver([i \in DOMAIN d.tx.ins |-> WorthIn(d, d.tx.ins[i].op)]) - SumOver(Amounts(d.tx.outs))
    BY DEF DraftFee, SumOf, SumOver, Amounts
<1> QED BY <1>0, <1>2, <1>3

\* A replacement pays for what it evicts and for its own relay.
LEMMA DraftPays ==
    ASSUME Ready, request.replacing, ~ReplacementRefused,
           NEW may, Candidates(may), \A op \in may : op[1] \notin ToReplace,
           NEW s, Drawn(s, may), NEW rate \in Nat, Funds(s, rate, Floor), NEW outs, outs = Outputs(s, rate, Floor),
           NEW d, IsDraft(d, s, outs)
    PROVE  Floor \in Nat /\ Pays(d)
<1> DEFINE r == request
           A == r.replace
           B == {t \in DescendantsOf : HasFee(txs[t])}
           E == {t \in Evicted(d.tx) \cap Canonical : HasFee(txs[t])}
<1>0. /\ d.of = r /\ d.tx.outs = outs /\ Len(d.tx.ins) = Len(s) /\ GraphSound /\ r \in Requests
      /\ s \in Seq(Inputs)
    BY DEF IsDraft, Ready, RequestSound, Drawn
<1>1. A \in SUBSET Paying
    <2>1. A \subseteq DOMAIN txs
        BY DEF Ready, RequestSound, ReplaceSound, Held
    <2> QED BY <2>1 DEF ReplacementRefused, Paying
<1>2. B \in SUBSET Paying /\ A \cap B = {}
    <2>1. \A t : Descendants(t) \subseteq DOMAIN txs
        BY DEF Descendants
    <2>2. DescendantsOf \subseteq DOMAIN txs /\ DescendantsOf \cap A = {}
        <3> DEFINE all == UNION {Descendants(t) : t \in request.replace}
        <3>1. DescendantsOf = all \ request.replace
            BY Zenon DEF DescendantsOf
        <3>2. all \subseteq DOMAIN txs
            BY <2>1, Zenon
        <3> HIDE DEF all
        <3> QED BY <3>1, <3>2
    <2> QED BY <2>2 DEF Paying
<1>3. Floor = FeeOf(A) + FeeOf(B)
    BY DEF Floor
<1>4. Floor \in Nat
    <2>1. FeeOf(A) \in Nat /\ FeeOf(B) \in Nat
        <3> HIDE DEF A, B
        <3> QED BY <1>0, <1>1, <1>2, FeesSum
    <2> QED BY <1>3, <2>1
<1>5. ASSUME A # {}, A \subseteq Canonical, ~Entangled(d)
      PROVE  /\ DraftFee(d) >= FeeOf(E) + WeightOf(d.tx)
             /\ \A op \in Spent(d.tx) : op[1] \notin Evicted(d.tx)
    <2>1. Evicted(d.tx) \subseteq ToReplace /\ \A op \in Spent(d.tx) : op[1] \notin ToReplace
        BY <1>5, EvictsReplaced
    <2>2. E \in SUBSET (A \cup B)
        BY <2>1 DEF ToReplace
    <2>3. FeeOf(E) \in Nat /\ FeeOf(A) + FeeOf(B) >= FeeOf(E)
        <3> HIDE DEF A, B, E
        <3> QED BY <1>0, <1>1, <1>2, <2>2, FeesCover
    <2>4. /\ outs \in Seq(OutputData)
          /\ SumOver(Amounts(s)) \in Nat /\ SumOver(Amounts(outs)) \in Nat
          /\ SumOver(Amounts(s)) - SumOver(Amounts(outs)) >= Needed(Len(s), Len(outs), rate, Floor)
        BY <1>0, <1>4, FundedPays
    <2>5. Len(s) \in Nat /\ Len(outs) \in Nat
        BY <1>0, <2>4
    <2>6. /\ Needed(Len(s), Len(outs), rate, Floor) \in Nat
          /\ Needed(Len(s), Len(outs), rate, Floor) >= Floor + Weight(Len(s), Len(outs))
        BY <1>4, <2>5, NeededIs
    <2>7. Weight(Len(s), Len(outs)) \in Nat
        BY <2>5, WeightPositive
    <2>8. WeightOf(d.tx) = Weight(Len(s), Len(outs))
        BY <1>0 DEF WeightOf
    <2>9. DraftFee(d) = SumOver(Amounts(s)) - SumOver(Amounts(outs))
        BY DraftWorth
    <2>10. DraftFee(d) >= FeeOf(E) + WeightOf(d.tx)
        <3> HIDE DEF A, B, E
        <3> QED BY <1>3, <1>4, <2>3, <2>4, <2>6, <2>7, <2>8, <2>9
    <2> QED BY <2>1, <2>10
<1> QED BY <1>0, <1>4, <1>5 DEF Pays

-----------------------------------------------------------------------------
(***************************************************************************)
(* What replace_txs lists.                                                 *)
(***************************************************************************)
\* A recursion whose steps stay in a set does.
LEMMA RecursionStays ==
    ASSUME NEW n \in Nat, NEW S, NEW F, F[0] \in S, \A i \in 1..n : F[i - 1] \in S => F[i] \in S
    PROVE  F[n] \in S
<1> DEFINE B == {i \in 0..n : F[i] \notin S}
<1>1. SUFFICES ASSUME B # {} PROVE FALSE
    OBVIOUS
<1>2. PICK m \in B : \A y \in B : m <= y
    BY <1>1, LeastNatural, B \subseteq Nat
<1>3. m \in 1..n /\ m - 1 \in 0..n /\ ~(m <= m - 1)
    BY <1>2
<1>4. F[m - 1] \in S
    BY <1>2, <1>3
<1> QED BY <1>2, <1>3, <1>4

\* What is left of the transactions.
LEMMA SanitizedLeaves ==
    ASSUME NEW ts, NEW order \in Seq(ts)
    PROVE  Sanitized(ts, order) \subseteq ts
<1> DEFINE n == Len(order)
           S == SUBSET ts
           Gone(i, l) == {t \in {order[i]} : Dropped(ts, l, t)}
           Step == [i \in 1..n |-> [l \in S |-> l \ Gone(i, l)]]
           Rec(f) == [i \in 0..n |-> IF i = 0 THEN ts ELSE f[i - 1] \ Gone(i, f[i - 1])]
           F == CHOOSE f : f = Rec(f)
<1>1. n \in Nat /\ ts \in S /\ Step \in [1..n -> [S -> S]]
    OBVIOUS
<1>5. Sanitized(ts, order) = F[n]
    BY DEF Sanitized
<1> HIDE DEF Gone
<1>2. PICK f : Follows(f, n, S, ts, Step)
    BY <1>1, RecursionDefines
<1>3. f = Rec(f)
    <2>1. f \in [0..n -> S] /\ f[0] = ts /\ \A i \in 1..n : f[i] = Step[i][f[i - 1]]
        BY <1>2 DEF Follows
    <2>2. ASSUME NEW i \in 1..n PROVE f[i] = f[i - 1] \ Gone(i, f[i - 1])
        <3>1. f[i - 1] \in S
            BY <1>1, <2>1
        <3> QED BY <2>1, <3>1
    <2> HIDE DEF Step
    <2>3. ASSUME NEW i \in 0..n PROVE f[i] = Rec(f)[i]
        <3>1. CASE i = 0
            BY <2>1, <3>1
        <3>2. CASE i # 0
            <4>1. i \in 1..n
                BY <1>1, <3>2
            <4> QED BY <2>2, <3>2, <4>1
        <3> QED BY <3>1, <3>2
    <2> QED BY <2>1, <2>3
<1>4. F = Rec(F)
    BY <1>3
<1> HIDE DEF F
<1>6. F[0] = ts
    BY <1>1, <1>4
<1>7. ASSUME NEW i \in 1..n PROVE F[i] = F[i - 1] \ Gone(i, F[i - 1])
    <2>1. i \in 0..n /\ i # 0
        BY <1>1
    <2>2. F[i] = Rec(F)[i]
        BY <1>4
    <2> QED BY <2>1, <2>2
<1>8. F[n] \in S
    <2>1. F[0] \in S /\ \A i \in 1..n : F[i - 1] \in S => F[i] \in S
        BY <1>1, <1>6, <1>7
    <2> HIDE DEF n, S
    <2> QED BY <1>1, <2>1, RecursionStays
<1> QED BY <1>5, <1>8

\* The inputs of a transaction of the graph can be named.
LEMMA InputsNameable ==
    ASSUME GraphSound, NEW t \in DOMAIN txs
    PROVE  txs[t].ins \in Seq(InputData) /\ \A i \in DOMAIN txs[t].ins : txs[t].ins[i].op \in Nameable
<1>1. txs[t].ins \in Seq(InputData) /\ (\A i \in DOMAIN txs[t].ins : txs[t].ins[i].op[1] < t) /\ t \in 1..Len(txs) /\ Len(txs) \in Nat
    BY DEF GraphSound, TxSound, Transactions
<1>2. ASSUME NEW i \in DOMAIN txs[t].ins PROVE txs[t].ins[i].op \in Nameable
    <2>1. txs[t].ins[i] \in InputData /\ txs[t].ins[i].op[1] < t
        BY <1>1
    <2>2. txs[t].ins[i].op \in Outpoint
        BY <2>1 DEF InputData
    <2>3. txs[t].ins[i].op[1] \in Nat
        BY <2>2 DEF Outpoint
    <2> QED BY <1>1, <2>1, <2>2, <2>3 DEF Nameable
<1> QED BY <1>1, <1>2

\* The inputs that are listed are inputs of what is left.
LEMMA InputsListed ==
    ASSUME GraphSound, NEW ts \in SUBSET (DOMAIN txs), NEW T, NEW order \in Seq(T)
    PROVE  InputsOf(ts, order) \in Seq({op \in Nameable : \E t \in ts : op \in Spent(txs[t])})
<1> DEFINE n == Len(order)
           X == {op \in Nameable : \E t \in ts : op \in Spent(txs[t])}
           S == Seq(X)
           Own(i) == [k \in DOMAIN txs[order[i]].ins |-> txs[order[i]].ins[k].op]
           More(i, l) == IF order[i] \notin ts THEN l ELSE l \o Own(i)
           Step == [i \in 1..n |-> [l \in S |-> More(i, l)]]
           Rec(f) == [i \in 0..n |-> IF i = 0 THEN <<>> ELSE More(i, f[i - 1])]
           F == CHOOSE f : f = Rec(f)
<1>1. n \in Nat /\ <<>> \in S
    OBVIOUS
<1>2. InputsOf(ts, order) = F[n]
    BY DEF InputsOf
<1>3. ASSUME NEW i \in 1..n, NEW l \in S PROVE More(i, l) \in S
    <2>1. CASE order[i] \notin ts
        BY <2>1
    <2>2. CASE order[i] \in ts
        <3> DEFINE t == order[i]
        <3>1. txs[t].ins \in Seq(InputData) /\ \A k \in DOMAIN txs[t].ins : txs[t].ins[k].op \in Nameable
            BY <2>2, InputsNameable
        <3>2. \A k \in DOMAIN txs[t].ins : txs[t].ins[k].op \in X
            BY <2>2, <3>1 DEF Spent
        <3> HIDE DEF X, t
        <3>3. Own(i) \in Seq(X)
            BY <3>1, <3>2 DEF t
        <3>4. l \o Own(i) \in S
            <4> HIDE DEF Own
            <4> QED BY <3>3
        <3> QED BY <2>2, <3>4
    <2> QED BY <2>1, <2>2
<1> HIDE DEF More, X
<1>4. Step \in [1..n -> [S -> S]]
    BY <1>3
<1>5. PICK f : Follows(f, n, S, <<>>, Step)
    BY <1>1, <1>4, RecursionDefines
<1>6. f = Rec(f)
    <2>1. f \in [0..n -> S] /\ f[0] = <<>> /\ \A i \in 1..n : f[i] = Step[i][f[i - 1]]
        BY <1>5 DEF Follows
    <2>2. ASSUME NEW i \in 1..n PROVE f[i] = More(i, f[i - 1])
        <3>1. f[i - 1] \in S
            <4>1. i - 1 \in 0..n
                BY <1>1
            <4> HIDE DEF S
            <4> QED BY <2>1, <4>1
        <3> QED BY <2>1, <3>1
    <2> HIDE DEF Step
    <2>3. ASSUME NEW i \in 0..n PROVE f[i] = Rec(f)[i]
        <3>1. CASE i = 0
            BY <2>1, <3>1
        <3>2. CASE i # 0
            <4>1. i \in 1..n
                BY <1>1, <3>2
            <4> QED BY <2>2, <3>2, <4>1
        <3> QED BY <3>1, <3>2
    <2> QED BY <2>1, <2>3
<1>7. F = Rec(F)
    BY <1>6
<1> HIDE DEF F
<1>8. F[0] = <<>>
    BY <1>1, <1>7
<1>9. ASSUME NEW i \in 1..n PROVE F[i] = More(i, F[i - 1])
    <2>1. i \in 0..n /\ i # 0
        BY <1>1
    <2>2. F[i] = Rec(F)[i]
        BY <1>7
    <2> QED BY <2>1, <2>2
<1>10. F[n] \in S
    <2>1. F[0] \in S /\ \A i \in 1..n : F[i - 1] \in S => F[i] \in S
        BY <1>1, <1>3, <1>8, <1>9
    <2> HIDE DEF n, S
    <2> QED BY <1>1, <2>1, RecursionStays
<1> QED BY <1>2, <1>10 DEF X

-----------------------------------------------------------------------------
(***************************************************************************)
(* Collecting parameters.                                                  *)
(***************************************************************************)
\* What the invariant says of a request, of a wallet that did not change.
LEMMA SetKeeps ==
    ASSUME PsbtInv, NEW r, RequestSound(r), Set(r)
    PROVE  PsbtInv'
<1>1. UNCHANGED <<txs, tip, locked, paths>> /\ request' = r /\ drafted' = Nothing
    BY DEF Set, wallet
<1>2. GraphSound' /\ tip' \in Nat /\ PathsSound'
    <2>1. GraphSound' = GraphSound /\ PathsSound' = PathsSound
        BY <1>1, ViewUnchanged DEF PathsSound
    <2> QED BY <1>1, <2>1 DEF PsbtInv
<1>3. ListSound(r)'
    <2>1. ListSound(r)
        BY DEF RequestSound
    <2>2. \A x : ItemSound(x)' = ItemSound(x)
        BY <1>1, ViewUnchanged DEF ItemSound
    <2> QED BY <2>1, <2>2 DEF ListSound, Distinct
<1>4. ReplaceSound(r)'
    BY <1>1 DEF RequestSound, ReplaceSound, OfReplaced, Held, Spent
<1>5. RequestSound(request)'
    BY <1>1, <1>3, <1>4 DEF RequestSound
<1>6. drafted'.done = FALSE
    BY <1>1 DEF Nothing
<1> QED BY <1>2, <1>5, <1>6 DEF PsbtInv

\* Parameters other than the list.
LEMMA OtherField ==
    ASSUME RequestSound(request), NEW r \in Requests, r.set = request.set, r.must_spend = request.must_spend,
           r.replace = request.replace, r.replacing = request.replacing
    PROVE  RequestSound(r)
<1>1. ListSound(r)
    BY DEF RequestSound, ListSound
<1>2. ReplaceSound(r)
    BY DEF RequestSound, ReplaceSound, OfReplaced
<1> QED BY <1>1, <1>2 DEF RequestSound

\* The outpoints of a list.
LEMMA OpsOfList ==
    ASSUME NEW A, NEW s \in Seq(A)
    PROVE  {s[i].op : i \in DOMAIN s} = {x.op : x \in ToSet(s)}
BY DEF ToSet

\* A request with more outpoints listed.
More(q, r, ops) ==
    /\ q \in Requests /\ ListSound(q) /\ q.replace = r.replace /\ q.replacing = r.replacing
    /\ \A i \in DOMAIN q.must_spend :
         (\E j \in DOMAIN r.must_spend : q.must_spend[i] = r.must_spend[j])
           \/ \E op \in ToSet(ops) : q.must_spend[i].op = op

\* Listing outpoints lists each of them once.
LEMMA ListedMore ==
    ASSUME GraphSound, NEW r \in Requests, ListSound(r), NEW ops \in Seq(Nameable), NEW q, q = Listed(r, ops)
    PROVE  More(q, r, ops)
<1> DEFINE new == Fresh(ops, r.set)
           add == [i \in DOMAIN new |-> Utxo(new[i])]
           old == r.must_spend
           list == old \o add
           S == r.set \cup ToSet(ops)
<1>1. new \in Seq(Nameable) /\ ToSet(new) = ToSet(ops) \ r.set /\ IsInjective(new)
    BY FreshLists
<1>2. old \in Seq(Items) /\ Distinct(old) /\ r.set = {old[i].op : i \in DOMAIN old} /\ r.set \in SUBSET Outpoint
    BY DEF Requests, ListSound
<1>3. q = [r EXCEPT !.set = S, !.must_spend = list]
    BY DEF Listed
<1> HIDE DEF new
<1>4. ASSUME NEW op \in Nameable PROVE Utxo(op) \in Items /\ Utxo(op).op = op /\ ItemSound(Utxo(op))
    BY DEF Utxo, Items, Nameable, None, ItemSound
<1>5. add \in Seq(Items) /\ DOMAIN add = DOMAIN new /\ \A i \in DOMAIN new : add[i].op = new[i] /\ ItemSound(add[i])
    BY <1>1, <1>4
<1> HIDE DEF add, old
<1>6. Distinct(add)
    BY <1>1, <1>5 DEF Distinct, IsInjective
<1>7. \A i \in DOMAIN new : new[i] \in ToSet(ops) /\ new[i] \notin r.set
    BY <1>1 DEF ToSet
<1>8. \A i \in DOMAIN old, j \in DOMAIN add : old[i].op # add[j].op
    BY <1>2, <1>5, <1>7
<1>9. /\ list \in Seq(Items) /\ Distinct(list) /\ ToSet(list) = ToSet(old) \cup ToSet(add)
      /\ \A i \in DOMAIN list : \/ i \in DOMAIN old /\ list[i] = old[i]
                                \/ i - Len(old) \in DOMAIN add /\ list[i] = add[i - Len(old)]
    BY <1>2, <1>5, <1>6, <1>8, ListsJoin
<1> HIDE DEF list
<1>10. S \in SUBSET Outpoint
    BY <1>2 DEF ToSet, Nameable
<1>11. S = {list[i].op : i \in DOMAIN list}
    <2>1. {list[i].op : i \in DOMAIN list} = {x.op : x \in ToSet(list)}
        BY <1>9, OpsOfList
    <2>2. r.set = {x.op : x \in ToSet(old)}
        BY <1>2, OpsOfList
    <2>3. ToSet(ops) \ r.set = {x.op : x \in ToSet(add)}
        <3>1. {add[i].op : i \in DOMAIN add} = {x.op : x \in ToSet(add)}
            BY <1>5, OpsOfList
        <3>2. {add[i].op : i \in DOMAIN add} = ToSet(new)
            BY <1>5 DEF ToSet
        <3> QED BY <1>1, <3>1, <3>2
    <2>4. {x.op : x \in ToSet(list)} = {x.op : x \in ToSet(old)} \cup {x.op : x \in ToSet(add)}
        BY <1>9
    <2>5. S = r.set \cup (ToSet(ops) \ r.set)
        OBVIOUS
    <2> HIDE DEF S
    <2> QED BY <2>1, <2>2, <2>3, <2>4, <2>5
<1> HIDE DEF S
<1>12. /\ q \in Requests /\ q.set = S /\ q.must_spend = list /\ q.replace = r.replace
       /\ q.replacing = r.replacing
    <2>1. list \in Seq(Items)
        BY <1>9
    <2> QED BY <1>3, <1>10, <2>1 DEF Requests
<1>13. \A i \in DOMAIN old : ItemSound(old[i])
    BY DEF ListSound, old
<1>14. \A i \in DOMAIN list : ItemSound(list[i])
    BY <1>5, <1>9, <1>13
<1>15. ListSound(q)
    BY <1>9, <1>11, <1>12, <1>14 DEF ListSound
<1>16. \A i \in DOMAIN list : (\E j \in DOMAIN old : list[i] = old[j]) \/ \E op \in ToSet(ops) : list[i].op = op
    BY <1>5, <1>7, <1>9
<1> QED BY <1>12, <1>15, <1>16 DEF More, old

\* Parameters that are not about the list.
Plain(r) ==
    /\ r \in Requests
    /\ r.set = request.set /\ r.must_spend = request.must_spend
    /\ r.replace = request.replace /\ r.replacing = request.replacing

\* They keep the invariant.
LEMMA PlainKeeps ==
    ASSUME PsbtInv, NEW r, Plain(r), Set(r)
    PROVE  PsbtInv'
<1>1. RequestSound(r)
    BY OtherField DEF Plain, PsbtInv
<1> QED BY <1>1, SetKeeps

\* The lock times, the rate, the strategy and the filter.
LEMMA ScalarsKeep ==
    ASSUME PsbtInv
    PROVE  /\ \A l \in TimeLocks : locktime(l) => PsbtInv'
           /\ \A n \in Nat : (maturity_height(n) \/ fee_rate(n) \/ version(n)) => PsbtInv'
           /\ \A c \in {"SingleRandomDraw", "All"} : coin_selection(c) => PsbtInv'
           /\ \A f \in {"any", "confirmed"} : utxo_filter(f) => PsbtInv'
           /\ \A s \in SequenceValues : fallback_sequence(s) => PsbtInv'
           /\ manually_selected_only => PsbtInv'
           /\ change_script => PsbtInv'
<1>0. request \in Requests
    BY DEF PsbtInv, RequestSound
<1>1. ASSUME NEW l \in TimeLocks, locktime(l) PROVE PsbtInv'
    <2>1. PICK r : r = [request EXCEPT !.min_locktime = l]
        OBVIOUS
    <2>2. Plain(r)
        BY <1>0, <2>1 DEF Plain, Requests
    <2>3. Set(r)
        BY <1>1, <2>1 DEF locktime
    <2> QED BY <2>2, <2>3, PlainKeeps
<1>2. ASSUME NEW n \in Nat, maturity_height(n) PROVE PsbtInv'
    <2>1. PICK r : r = [request EXCEPT !.maturity_height = n]
        OBVIOUS
    <2>2. Plain(r)
        BY <1>0, <2>1 DEF Plain, Requests
    <2>3. Set(r)
        BY <1>2, <2>1 DEF maturity_height
    <2> QED BY <2>2, <2>3, PlainKeeps
<1>3. ASSUME NEW n \in Nat, fee_rate(n) PROVE PsbtInv'
    <2>1. PICK r : r = [request EXCEPT !.fee_rate = n]
        OBVIOUS
    <2>2. Plain(r)
        BY <1>0, <2>1 DEF Plain, Requests
    <2>3. Set(r)
        BY <1>3, <2>1 DEF fee_rate
    <2> QED BY <2>2, <2>3, PlainKeeps
<1>4. ASSUME NEW n \in Nat, version(n) PROVE PsbtInv'
    <2>1. PICK r : r = [request EXCEPT !.version = n]
        OBVIOUS
    <2>2. Plain(r)
        BY <1>0, <2>1 DEF Plain, Requests
    <2>3. Set(r)
        BY <1>4, <2>1 DEF version
    <2> QED BY <2>2, <2>3, PlainKeeps
<1>5. ASSUME NEW c \in {"SingleRandomDraw", "All"}, coin_selection(c) PROVE PsbtInv'
    <2>1. PICK r : r = [request EXCEPT !.coin_selection = c]
        OBVIOUS
    <2>2. Plain(r)
        BY <1>0, <2>1 DEF Plain, Requests
    <2>3. Set(r)
        BY <1>5, <2>1 DEF coin_selection
    <2> QED BY <2>2, <2>3, PlainKeeps
<1>6. ASSUME NEW f \in {"any", "confirmed"}, utxo_filter(f) PROVE PsbtInv'
    <2>1. PICK r : r = [request EXCEPT !.utxo_filter = f]
        OBVIOUS
    <2>2. Plain(r)
        BY <1>0, <2>1 DEF Plain, Requests
    <2>3. Set(r)
        BY <1>6, <2>1 DEF utxo_filter
    <2> QED BY <2>2, <2>3, PlainKeeps
<1>7. ASSUME NEW s \in SequenceValues, fallback_sequence(s) PROVE PsbtInv'
    <2>1. PICK r : r = [request EXCEPT !.fallback_sequence = s]
        OBVIOUS
    <2>2. Plain(r)
        BY <1>0, <2>1 DEF Plain, Requests
    <2>3. Set(r)
        BY <1>7, <2>1 DEF fallback_sequence
    <2> QED BY <2>2, <2>3, PlainKeeps
<1>8. ASSUME manually_selected_only PROVE PsbtInv'
    <2>1. PICK r : r = [request EXCEPT !.manually_selected_only = TRUE]
        OBVIOUS
    <2>2. Plain(r)
        BY <1>0, <2>1 DEF Plain, Requests
    <2>3. Set(r)
        BY <1>8, <2>1 DEF manually_selected_only
    <2> QED BY <2>2, <2>3, PlainKeeps
<1>9. ASSUME change_script PROVE PsbtInv'
    <2>1. PICK r : r = [request EXCEPT !.change_script = TRUE]
        OBVIOUS
    <2>2. Plain(r)
        BY <1>0, <2>1 DEF Plain, Requests
    <2>3. Set(r)
        BY <1>9, <2>1 DEF change_script
    <2> QED BY <2>2, <2>3, PlainKeeps
<1> QED BY <1>1, <1>2, <1>3, <1>4, <1>5, <1>6, <1>7, <1>8, <1>9

\* The assets, the recipients and the sequences.
LEMMA TablesKeep ==
    ASSUME PsbtInv
    PROVE  /\ \A after, older \in TimeLocks \cup {None} : add_assets([after |-> after, older |-> older]) => PsbtInv'
           /\ \A outs \in Seq(OutputData) : add_recipients(outs) => PsbtInv'
           /\ \A op \in Nameable, s \in SequenceValues : sequence_override(op, s) => PsbtInv'
<1>0. request \in Requests
    BY DEF PsbtInv, RequestSound
<1>1. ASSUME NEW after \in TimeLocks \cup {None}, NEW older \in TimeLocks \cup {None},
             add_assets([after |-> after, older |-> older])
      PROVE  PsbtInv'
    <2> DEFINE a == [after |-> after, older |-> older]
    <2>1. PICK b : b = [l \in DOMAIN a |-> IF a[l] = None THEN request.assets[l] ELSE a[l]]
        OBVIOUS
    <2>2. request.assets \in [after : TimeLocks \cup {None}, older : TimeLocks \cup {None}]
        BY <1>0 DEF Requests
    <2>3. b \in [after : TimeLocks \cup {None}, older : TimeLocks \cup {None}]
        BY <2>1, <2>2
    <2>4. PICK r : r = [request EXCEPT !.assets = b]
        OBVIOUS
    <2>5. Plain(r)
        BY <1>0, <2>3, <2>4 DEF Plain, Requests
    <2>6. Set(r)
        BY <1>1, <2>1, <2>4 DEF add_assets
    <2> QED BY <2>5, <2>6, PlainKeeps
<1>2. ASSUME NEW outs \in Seq(OutputData), add_recipients(outs) PROVE PsbtInv'
    <2>1. PICK b : b = request.recipients \o outs
        OBVIOUS
    <2>2. request.recipients \in Seq(OutputData)
        BY <1>0 DEF Requests
    <2>3. b \in Seq(OutputData)
        BY <2>1, <2>2
    <2>4. PICK r : r = [request EXCEPT !.recipients = b]
        OBVIOUS
    <2>5. Plain(r)
        BY <1>0, <2>3, <2>4 DEF Plain, Requests
    <2>6. Set(r)
        BY <1>2, <2>1, <2>4 DEF add_recipients
    <2> QED BY <2>5, <2>6, PlainKeeps
<1>3. ASSUME NEW op \in Nameable, NEW s \in SequenceValues, sequence_override(op, s) PROVE PsbtInv'
    <2> DEFINE t == request.sequence_overrides
    <2>1. PICK b : b = [o \in DOMAIN t \cup {op} |-> IF o = op THEN s ELSE t[o]]
        OBVIOUS
    <2>2. t \in Overrides
        BY <1>0 DEF Requests
    <2>3. PICK D \in SUBSET Outpoint : t \in [D -> SequenceValues]
        BY <2>2 DEF Overrides
    <2> HIDE DEF t
    <2>4. b \in [D \cup {op} -> SequenceValues] /\ D \cup {op} \in SUBSET Outpoint
        BY <2>1, <2>3 DEF Nameable
    <2>5. b \in Overrides
        BY <2>4 DEF Overrides
    <2>6. PICK r : r = [request EXCEPT !.sequence_overrides = b]
        OBVIOUS
    <2>7. Plain(r)
        BY <1>0, <2>5, <2>6 DEF Plain, Requests
    <2>8. Set(r)
        BY <1>3, <2>1, <2>6 DEF sequence_override, t
    <2> QED BY <2>7, <2>8, PlainKeeps
<1> QED BY <1>1, <1>2, <1>3

\* The invariant of a list, given what its elements are.
LEMMA ElementsSound ==
    ASSUME NEW r, r.must_spend \in Seq(Items), Distinct(r.must_spend), r.set = {x.op : x \in ToSet(r.must_spend)},
           \A x \in ToSet(r.must_spend) : ItemSound(x)
    PROVE  ListSound(r)
<1>1. r.set = {r.must_spend[i].op : i \in DOMAIN r.must_spend}
    BY OpsOfList
<1>2. \A i \in DOMAIN r.must_spend : ItemSound(r.must_spend[i])
    BY DEF ToSet
<1> QED BY <1>1, <1>2 DEF ListSound

\* add_utxos.
LEMMA AddUtxosKeeps ==
    ASSUME PsbtInv, NEW ops \in Seq(Nameable), add_utxos(ops)
    PROVE  PsbtInv'
<1>1. PICK r : r = Listed(request, ops)
    OBVIOUS
<1>2. ~request.replacing /\ Set(r) /\ RequestSound(request) /\ GraphSound
    BY <1>1 DEF add_utxos, PsbtInv
<1>3. More(r, request, ops)
    BY <1>1, <1>2, ListedMore DEF RequestSound
<1>4. ReplaceSound(r)
    BY <1>2, <1>3 DEF More, RequestSound, ReplaceSound
<1> QED BY <1>2, <1>3, <1>4, SetKeeps DEF RequestSound, More

\* add_planned_input.
LEMMA AddPlannedKeeps ==
    ASSUME PsbtInv, NEW op \in Nameable, NEW value \in Nat, NEW s \in SequenceValues \cup {None},
           Known(op) => value = TxOut(op).value, add_planned_input(Planned(op, value, s))
    PROVE  PsbtInv'
<1> DEFINE item == Planned(op, value, s)
           old == request.must_spend
<1>0. RequestSound(request) /\ request \in Requests /\ ~request.replacing
    BY DEF PsbtInv, RequestSound, add_planned_input
<1>1. item \in Items /\ item.op = op /\ ItemSound(item)
    BY DEF Planned, Items, Nameable, ItemSound
<1> HIDE DEF item
<1>2. CASE item.op \in request.set
    <2>1. PICK r : r = request
        OBVIOUS
    <2>2. Set(r) /\ RequestSound(r)
        BY <1>0, <1>2, <2>1 DEF add_planned_input, item
    <2> QED BY <2>2, SetKeeps
<1>3. CASE item.op \notin request.set
    <2>1. PICK r : r = [request EXCEPT !.set = @ \cup {item.op}, !.must_spend = Append(@, item)]
        OBVIOUS
    <2>2. Set(r)
        BY <1>3, <2>1 DEF add_planned_input, item
    <2>3. old \in Seq(Items) /\ Distinct(old) /\ request.set \in SUBSET Outpoint
          /\ request.set = {old[i].op : i \in DOMAIN old} /\ \A i \in DOMAIN old : ItemSound(old[i])
        BY <1>0 DEF RequestSound, ListSound, Requests
    <2>4. /\ r \in Requests /\ r.set = request.set \cup {item.op} /\ r.must_spend = Append(old, item)
          /\ r.replace = request.replace /\ r.replacing = request.replacing
        <3>1. Append(old, item) \in Seq(Items) /\ request.set \cup {item.op} \in SUBSET Outpoint
            BY <1>1, <2>3 DEF Nameable
        <3> DEFINE list == Append(old, item)
                   S == request.set \cup {item.op}
        <3>2. r = [request EXCEPT !.set = S, !.must_spend = list]
            BY <2>1
        <3> SUFFICES /\ r \in Requests /\ r.set = S /\ r.must_spend = list
                     /\ r.replace = request.replace /\ r.replacing = request.replacing
            OBVIOUS
        <3>3. list \in Seq(Items) /\ S \in SUBSET Outpoint
            BY <3>1
        <3> HIDE DEF list, S
        <3> QED BY <1>0, <3>2, <3>3 DEF Requests
    <2> DEFINE list == Append(old, item)
               n == Len(old)
    <2> HIDE DEF old
    <2>5. /\ DOMAIN list = 1..(n + 1) /\ list[n + 1] = item /\ n \in Nat /\ DOMAIN old = 1..n
          /\ \A i \in 1..n : list[i] = old[i]
        BY <1>1, <2>3
    <2> HIDE DEF list, n
    <2>6. \A i \in DOMAIN old : old[i].op # item.op
        BY <1>3, <2>3
    <2>7. \A i \in 1..(n + 1) : i \in 1..n \/ i = n + 1
        BY <2>5
    <2>8. Distinct(list)
        BY <2>3, <2>5, <2>6, <2>7 DEF Distinct
    <2>9. \A i \in DOMAIN list : ItemSound(list[i])
        BY <1>1, <2>3, <2>5, <2>7
    <2>10. r.set = {list[i].op : i \in DOMAIN list}
        <3>1. \A i \in DOMAIN list : list[i].op \in r.set
            BY <2>3, <2>4, <2>5, <2>7
        <3>2. \A o \in r.set : \E i \in DOMAIN list : list[i].op = o
            <4> TAKE o \in r.set
            <4>1. CASE o = item.op
                BY <2>5, <4>1
            <4>2. CASE o # item.op
                <5>1. PICK i \in DOMAIN old : old[i].op = o
                    BY <2>3, <2>4, <4>2
                <5>2. i \in DOMAIN list /\ list[i] = old[i]
                    BY <2>5, <5>1
                <5> QED BY <5>1, <5>2
            <4> QED BY <4>1, <4>2
        <3> QED BY <3>1, <3>2
    <2>11. ListSound(r)
        BY <2>4, <2>8, <2>9, <2>10 DEF ListSound, list, old
    <2>12. ReplaceSound(r)
        BY <1>0, <2>4 DEF RequestSound, ReplaceSound
    <2> QED BY <2>2, <2>4, <2>11, <2>12, SetKeeps DEF RequestSound
<1> QED BY <1>2, <1>3

\* remove_utxo.
LEMMA RemoveUtxoKeeps ==
    ASSUME PsbtInv, NEW op \in Nameable, remove_utxo(op)
    PROVE  PsbtInv'
<1> DEFINE old == request.must_spend
           list == Without(old, {op})
           S == request.set \ {op}
<1>0. RequestSound(request) /\ request \in Requests
    BY DEF PsbtInv, RequestSound
<1>1. PICK r : r = [request EXCEPT !.set = S, !.must_spend = list]
    OBVIOUS
<1>2. Set(r)
    BY <1>1 DEF remove_utxo
<1>3. old \in Seq(Items) /\ Distinct(old) /\ request.set \in SUBSET Outpoint
      /\ request.set = {old[i].op : i \in DOMAIN old} /\ \A i \in DOMAIN old : ItemSound(old[i])
    BY <1>0 DEF RequestSound, ListSound, Requests
<1> HIDE DEF old
<1>4. list \in Seq(Items) /\ ToSet(list) = {x \in ToSet(old) : x.op \notin {op}} /\ Distinct(list)
    BY <1>3, WithoutKeeps
<1>5. S \in SUBSET Outpoint
    BY <1>3
<1>6. request.set = {x.op : x \in ToSet(old)}
    BY <1>3, OpsOfList
<1>7. S = {x.op : x \in ToSet(list)}
    BY <1>4, <1>6
<1> HIDE DEF list, S
<1>8. /\ r \in Requests /\ r.set = S /\ r.must_spend = list
      /\ r.replace = request.replace /\ r.replacing = request.replacing
    BY <1>0, <1>1, <1>4, <1>5 DEF Requests
<1>9. \A x \in ToSet(list) : \E i \in DOMAIN old : x = old[i]
    BY <1>4 DEF ToSet
<1>10. ListSound(r)
    BY <1>3, <1>4, <1>7, <1>8, <1>9, ElementsSound
<1>11. ReplaceSound(r)
    <2>1. ASSUME r.replacing, NEW i \in DOMAIN list PROVE OfReplaced(r, list[i])
        <3>1. PICK j \in DOMAIN old : list[i] = old[j]
            BY <1>9 DEF ToSet
        <3>2. OfReplaced(request, old[j])
            BY <1>0, <1>8, <2>1, <3>1 DEF RequestSound, ReplaceSound, old
        <3> QED BY <1>8, <3>1, <3>2 DEF OfReplaced
    <2> QED BY <1>0, <1>8, <2>1 DEF RequestSound, ReplaceSound
<1> QED BY <1>2, <1>8, <1>10, <1>11, SetKeeps DEF RequestSound

\* replace_txs.
LEMMA ReplaceTxsKeeps ==
    ASSUME PsbtInv, NEW ts \in SUBSET Held, replace_txs(ts)
    PROVE  PsbtInv'
<1>0. RequestSound(request) /\ request \in Requests /\ GraphSound
    BY DEF PsbtInv, RequestSound
<1>1. PICK order \in SetToSeqs(ts) :
        LET left == Sanitized(ts, order)
            kept == Kept(left)
            cleared == [request EXCEPT !.replacing = TRUE, !.replace = left, !.must_spend = kept,
                                       !.set = {kept[i].op : i \in DOMAIN kept}]
        IN  Set(Listed(cleared, InputsOf(left, order)))
    BY DEF replace_txs
<1>2. order \in Seq(ts)
    <2>1. ts \subseteq DOMAIN txs /\ IsFiniteSet(DOMAIN txs)
        BY <1>0, FiniteUpTo DEF GraphSound, Held
    <2>2. Cardinality(ts) \in Nat
        BY <2>1, FS_Subset, FS_CardinalityType
    <2>3. order \in [1..Cardinality(ts) -> ts]
        BY DEF SetToSeqs
    <2> DEFINE n == Cardinality(ts)
    <2>4. n \in Nat /\ order \in [1..n -> ts]
        BY <2>2, <2>3
    <2> HIDE DEF n
    <2> QED BY <2>4
<1> DEFINE old == request.must_spend
           T(left) == {item \in ToSet(old) : item.planned /\ item.op[1] \notin left}
<1>3. PICK left : left = Sanitized(ts, order)
    OBVIOUS
<1>4. PICK kept : kept = Kept(left)
    OBVIOUS
<1>5. PICK S : S = {kept[i].op : i \in DOMAIN kept}
    OBVIOUS
<1>6. PICK cleared : cleared = [request EXCEPT !.replacing = TRUE, !.replace = left, !.must_spend = kept, !.set = S]
    OBVIOUS
<1>7. PICK ops : ops = InputsOf(left, order)
    OBVIOUS
<1>8. PICK q : q = Listed(cleared, ops)
    OBVIOUS
<1>9. Set(q)
    BY <1>1, <1>3, <1>4, <1>5, <1>6, <1>7, <1>8
<1>10. left \subseteq ts /\ left \subseteq Held /\ left \in SUBSET (DOMAIN txs) /\ left \in SUBSET Nat
    <2>1. left \subseteq ts
        BY <1>2, <1>3, SanitizedLeaves
    <2> QED BY <1>0, <2>1 DEF Held, GraphSound
<1>11. old \in Seq(Items) /\ Distinct(old) /\ \A i \in DOMAIN old : ItemSound(old[i])
    BY <1>0 DEF RequestSound, ListSound, Requests
<1>12. kept = Only(old, T(left))
    BY <1>4 DEF Kept
<1> HIDE DEF old
<1>13. kept \in Seq(Items) /\ Distinct(kept) /\ \A i \in DOMAIN kept : ItemSound(kept[i]) /\ kept[i].planned
    <2>1. kept \in Seq(Items) /\ \E p : Picks(kept, p, old, Len(old), T(left))
        BY <1>11, <1>12, OnlyPicks
    <2>2. PICK p : Picks(kept, p, old, Len(old), T(left))
        BY <2>1
    <2>3. \A i \in DOMAIN kept : p[i] \in DOMAIN old /\ kept[i] = old[p[i]] /\ kept[i] \in T(left)
        BY <1>11, <2>2 DEF Picks
    <2>4. \A i, j \in DOMAIN kept : p[i] = p[j] => i = j
        BY <2>2 DEF Picks
    <2>5. Distinct(kept)
        BY <1>11, <2>3, <2>4 DEF Distinct
    <2>6. \A i \in DOMAIN kept : ItemSound(kept[i]) /\ kept[i].planned
        BY <1>11, <2>3
    <2> QED BY <2>1, <2>5, <2>6
<1> HIDE DEF T
<1>14. S \in SUBSET Outpoint
    <2>1. \A i \in DOMAIN kept : kept[i] \in Items
        BY <1>13
    <2> QED BY <1>5, <2>1 DEF Items
<1>15. /\ cleared \in Requests /\ cleared.replacing = TRUE /\ cleared.replace = left
       /\ cleared.must_spend = kept /\ cleared.set = S
    BY <1>0, <1>6, <1>10, <1>13, <1>14 DEF Requests
<1>16. ListSound(cleared)
    BY <1>5, <1>13, <1>15 DEF ListSound
<1>17. ops \in Seq({op \in Nameable : \E t \in left : op \in Spent(txs[t])})
    BY <1>0, <1>2, <1>7, <1>10, InputsListed
<1>18. ops \in Seq(Nameable) /\ \A op \in ToSet(ops) : \E t \in left : op \in Spent(txs[t])
    BY <1>17 DEF ToSet
<1>19. More(q, cleared, ops)
    BY <1>0, <1>8, <1>15, <1>16, <1>18, ListedMore
<1>20. ReplaceSound(q)
    <2>1. q.replace = left /\ q.replacing = TRUE
        BY <1>15, <1>19 DEF More
    <2>2. ASSUME NEW i \in DOMAIN q.must_spend PROVE OfReplaced(q, q.must_spend[i])
        <3>1. CASE \E j \in DOMAIN kept : q.must_spend[i] = kept[j]
            BY <1>13, <3>1 DEF OfReplaced
        <3>2. CASE \E op \in ToSet(ops) : q.must_spend[i].op = op
            BY <1>18, <2>1, <3>2 DEF OfReplaced
        <3> QED BY <1>15, <1>19, <3>1, <3>2 DEF More
    <2> QED BY <1>10, <2>1, <2>2 DEF ReplaceSound
<1> QED BY <1>9, <1>19, <1>20, SetKeeps DEF RequestSound, More

\* Whatever parameter is collected.
LEMMA AnyParameterKeeps ==
    ASSUME PsbtInv, AnyParameter
    PROVE  PsbtInv'
<1>1. CASE \E ops \in Seq(Nameable) : add_utxos(ops)
    BY <1>1, AddUtxosKeeps
<1>2. CASE \E op \in Nameable, value \in Nat, s \in SequenceValues \cup {None} :
             (Known(op) => value = TxOut(op).value) /\ add_planned_input(Planned(op, value, s))
    BY <1>2, AddPlannedKeeps
<1>3. CASE \E op \in Nameable : remove_utxo(op)
    BY <1>3, RemoveUtxoKeeps
<1>4. CASE \E ts \in SUBSET Held : replace_txs(ts)
    BY <1>4, ReplaceTxsKeeps
<1> QED BY <1>1, <1>2, <1>3, <1>4, ScalarsKeep, TablesKeep DEF AnyParameter

-----------------------------------------------------------------------------
(***************************************************************************)
(* The step that drafts.                                                   *)
(***************************************************************************)
\* The sums a draft is judged by, in a state and in the next.
LEMMA DraftSums ==
    /\ \A d : DraftFee(d) = SumOver([i \in DOMAIN d.tx.ins |-> WorthIn(d, d.tx.ins[i].op)]) - SumOver(Amounts(d.tx.outs))
    /\ \A ts : FeeOf(ts) = SumOver([i \in DOMAIN SetToSeq(ts) |-> calculate_fee(txs[SetToSeq(ts)[i]])])
BY DEF DraftFee, FeeOf, SumOf, SumOver, Amounts

\* The same, of the next state.
LEMMA DraftSumsNext ==
    (/\ \A d : DraftFee(d) = SumOver([i \in DOMAIN d.tx.ins |-> WorthIn(d, d.tx.ins[i].op)]) - SumOver(Amounts(d.tx.outs))
     /\ \A ts : FeeOf(ts) = SumOver([i \in DOMAIN SetToSeq(ts) |-> calculate_fee(txs[SetToSeq(ts)[i]])]))'
BY DraftSums, PTL

\* A wallet that did not change judges a draft the same.
LEMMA DraftUnchanged ==
    ASSUME UNCHANGED wallet, NEW d
    PROVE  DraftSound(d)' = DraftSound(d)
<1>0. UNCHANGED <<txs, tip, locked>>
    BY DEF wallet
<1>1. /\ Canonical' = Canonical /\ list_unspent' = list_unspent
      /\ \A op : Known(op)' = Known(op) /\ TxOut(op)' = TxOut(op) /\ Ours(op)' = Ours(op)
    BY <1>0, ViewUnchanged
<1>2. SpendsOnce(d)' = SpendsOnce(d) /\ Conflicts(d)' = Conflicts(d)
    BY <1>0, <1>1 DEF SpendsOnce, Conflicts, Spent
<1>3. TxSound(d.tx, Len(txs) + 1)' = TxSound(d.tx, Len(txs) + 1)
    BY <1>0 DEF TxSound
<1>4. \A t : Confirmed(t)' = Confirmed(t)
    BY <1>0 DEF Confirmed
<1>5. Minable(d)' = Minable(d)
    BY <1>0, <1>1, <1>4 DEF Minable
<1>6. \A t : Descendants(t)' = Descendants(t)
    BY <1>0 DEF Descendants, Ancestors, AncestorsIn, Parents, Held
<1>7. Evicted(d.tx)' = Evicted(d.tx)
    <2> DEFINE direct == {t \in Canonical : ~Confirmed(t) /\ Spent(txs[t]) \cap Spent(d.tx) # {}}
    <2>1. direct' = direct
        BY <1>0, <1>1, <1>4 DEF Spent
    <2>2. (UNION {Descendants(t) : t \in direct})' = UNION {Descendants(t) : t \in direct}
        <3> HIDE DEF direct
        <3>1. \A x : x \in (UNION {Descendants(t) : t \in direct})' <=> x \in UNION {Descendants(t) : t \in direct}
            BY <1>6, <2>1
        <3> QED BY <3>1
    <2>3. Evicted(d.tx) = direct \cup UNION {Descendants(t) : t \in direct}
        BY DEF Evicted
    <2>4. Evicted(d.tx)' = direct' \cup (UNION {Descendants(t) : t \in direct})'
        BY DEF Evicted
    <2> HIDE DEF direct
    <2> QED BY <2>1, <2>2, <2>3, <2>4
<1>8. \A tx : FeeKnown(tx)' = FeeKnown(tx) /\ calculate_fee(tx)' = calculate_fee(tx)
    <2>1. \A tx : ValuesOf(tx.ins)' = ValuesOf(tx.ins)
        BY <1>1 DEF ValuesOf
    <2> QED BY <1>1, <2>1, FeeSum, FeeSumNext DEF FeeKnown, Spent
<1>9. \A t : HasFee(txs[t])' = HasFee(txs[t])
    BY <1>0, <1>8 DEF HasFee
<1>10. \A ts : FeeOf(ts)' = FeeOf(ts)
    BY <1>0, <1>8, DraftSums, DraftSumsNext
<1>11. \A op : WorthIn(d, op)' = WorthIn(d, op)
    BY <1>1 DEF WorthIn
<1>12. DraftFee(d)' = DraftFee(d)
    BY <1>11, DraftSums, DraftSumsNext
<1>13. Entangled(d)' = Entangled(d)
    BY <1>0, <1>1 DEF Entangled, Spent
<1>14. Pays(d)' = Pays(d)
    BY <1>0, <1>1, <1>7, <1>9, <1>10, <1>12, <1>13 DEF Pays, Spent, WeightOf, Weight, CountWeight
<1> QED BY <1>2, <1>3, <1>5, <1>14 DEF DraftSound

\* The parameters a caller starts with.
LEMMA DefaultSound ==
    RequestSound(Default) /\ Default \in Requests
<1>1. Default \in Requests
    <2>1. <<>> \in Overrides
        <3>1. <<>> \in [{} -> SequenceValues] /\ {} \in SUBSET Outpoint
            OBVIOUS
        <3> QED BY <3>1 DEF Overrides
    <2>2. Blocks(0) \in TimeLocks
        BY DEF Blocks, TimeLocks
    <2> QED BY <2>1, <2>2 DEF Default, Requests
<1>2. ListSound(Default) /\ ReplaceSound(Default)
    BY DEF Default, ListSound, ReplaceSound, Distinct
<1> QED BY <1>1, <1>2 DEF RequestSound

\* The same, in the next state.
LEMMA DefaultSoundNext == RequestSound(Default)'
BY DefaultSound, PTL

\* A draft that fails consumes the parameters.
LEMMA FailKeeps ==
    ASSUME PsbtInv, Fail
    PROVE  PsbtInv'
<1>1. UNCHANGED <<txs, tip, locked, paths>> /\ request' = Default /\ drafted' = Nothing
    BY DEF Fail, wallet
<1>2. GraphSound' /\ tip' \in Nat /\ PathsSound'
    <2>1. GraphSound' = GraphSound /\ PathsSound' = PathsSound
        BY <1>1, ViewUnchanged DEF PathsSound
    <2> QED BY <1>1, <2>1 DEF PsbtInv
<1>3. RequestSound(request)'
    BY <1>1, DefaultSoundNext
<1>4. drafted'.done = FALSE
    BY <1>1 DEF Nothing
<1> QED BY <1>2, <1>3, <1>4 DEF PsbtInv

\* A draft that is sound keeps the invariant.
LEMMA DraftKeeps ==
    ASSUME PsbtInv, NEW s, NEW rate, NEW floor, Draft(s, rate, floor), NEW d,
           d = DraftOf(s, Outputs(s, rate, floor)), DraftSound(d)
    PROVE  PsbtInv'
<1>1. UNCHANGED <<txs, tip, locked, paths>> /\ UNCHANGED wallet /\ request' = Default /\ drafted' = d
    BY DEF Draft, wallet, DraftOf, TxIns
<1>2. GraphSound' /\ tip' \in Nat /\ PathsSound'
    <2>1. GraphSound' = GraphSound /\ PathsSound' = PathsSound
        BY <1>1, ViewUnchanged DEF PathsSound
    <2> QED BY <1>1, <2>1 DEF PsbtInv
<1>3. RequestSound(request)'
    BY <1>1, DefaultSoundNext
<1>4. DraftSound(d)'
    BY <1>1, DraftUnchanged
<1>5. DraftSound(drafted)'
    BY <1>1, <1>4
<1> QED BY <1>2, <1>3, <1>5 DEF PsbtInv

\* A selection is the list and some candidates, and it is funded.
LEMMA SelectedDrawn ==
    ASSUME Ready, NEW may, Candidates(may), NEW rate, NEW floor, NEW s \in Selected(may, rate, floor)
    PROVE  Drawn(s, may) /\ Funds(s, rate, floor) /\ s \in Seq(Inputs)
<1>1. Funds(s, rate, floor) /\ \E ops \in IF request.coin_selection = "All" THEN {may} ELSE SUBSET may :
                                  s = MustSpend \o WalletInputs(ops)
    BY DEF Selected
<1>2. PICK ops \in SUBSET may : s = MustSpend \o WalletInputs(ops)
    BY <1>1
<1>3. may \subseteq list_unspent \ request.set
    BY DEF Candidates, filter_spendable
<1>4. Drawn(s, may)
    BY <1>2, <1>3, DrawnList
<1> QED BY <1>1, <1>4 DEF Drawn

\* What is promised of every draft, whatever it replaces.
LEMMA DraftCommon ==
    ASSUME Ready, NEW may, Candidates(may), NEW rate \in Nat, NEW floor \in Int, NEW s \in Selected(may, rate, floor),
           NEW d, d = DraftOf(s, Outputs(s, rate, floor))
    PROVE  /\ IsDraft(d, s, Outputs(s, rate, floor)) /\ Drawn(s, may) /\ Funds(s, rate, floor)
           /\ TxSound(d.tx, Len(txs) + 1) /\ d.tx.height = 0
           /\ SpendsOnce(d) /\ Minable(d)
<1>1. Drawn(s, may) /\ Funds(s, rate, floor) /\ s \in Seq(Inputs)
    BY SelectedDrawn
<1>2. PICK outs : outs = Outputs(s, rate, floor)
    OBVIOUS
<1>3. IsDraft(d, s, outs)
    BY <1>1, <1>2, DraftFields
<1>4. outs \in Seq(OutputData)
    <2>1. request \in Requests
        BY DEF Ready, RequestSound
    <2> QED BY <1>1, <1>2, <2>1, FundedPays
<1>5. TxSound(d.tx, Len(txs) + 1) /\ d.tx.height = 0
    BY <1>1, <1>3, <1>4, DraftIsTx
<1>6. SpendsOnce(d)
    BY <1>1, <1>3, DraftSpends
<1>7. Minable(d)
    BY <1>1, <1>3, DraftMinable
<1> QED BY <1>1, <1>2, <1>3, <1>5, <1>6, <1>7

\* Either drafting fails, or it makes a draft of a selection.
LEMMA SelectorSteps ==
    ASSUME NEW may, NEW rate, NEW floor, FromSelector(may, rate, floor)
    PROVE  Fail \/ \E s \in Selected(may, rate, floor) : Draft(s, rate, floor)
BY DEF FromSelector

\* The candidates are what the wallet may spend.
LEMMA MayAreCandidates ==
    ASSUME NEW allowed
    PROVE  Candidates(MaySpend(allowed)) /\ MaySpend(allowed) \subseteq allowed
BY DEF Candidates, MaySpend

\* create_psbt.
LEMMA CreatePsbtKeeps ==
    ASSUME PsbtInv, create_psbt
    PROVE  PsbtInv'
<1> DEFINE may == MaySpend(list_unspent)
           rate == request.fee_rate
<1>1. CASE Fail
    BY <1>1, FailKeeps
<1>2. CASE ~Fail
    <2>1. ~request.replacing /\ ~MustSpendFails /\ FromSelector(may, rate, -1)
        BY <1>2 DEF create_psbt
    <2>2. Ready /\ rate \in Nat /\ request.replace = {}
        BY <2>1 DEF Ready, PsbtInv, RequestSound, ReplaceSound, Requests
    <2>3. PICK m : m = may
        OBVIOUS
    <2>4. PICK k : k = rate
        OBVIOUS
    <2>5. Candidates(m) /\ k \in Nat /\ FromSelector(m, k, -1)
        BY <2>1, <2>2, <2>3, <2>4, MayAreCandidates
    <2>6. PICK s \in Selected(m, k, -1) : Draft(s, k, -1)
        BY <1>2, <2>5, SelectorSteps
    <2>7. PICK d : d = DraftOf(s, Outputs(s, k, -1))
        OBVIOUS
    <2>8. /\ TxSound(d.tx, Len(txs) + 1) /\ d.tx.height = 0
          /\ SpendsOnce(d) /\ Minable(d)
        BY <2>2, <2>5, <2>6, <2>7, DraftCommon
    <2>9. d.of = request
        BY <2>7 DEF DraftOf
    <2>10. Conflicts(d) /\ Pays(d)
        BY <2>2, <2>9 DEF Conflicts, Pays
    <2>11. DraftSound(d)
        BY <2>8, <2>10 DEF DraftSound
    <2> QED BY <2>6, <2>7, <2>11, DraftKeeps
<1> QED BY <1>1, <1>2

\* replace_by_fee.
LEMMA ReplaceByFeeKeeps ==
    ASSUME PsbtInv, replace_by_fee
    PROVE  PsbtInv'
<1> DEFINE gone == ToReplace
           allowed == {op \in list_unspent : op[1] \notin gone /\ Confirmed(op[1])}
           may == MaySpend(allowed)
           rate == Max({request.fee_rate, OriginalRate})
<1>1. CASE Fail
    BY <1>1, FailKeeps
<1>2. CASE ~Fail
    <2>1. request.replacing /\ ~MustSpendFails /\ ~ReplacementRefused /\ FromSelector(may, rate, Floor)
        BY <1>2 DEF replace_by_fee
    <2>2. Ready
        BY <2>1 DEF Ready, PsbtInv
    <2>3. rate \in Nat
        BY <2>1, <2>2, RateIs
    <2>4. Candidates(may) /\ may \subseteq allowed
        BY MayAreCandidates
    <2>5. PICK m : m = may
        OBVIOUS
    <2>6. PICK k : k = rate
        OBVIOUS
    <2>7. PICK f : f = Floor
        OBVIOUS
    <2>8. Candidates(m) /\ (\A op \in m : op[1] \notin ToReplace) /\ k \in Nat /\ FromSelector(m, k, f)
        <3>1. \A op \in m : op[1] \notin ToReplace
            BY <2>4, <2>5
        <3> HIDE DEF may, rate
        <3> QED BY <2>1, <2>3, <2>4, <2>5, <2>6, <2>7, <3>1
    <2> HIDE DEF may, rate, allowed, gone
    <2>9. f \in Nat
        <3>1. request.replace \in SUBSET Paying /\ GraphSound
            <4>1. request.replace \subseteq DOMAIN txs
                BY <2>2 DEF Ready, RequestSound, ReplaceSound, Held
            <4> QED BY <2>1, <2>2, <4>1 DEF ReplacementRefused, Paying, Ready
        <3> DEFINE B == {t \in DescendantsOf : HasFee(txs[t])}
        <3>2. B \in SUBSET Paying
            <4>1. \A t : Descendants(t) \subseteq DOMAIN txs
                BY DEF Descendants
            <4>2. DescendantsOf \subseteq DOMAIN txs
                BY <4>1, Zenon DEF DescendantsOf
            <4> QED BY <4>2 DEF Paying
        <3>3. Floor = FeeOf(request.replace) + FeeOf(B)
            BY DEF Floor
        <3> HIDE DEF B
        <3>4. FeeOf(request.replace) \in Nat /\ FeeOf(B) \in Nat
            BY <3>1, <3>2, FeesSum
        <3> QED BY <2>7, <3>3, <3>4
    <2>10. PICK s \in Selected(m, k, f) : Draft(s, k, f)
        BY <1>2, <2>8, SelectorSteps
    <2>11. PICK d : d = DraftOf(s, Outputs(s, k, f))
        OBVIOUS
    <2>12. /\ IsDraft(d, s, Outputs(s, k, f)) /\ Drawn(s, m) /\ Funds(s, k, f)
           /\ TxSound(d.tx, Len(txs) + 1) /\ d.tx.height = 0
           /\ SpendsOnce(d) /\ Minable(d)
        BY <2>2, <2>8, <2>9, <2>10, <2>11, DraftCommon
    <2>13. Conflicts(d)
        <3>1. \A t \in request.replace : Spent(txs[t]) \cap request.set # {}
            BY <2>1 DEF ReplacementRefused
        <3> QED BY <2>2, <2>12, <3>1, DraftConflicts
    <2>14. Pays(d)
        BY <2>1, <2>2, <2>7, <2>8, <2>12, DraftPays
    <2>15. DraftSound(d)
        BY <2>12, <2>13, <2>14 DEF DraftSound
    <2> QED BY <2>10, <2>11, <2>15, DraftKeeps
<1> QED BY <1>1, <1>2

-----------------------------------------------------------------------------
(***************************************************************************)
(* What happens meanwhile.                                                 *)
(***************************************************************************)
\* The graph loses nothing, and the outputs and inputs of a transaction stay.
Grown ==
    /\ Len(txs) \in Nat /\ DOMAIN txs = 1..Len(txs)
    /\ Len(txs') \in Nat /\ DOMAIN txs' = 1..Len(txs') /\ Len(txs) <= Len(txs')
    /\ \A t \in DOMAIN txs : /\ txs'[t].ins = txs[t].ins /\ txs'[t].outs = txs[t].outs
                             /\ txs'[t].floating = txs[t].floating

\* A request stays sound while the graph grows.
LEMMA GrownKeeps ==
    ASSUME Grown, NEW r, RequestSound(r)
    PROVE  RequestSound(r)'
<1>1. /\ Len(txs) \in Nat /\ DOMAIN txs = 1..Len(txs)
      /\ Len(txs') \in Nat /\ DOMAIN txs' = 1..Len(txs') /\ Len(txs) <= Len(txs')
    BY DEF Grown
<1>2. \A t \in DOMAIN txs : /\ t \in DOMAIN txs' /\ txs'[t].ins = txs[t].ins /\ txs'[t].outs = txs[t].outs
                            /\ txs'[t].floating = txs[t].floating
    BY <1>1 DEF Grown
<1>3. ASSUME NEW op \in Nameable
      PROVE  (op \in Nameable)' /\ (Known(op)' => Known(op) /\ TxOut(op)' = TxOut(op))
    <2>1. op \in Outpoint /\ op[1] \in 0..Len(txs)
        BY DEF Nameable
    <2>2. op[1] \in 0..Len(txs')
        BY <1>1, <2>1
    <2>3. op[1] \in DOMAIN txs' => op[1] \in DOMAIN txs
        BY <1>1, <2>1
    <2> QED BY <1>2, <2>1, <2>2, <2>3 DEF Nameable, Known, TxOut
<1>4. ListSound(r)'
    <2>1. ListSound(r)
        BY DEF RequestSound
    <2>2. \A x : ItemSound(x) => ItemSound(x)'
        BY <1>3 DEF ItemSound
    <2> QED BY <2>1, <2>2 DEF ListSound, Distinct
<1>5. ReplaceSound(r)'
    <2>1. ReplaceSound(r)
        BY DEF RequestSound
    <2>2. r.replace \subseteq Held /\ Held \subseteq Held'
        BY <1>2, <2>1 DEF ReplaceSound, Held
    <2>3. \A t \in r.replace : Spent(txs[t])' = Spent(txs[t])
        BY <1>2, <2>2 DEF Held, Spent
    <2>4. \A x : OfReplaced(r, x) => OfReplaced(r, x)'
        BY <2>3 DEF OfReplaced
    <2> QED BY <2>1, <2>2, <2>4 DEF ReplaceSound
<1> QED BY <1>4, <1>5 DEF RequestSound

\* Anything that keeps the graph sound and lets it grow keeps the invariant.
LEMMA MeanwhileKeeps ==
    ASSUME PsbtInv, drafted' = Nothing, UNCHANGED <<paths, request>>, GraphSound', tip' \in Nat, Grown
    PROVE  PsbtInv'
<1>1. PICK r : r = request
    OBVIOUS
<1>2. RequestSound(r)'
    BY <1>1, GrownKeeps DEF PsbtInv
<1>3. RequestSound(request)'
    BY <1>1, <1>2
<1>4. PathsSound'
    BY DEF PsbtInv, PathsSound
<1>5. drafted'.done = FALSE
    BY DEF Nothing
<1> QED BY <1>3, <1>4, <1>5 DEF PsbtInv

\* A transaction is seen.
LEMMA SeenTxKeeps ==
    ASSUME PsbtInv, NEW tx, TxSound(tx, Len(txs) + 1), tx.height = 0, Meanwhile(Seen(tx))
    PROVE  PsbtInv'
<1>1. txs' = Append(txs, tx) /\ UNCHANGED <<tip, paths, request>> /\ drafted' = Nothing /\ GraphSound /\ tip \in Nat
    BY DEF Meanwhile, Seen, PsbtInv
<1>2. GraphSound'
    BY <1>1, SeenKeeps
<1>3. Grown
    <2>1. txs \in Seq(Transactions) /\ tx \in Transactions
        BY <1>1 DEF GraphSound, TxSound
    <2> QED BY <1>1, <2>1 DEF Grown
<1> QED BY <1>1, <1>2, <1>3, MeanwhileKeeps

\* A block comes.
LEMMA MineTxKeeps ==
    ASSUME PsbtInv, NEW t \in DOMAIN txs, Meanwhile(Mine(t))
    PROVE  PsbtInv'
<1>1. Mine(t) /\ UNCHANGED <<paths, request>> /\ drafted' = Nothing /\ GraphSound /\ tip \in Nat
    BY DEF Meanwhile, PsbtInv
<1>2. GraphSound' /\ tip' \in Nat
    BY <1>1, MineKeeps
<1>3. Grown
    <2>1. txs \in Seq(Transactions) /\ \A u \in DOMAIN txs : txs[u] \in Transactions
        BY <1>1 DEF GraphSound
    <2>2. txs' = [u \in DOMAIN txs |-> IF u \in {t} \cup Ancestors[t] /\ ~Confirmed(u)
                                       THEN [txs[u] EXCEPT !.height = tip + 1] ELSE txs[u]]
        BY <1>1 DEF Mine
    <2>3. \A x \in Transactions : LET y == [x EXCEPT !.height = tip + 1]
                                  IN  y.ins = x.ins /\ y.outs = x.outs /\ y.floating = x.floating
        BY DEF Transactions
    <2>4. \A u \in DOMAIN txs : /\ txs'[u].ins = txs[u].ins /\ txs'[u].outs = txs[u].outs
                                /\ txs'[u].floating = txs[u].floating
        BY <2>1, <2>2, <2>3
    <2>5. DOMAIN txs' = DOMAIN txs /\ txs' \in Seq(Transactions)
        BY <1>2, <2>2 DEF GraphSound
    <2>6. Len(txs) \in Nat /\ DOMAIN txs = 1..Len(txs) /\ Len(txs') \in Nat /\ DOMAIN txs' = 1..Len(txs')
        BY <2>1, <2>5
    <2>7. Len(txs) <= Len(txs')
        BY <2>5, <2>6
    <2> QED BY <2>4, <2>6, <2>7 DEF Grown
<1> QED BY <1>1, <1>2, <1>3, MeanwhileKeeps

\* An outpoint is locked or unlocked, or nothing happens to the graph.
LEMMA SameGraphKeeps ==
    ASSUME PsbtInv, UNCHANGED <<txs, tip, paths, request>>, drafted' = Nothing
    PROVE  PsbtInv'
<1>1. GraphSound /\ tip \in Nat
    BY DEF PsbtInv
<1>2. GraphSound'
    BY <1>1, ViewUnchanged
<1>3. Grown
    <2>1. txs \in Seq(Transactions)
        BY <1>1 DEF GraphSound
    <2> QED BY <2>1 DEF Grown
<1> QED BY <1>1, <1>2, <1>3, MeanwhileKeeps

\* Nothing happens.
LEMMA PsbtIdle ==
    ASSUME PsbtInv, UNCHANGED psbt_vars
    PROVE  PsbtInv'
<1>1. UNCHANGED wallet /\ UNCHANGED <<txs, tip, locked, paths, request, drafted>> /\ GraphSound /\ tip \in Nat
    BY DEF psbt_vars, wallet, PsbtInv
<1>2. GraphSound' /\ tip' \in Nat /\ PathsSound'
    <2>1. GraphSound' = GraphSound /\ PathsSound' = PathsSound
        BY <1>1, ViewUnchanged DEF PathsSound
    <2> QED BY <1>1, <2>1 DEF PsbtInv
<1>3. Grown
    <2>1. txs \in Seq(Transactions)
        BY <1>1 DEF GraphSound
    <2> QED BY <1>1, <2>1 DEF Grown
<1>4. PICK r : r = request
    OBVIOUS
<1>5. RequestSound(r)'
    BY <1>3, <1>4, GrownKeeps DEF PsbtInv
<1>6. RequestSound(request)'
    BY <1>1, <1>4, <1>5
<1>7. PICK d : d = drafted
    OBVIOUS
<1>8. DraftSound(d)' = DraftSound(d)
    BY <1>1, DraftUnchanged
<1>9. drafted'.done => DraftSound(drafted)'
    BY <1>1, <1>7, <1>8 DEF PsbtInv
<1> QED BY <1>2, <1>6, <1>9 DEF PsbtInv

\* The invariant is inductive.
LEMMA PsbtInvNext == PsbtInv /\ [PsbtNext]_psbt_vars => PsbtInv'
<1> SUFFICES ASSUME PsbtInv, [PsbtNext]_psbt_vars PROVE PsbtInv'
    OBVIOUS
<1>1. CASE AnyParameter
    BY <1>1, AnyParameterKeeps
<1>2. CASE create_psbt
    BY <1>2, CreatePsbtKeeps
<1>3. CASE replace_by_fee
    BY <1>3, ReplaceByFeeKeeps
<1>4. CASE broadcast
    <2>1. PICK tx : tx = drafted.tx
        OBVIOUS
    <2>2. TxSound(tx, Len(txs) + 1) /\ tx.height = 0
        BY <1>4, <2>1 DEF broadcast, PsbtInv, DraftSound
    <2>3. Meanwhile(Seen(tx))
        BY <1>4, <2>1 DEF broadcast
    <2> QED BY <2>2, <2>3, SeenTxKeeps
<1>5. ASSUME NEW tx \in Transactions, tx.height = 0, TxSound(tx, Len(txs) + 1), Meanwhile(Seen(tx)) PROVE PsbtInv'
    BY <1>5, SeenTxKeeps
<1>6. ASSUME NEW t \in DOMAIN txs, Meanwhile(Mine(t)) PROVE PsbtInv'
    BY <1>6, MineTxKeeps
<1>7. ASSUME NEW op, Meanwhile(lock_outpoint(op)) \/ Meanwhile(unlock_outpoint(op)) PROVE PsbtInv'
    <2>1. UNCHANGED <<txs, tip, paths, request>> /\ drafted' = Nothing
        BY <1>7 DEF Meanwhile, lock_outpoint, unlock_outpoint
    <2> QED BY <2>1, SameGraphKeeps
<1>8. CASE UNCHANGED psbt_vars
    BY <1>8, PsbtIdle
<1> QED BY <1>1, <1>2, <1>3, <1>4, <1>5, <1>6, <1>7, <1>8 DEF PsbtNext

\* It holds initially.
LEMMA PsbtInvInit == PsbtStart => PsbtInv
<1> SUFFICES ASSUME PsbtStart PROVE PsbtInv
    OBVIOUS
<1>1. GraphSound /\ tip \in Nat /\ PathsSound /\ request = Default /\ drafted = Nothing
    BY SpendingAssumption DEF PsbtStart, PsbtInit
<1>2. drafted.done = FALSE
    BY <1>1 DEF Nothing
<1> QED BY <1>1, <1>2, DefaultSound DEF PsbtInv

\* It holds of every behaviour.
LEMMA PsbtInvHolds == PsbtSpec => []PsbtInv
BY PsbtInvInit, PsbtInvNext, PTL DEF PsbtSpec

-----------------------------------------------------------------------------
(***************************************************************************)
(* The theorems.                                                           *)
(***************************************************************************)
\* create_psbt and replace_by_fee never list a coin twice, and what they add to
\* the caller's list is unspent and unlocked when the transaction is drafted,
\* whatever came between the calls that collected the parameters.
THEOREM DraftsSpendOnce == PsbtSpec => []DraftSpendsOnce
<1>1. PsbtInv => DraftSpendsOnce
    BY DEF PsbtInv, DraftSound, DraftSpendsOnce
<1> QED BY <1>1, PsbtInvHolds, PTL

\* What replace_by_fee drafts conflicts with every transaction it replaces,
\* whatever was listed and removed after replace_txs.
THEOREM ReplacementsConflict == PsbtSpec => []ReplacementConflicts
<1>1. PsbtInv => ReplacementConflicts
    BY DEF PsbtInv, DraftSound, ReplacementConflicts
<1> QED BY <1>1, PsbtInvHolds, PTL

\* What replace_by_fee drafts pays for all it evicts and for its own relay, and
\* spends nothing that goes with what it replaces.
THEOREM ReplacementsPay == PsbtSpec => []ReplacementPays
<1>1. PsbtInv => ReplacementPays
    BY DEF PsbtInv, DraftSound, ReplacementPays
<1> QED BY <1>1, PsbtInvHolds, PTL

\* What is drafted with the locks the chain grants can be mined in the next block.
THEOREM DraftsMinable == PsbtSpec => []MinableNext
<1>1. PsbtInv => MinableNext
    BY DEF PsbtInv, DraftSound, MinableNext
<1> QED BY <1>1, PsbtInvHolds, PTL
==============================================================================

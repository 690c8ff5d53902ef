---------------------------- MODULE Spending_proofs ----------------------------
(***************************************************************************)
(* Lemmas both ways to spend need: what the lists of coins hold, that the  *)
(* canonical view of a sound graph is closed under ancestors and free of   *)
(* conflicts, that the graph stays sound, and sums of amounts.             *)
(***************************************************************************)
EXTENDS Spending, Sums_proofs, SequenceTheorems

-----------------------------------------------------------------------------
(***************************************************************************)
(* Functions defined by recursion over the positions of a sequence.        *)
(***************************************************************************)

\* A function that starts with base and follows the step, up to n.
Follows(f, n, S, base, Step) ==
    f \in [0..n -> S] /\ f[0] = base /\ \A i \in 1..n : f[i] = Step[i][f[i - 1]]

\* A recursion with a step in the set of values defines a function.
LEMMA RecursionDefines ==
    ASSUME NEW n \in Nat, NEW S, NEW base \in S, NEW Step \in [1..n -> [S -> S]]
    PROVE  \E f : Follows(f, n, S, base, Step)
<1> DEFINE Fine(m) == \E f : Follows(f, m, S, base, Step)
           T == {m \in 0..n : ~Fine(m)}
<1>1. SUFFICES ASSUME ~Fine(n) PROVE FALSE
    OBVIOUS
<1>2. T \subseteq Nat /\ T # {}
    BY <1>1
<1>3. PICK m \in T : \A y \in T : m <= y
    BY <1>2, LeastNatural
<1>4. Fine(0)
    <2> DEFINE g == [i \in 0..0 |-> base]
    <2>1. g \in [0..0 -> S] /\ g[0] = base /\ \A i \in 1..0 : g[i] = Step[i][g[i - 1]]
        OBVIOUS
    <2> QED BY <2>1 DEF Follows
<1>5. m \in 1..n /\ m - 1 \in 0..n /\ ~(m <= m - 1)
    BY <1>3, <1>4
<1>6. PICK f : Follows(f, m - 1, S, base, Step)
    BY <1>3, <1>5
<1> DEFINE g == [i \in 0..m |-> IF i = m THEN Step[m][f[m - 1]] ELSE f[i]]
<1>7. Follows(g, m, S, base, Step)
    <2>1. f \in [0..(m - 1) -> S] /\ f[0] = base /\ \A i \in 1..(m - 1) : f[i] = Step[i][f[i - 1]]
        BY <1>6 DEF Follows
    <2>2. f[m - 1] \in S /\ Step[m] \in [S -> S]
        BY <1>5, <2>1
    <2>3. g \in [0..m -> S]
        BY <1>5, <2>1, <2>2
    <2>4. g[0] = base
        BY <1>5, <2>1
    <2>5. ASSUME NEW i \in 1..m PROVE g[i] = Step[i][g[i - 1]]
        <3>1. CASE i = m
            BY <1>5, <3>1
        <3>2. CASE i # m
            <4>1. i \in 1..(m - 1) /\ i - 1 \in 0..m /\ i - 1 # m /\ i \in 0..m
                BY <1>5, <3>2
            <4>2. g[i] = f[i] /\ g[i - 1] = f[i - 1]
                BY <3>2, <4>1
            <4> QED BY <2>1, <4>1, <4>2
        <3> QED BY <3>1, <3>2
    <2> QED BY <2>3, <2>4, <2>5 DEF Follows
<1> QED BY <1>3, <1>7

-----------------------------------------------------------------------------
(***************************************************************************)
(* Lists.                                                                  *)
(***************************************************************************)

\* r lists the elements of s[1..n] that are in T, at the places p.
Picks(r, p, s, n, T) ==
    /\ p \in [DOMAIN r -> 1..n]
    /\ \A i \in DOMAIN r : r[i] = s[p[i]] /\ r[i] \in T
    /\ \A i, j \in DOMAIN r : p[i] = p[j] => i = j
    /\ \A k \in 1..n : s[k] \in T => \E i \in DOMAIN r : p[i] = k

\* One element more.
LEMMA PicksMore ==
    ASSUME NEW A, NEW s \in Seq(A), NEW T, NEW n \in 1..Len(s), NEW r \in Seq(A), NEW p,
           Picks(r, p, s, n - 1, T), s[n] \in T
    PROVE  \E q : Picks(Append(r, s[n]), q, s, n, T)
<1> DEFINE e == s[n]
           R == Append(r, e)
           q == [i \in 1..(Len(r) + 1) |-> IF i = Len(r) + 1 THEN n ELSE p[i]]
<1>1. e \in A /\ e \in T /\ Len(r) \in Nat /\ DOMAIN r = 1..Len(r)
    OBVIOUS
<1> HIDE DEF e
<1>2. DOMAIN R = 1..(Len(r) + 1) /\ R[Len(r) + 1] = e /\ \A i \in 1..Len(r) : R[i] = r[i]
    BY <1>1
<1> HIDE DEF R
<1>3. q \in [DOMAIN R -> 1..n]
    <2>1. \A i \in 1..Len(r) : p[i] \in 1..n
        BY <1>1 DEF Picks
    <2> QED BY <1>1, <1>2, <2>1
<1>4. \A i \in DOMAIN R : R[i] = s[q[i]] /\ R[i] \in T
    BY <1>1, <1>2 DEF Picks, e
<1>5. \A i, j \in DOMAIN R : q[i] = q[j] => i = j
    <2>1. \A i \in 1..Len(r) : p[i] \in 1..(n - 1) /\ p[i] # n
        BY <1>1 DEF Picks
    <2> QED BY <1>1, <1>2, <2>1 DEF Picks
<1>6. \A k \in 1..n : s[k] \in T => \E i \in DOMAIN R : q[i] = k
    <2> SUFFICES ASSUME NEW k \in 1..n, s[k] \in T PROVE \E i \in DOMAIN R : q[i] = k
        OBVIOUS
    <2>1. CASE k = n
        BY <1>1, <1>2, <2>1
    <2>2. CASE k # n
        <3>1. PICK i \in 1..Len(r) : p[i] = k
            BY <1>1, <2>2 DEF Picks
        <3>2. i \in DOMAIN R /\ q[i] = k
            BY <1>1, <1>2, <3>1
        <3> QED BY <3>2
    <2> QED BY <2>1, <2>2
<1> HIDE DEF q
<1>7. Picks(R, q, s, n, T)
    BY <1>3, <1>4, <1>5, <1>6 DEF Picks
<1> QED BY <1>7 DEF R, e

\* Only lists exactly what is in the set, every place once.
LEMMA OnlyPicks ==
    ASSUME NEW A, NEW s \in Seq(A), NEW T
    PROVE  Only(s, T) \in Seq(A) /\ \E p : Picks(Only(s, T), p, s, Len(s), T)
<1> DEFINE n == Len(s)
           S == Seq(A)
           Step == [i \in 1..n |-> [r \in S |-> IF s[i] \in T THEN Append(r, s[i]) ELSE r]]
           Rec(f) == [i \in 0..n |-> IF i = 0 THEN <<>>
                                      ELSE IF s[i] \in T THEN Append(f[i - 1], s[i]) ELSE f[i - 1]]
           F == CHOOSE f : f = Rec(f)
<1>1. n \in Nat /\ <<>> \in S /\ Step \in [1..n -> [S -> S]]
    OBVIOUS
<1>2. PICK f : Follows(f, n, S, <<>>, Step)
    BY <1>1, RecursionDefines
<1>3. f = Rec(f)
    <2>1. f \in [0..n -> S] /\ f[0] = <<>> /\ \A i \in 1..n : f[i] = Step[i][f[i - 1]]
        BY <1>2 DEF Follows
    <2>2. ASSUME NEW i \in 1..n
          PROVE  f[i] = IF s[i] \in T THEN Append(f[i - 1], s[i]) ELSE f[i - 1]
        <3>1. f[i - 1] \in S
            BY <1>1, <2>1
        <3> QED BY <2>1, <3>1
    <2> HIDE DEF Step
    <2>3. ASSUME NEW i \in 0..n PROVE f[i] = Rec(f)[i]
        <3>1. CASE i = 0
            BY <2>1, <3>1
        <3>2. CASE i # 0
            <4>1. i \in 1..n
                BY <1>1, <3>2
            <4> QED BY <2>2, <3>2, <4>1
        <3> QED BY <3>1, <3>2
    <2> QED BY <2>1, <2>3
<1>4. F = Rec(F)
    BY <1>3
<1>5. Only(s, T) = F[n]
    BY DEF Only
<1> HIDE DEF F
<1> DEFINE Good(i) == F[i] \in S /\ \E p : Picks(F[i], p, s, i, T)
           B == {i \in 0..n : ~Good(i)}
<1>6. SUFFICES ASSUME B # {} PROVE FALSE
    BY <1>1, <1>5
<1>7. PICK m \in B : \A y \in B : m <= y
    BY <1>6, LeastNatural, B \subseteq Nat
<1>8. Good(0)
    <2>1. F[0] = <<>>
        BY <1>1, <1>4
    <2>2. Picks(<<>>, <<>>, s, 0, T)
        BY DEF Picks
    <2> QED BY <2>1, <2>2
<1>9. m \in 1..n /\ m - 1 \in 0..n /\ Good(m - 1)
    <2> HIDE DEF Good
    <2>1. m \in 0..n /\ m # 0
        BY <1>7, <1>8
    <2>2. m \in 1..n /\ m - 1 \in 0..n /\ ~(m <= m - 1)
        BY <1>1, <2>1
    <2> QED BY <1>7, <2>2
<1>10. PICK p : Picks(F[m - 1], p, s, m - 1, T)
    BY <1>9
<1>11. F[m] = IF s[m] \in T THEN Append(F[m - 1], s[m]) ELSE F[m - 1]
    <2>1. m \in 0..n /\ m # 0
        BY <1>1, <1>9
    <2>2. F[m] = Rec(F)[m]
        BY <1>4
    <2> QED BY <2>1, <2>2
<1>12. CASE s[m] \in T
    <2>1. \E q : Picks(Append(F[m - 1], s[m]), q, s, m, T)
        BY <1>9, <1>10, <1>12, PicksMore
    <2>2. Append(F[m - 1], s[m]) \in S
        BY <1>9
    <2> QED BY <1>7, <1>11, <1>12, <2>1, <2>2
<1>13. CASE s[m] \notin T
    <2>1. Picks(F[m - 1], p, s, m, T)
        BY <1>9, <1>10, <1>13 DEF Picks
    <2> QED BY <1>7, <1>9, <1>11, <1>13, <2>1
<1> QED BY <1>12, <1>13

\* The positions of a list are finitely many.
LEMMA FiniteUpTo ==
    ASSUME NEW m \in Nat
    PROVE  IsFiniteSet(1..m)
BY FS_Interval

\* No outpoint is listed twice.
Distinct(s) == \A i, j \in DOMAIN s : s[i].op = s[j].op => i = j

\* A list without some outpoints.
LEMMA WithoutKeeps ==
    ASSUME NEW A, NEW s \in Seq(A), NEW ops
    PROVE  /\ Without(s, ops) \in Seq(A)
           /\ ToSet(Without(s, ops)) = {x \in ToSet(s) : x.op \notin ops}
           /\ Distinct(s) => Distinct(Without(s, ops))
<1> DEFINE T == {x \in ToSet(s) : x.op \notin ops}
           r == Without(s, ops)
<1>0. r = Only(s, T)
    BY DEF Without
<1>1. r \in Seq(A) /\ \E p : Picks(r, p, s, Len(s), T)
    BY <1>0, OnlyPicks
<1>2. PICK p : Picks(r, p, s, Len(s), T)
    BY <1>1
<1>3. DOMAIN s = 1..Len(s)
    OBVIOUS
<1> HIDE DEF r
<1>4. ToSet(r) = T
    <2>1. ToSet(r) \subseteq T
        BY <1>2 DEF Picks, ToSet
    <2>2. ASSUME NEW x \in T PROVE x \in ToSet(r)
        <3>1. PICK k \in 1..Len(s) : s[k] = x
            BY <1>3 DEF ToSet
        <3>2. PICK i \in DOMAIN r : p[i] = k
            BY <1>2, <3>1 DEF Picks
        <3>3. r[i] = x
            BY <1>2, <3>1, <3>2 DEF Picks
        <3> QED BY <3>3 DEF ToSet
    <2> QED BY <2>1, <2>2
<1>5. ASSUME Distinct(s) PROVE Distinct(r)
    BY <1>2, <1>3, <1>5 DEF Picks, Distinct
<1> QED BY <1>1, <1>4, <1>5 DEF r

\* Two lists, one after the other.
LEMMA ListsJoin ==
    ASSUME NEW A, NEW s \in Seq(A), NEW r \in Seq(A)
    PROVE  /\ s \o r \in Seq(A) /\ Len(s \o r) = Len(s) + Len(r)
           /\ DOMAIN (s \o r) = 1..(Len(s) + Len(r))
           /\ \A i \in DOMAIN (s \o r) :
                \/ i \in DOMAIN s /\ (s \o r)[i] = s[i]
                \/ i - Len(s) \in DOMAIN r /\ (s \o r)[i] = r[i - Len(s)]
           /\ ToSet(s \o r) = ToSet(s) \cup ToSet(r)
           /\ (Distinct(s) /\ Distinct(r) /\ \A i \in DOMAIN s, j \in DOMAIN r : s[i].op # r[j].op) => Distinct(s \o r)
<1> DEFINE all == s \o r
           m == Len(s)
           n == Len(r)
<1>1. m \in Nat /\ n \in Nat /\ DOMAIN s = 1..m /\ DOMAIN r = 1..n
    OBVIOUS
<1>2. all \in Seq(A) /\ Len(all) = m + n
    BY ConcatProperties
<1>3. \A i \in 1..(m + n) : all[i] = IF i <= m THEN s[i] ELSE r[i - m]
    BY ConcatProperties
<1>4. DOMAIN all = 1..(m + n)
    BY <1>2
<1> HIDE DEF all, m, n
<1>5. ASSUME NEW i \in DOMAIN all
      PROVE  (i \in DOMAIN s /\ all[i] = s[i]) \/ (i - m \in DOMAIN r /\ all[i] = r[i - m])
    BY <1>1, <1>3, <1>4
<1>6. ToSet(all) = ToSet(s) \cup ToSet(r)
    <2>1. ToSet(all) \subseteq ToSet(s) \cup ToSet(r)
        BY <1>5 DEF ToSet
    <2>2. ASSUME NEW i \in DOMAIN s PROVE s[i] \in ToSet(all)
        <3>1. i \in DOMAIN all /\ all[i] = s[i]
            BY <1>1, <1>3, <1>4
        <3> QED BY <3>1 DEF ToSet
    <2>3. ASSUME NEW j \in DOMAIN r PROVE r[j] \in ToSet(all)
        <3> DEFINE k == m + j
        <3>1. k \in 1..(m + n) /\ ~(k <= m) /\ k - m = j
            BY <1>1
        <3> HIDE DEF k
        <3>2. all[k] = r[j]
            BY <1>3, <3>1
        <3> QED BY <1>4, <3>1, <3>2 DEF ToSet
    <2> QED BY <2>1, <2>2, <2>3 DEF ToSet
<1>7. ASSUME Distinct(s), Distinct(r), \A i \in DOMAIN s, j \in DOMAIN r : s[i].op # r[j].op
      PROVE  Distinct(all)
    <2> SUFFICES ASSUME NEW i \in DOMAIN all, NEW j \in DOMAIN all, all[i].op = all[j].op PROVE i = j
        BY DEF Distinct
    <2>1. i \in Nat /\ j \in Nat
        BY <1>1, <1>4
    <2>2. CASE i \in DOMAIN s /\ all[i] = s[i]
        <3>1. j \in DOMAIN s /\ all[j] = s[j]
            BY <1>5, <1>7, <2>2
        <3> QED BY <1>7, <2>2, <3>1 DEF Distinct
    <2>3. CASE i - m \in DOMAIN r /\ all[i] = r[i - m]
        <3>1. j - m \in DOMAIN r /\ all[j] = r[j - m]
            BY <1>5, <1>7, <2>3
        <3>2. i - m = j - m
            BY <1>7, <2>3, <3>1 DEF Distinct
        <3> QED BY <1>1, <2>1, <3>2
    <2> QED BY <1>5, <2>2, <2>3
<1> QED BY <1>2, <1>4, <1>5, <1>6, <1>7 DEF all, m, n

\* The first occurrences of the outpoints that are not known.
LEMMA FreshLists ==
    ASSUME NEW A, NEW ops \in Seq(A), NEW known
    PROVE  /\ Fresh(ops, known) \in Seq(A)
           /\ ToSet(Fresh(ops, known)) = ToSet(ops) \ known
           /\ IsInjective(Fresh(ops, known))
<1> DEFINE first == {i \in DOMAIN ops : ops[i] \notin known /\ \A j \in DOMAIN ops : j < i => ops[j] # ops[i]}
           all == [i \in DOMAIN ops |-> i]
           places == Only(all, first)
           r == Fresh(ops, known)
           D == 1..Len(ops)
<1>1. DOMAIN ops = D /\ Len(ops) \in Nat /\ \A i \in D : ops[i] \in A
    OBVIOUS
<1>2. all \in Seq(D) /\ Len(all) = Len(ops)
    BY <1>1
<1>3. places \in Seq(D) /\ \E p : Picks(places, p, all, Len(all), first)
    BY <1>2, OnlyPicks
<1>4. PICK p : Picks(places, p, all, Len(ops), first)
    BY <1>2, <1>3
<1>5. r = [n \in DOMAIN places |-> ops[places[n]]]
    BY DEF Fresh
<1>6. first \subseteq D /\ \A i \in D : all[i] = i
    BY <1>1
<1> HIDE DEF places, r, all
<1>7. DOMAIN places = 1..Len(places) /\ Len(places) \in Nat /\ \A n \in DOMAIN places : places[n] \in first
    BY <1>3, <1>4 DEF Picks
<1>8. \A k \in first : \E n \in DOMAIN places : places[n] = k
    BY <1>1, <1>4, <1>6 DEF Picks
<1>9. \A m, n \in DOMAIN places : places[m] = places[n] => m = n
    BY <1>1, <1>4, <1>6 DEF Picks
<1>10. r \in Seq(A)
    <2>1. \A n \in 1..Len(places) : ops[places[n]] \in A
        BY <1>1, <1>6, <1>7
    <2> QED BY <1>5, <1>7, <2>1
<1>11. IsInjective(r)
    <2> SUFFICES ASSUME NEW m \in DOMAIN r, NEW n \in DOMAIN r, r[m] = r[n] PROVE m = n
        BY DEF IsInjective
    <2>1. places[m] \in first /\ places[n] \in first /\ ops[places[m]] = ops[places[n]]
        BY <1>5, <1>7
    <2>2. places[m] \in D /\ places[n] \in D /\ ~(places[m] < places[n]) /\ ~(places[n] < places[m])
        BY <1>1, <2>1
    <2>3. places[m] = places[n]
        BY <2>2
    <2> QED BY <1>5, <1>9, <2>3
<1>12. ToSet(r) \subseteq ToSet(ops) \ known
    BY <1>1, <1>5, <1>7 DEF ToSet
<1>13. ASSUME NEW x \in ToSet(ops), x \notin known PROVE x \in ToSet(r)
    <2> DEFINE X == {i \in D : ops[i] = x}
    <2>1. X # {} /\ X \subseteq Nat
        BY <1>1 DEF ToSet
    <2>2. PICK i \in X : \A j \in X : i <= j
        BY <2>1, LeastNatural
    <2>3. \A j \in D : j < i => ops[j] # x
        BY <2>2
    <2>4. i \in first
        BY <1>1, <1>13, <2>2, <2>3
    <2>5. PICK n \in DOMAIN places : places[n] = i
        BY <1>8, <2>4
    <2>6. n \in DOMAIN r /\ r[n] = x
        BY <1>5, <2>2, <2>5
    <2> QED BY <2>6 DEF ToSet
<1> QED BY <1>10, <1>11, <1>12, <1>13 DEF r

\* A finite set as a list.
LEMMA SetListed ==
    ASSUME NEW S, IsFiniteSet(S)
    PROVE  /\ SetToSeq(S) \in Seq(S)
           /\ ToSet(SetToSeq(S)) = S
           /\ IsInjective(SetToSeq(S))
           /\ Len(SetToSeq(S)) = Cardinality(S)
<1> DEFINE n == Cardinality(S)
           f == SetToSeq(S)
<1>1. n \in Nat
    BY FS_CardinalityType
<1>2. \E g \in [1..n -> S] : IsInjective(g)
    BY FS_NatBijection, FS_CardinalityType DEF ExistsBijection, Bijection, Injection
<1>3. f \in [1..n -> S] /\ IsInjective(f)
    BY <1>2 DEF SetToSeq
<1> HIDE DEF f
<1>4. f \in Seq(S) /\ Len(f) = n /\ DOMAIN f = 1..n
    BY <1>1, <1>3
<1>5. ASSUME NEW x \in S PROVE x \in ToSet(f)
    <2>1. f \in Injection(1..n, S) /\ IsFiniteSet(1..n) /\ Cardinality(1..n) = n
        BY <1>1, <1>3, FS_Interval DEF Injection
    <2>2. f \in Surjection(1..n, S)
        BY <2>1, FS_Injection
    <2> QED BY <1>4, <2>2 DEF Surjection, ToSet
<1>6. ToSet(f) \subseteq S
    BY <1>3 DEF ToSet
<1> QED BY <1>3, <1>4, <1>5, <1>6 DEF f


-----------------------------------------------------------------------------
(***************************************************************************)
(* The graph: ancestors and the canonical view.                            *)
(***************************************************************************)

\* Transactions come after what they spend.
LEMMA ParentsFirst ==
    ASSUME GraphSound, NEW t \in DOMAIN txs
    PROVE  Parents(t) \subseteq Held /\ \A p \in Parents(t) : p \in DOMAIN txs /\ p \in Nat /\ p < t
<1>1. txs[t] \in Transactions /\ \A i \in DOMAIN txs[t].ins : txs[t].ins[i].op[1] < t
    BY DEF GraphSound, TxSound
<1>2. DOMAIN txs = 1..Len(txs) /\ Len(txs) \in Nat
    BY DEF GraphSound
<1> QED BY <1>1, <1>2 DEF Parents, Spent, Held

\* The table of ancestors: the parents, and theirs.
LEMMA AncestorTable ==
    ASSUME GraphSound, NEW ts
    PROVE  /\ DOMAIN AncestorsIn(ts) = DOMAIN txs
           /\ \A t \in DOMAIN txs :
                /\ AncestorsIn(ts)[t] \subseteq DOMAIN txs
                /\ AncestorsIn(ts)[t] =
                     (Parents(t) \cap ts) \cup UNION {AncestorsIn(ts)[p] : p \in Parents(t) \cap ts}
<1> DEFINE n == Len(txs)
           D == 1..n
           S == Seq(SUBSET D)
           P(t) == Parents(t) \cap ts
           Row(r, t) == P(t) \cup UNION {r[p] : p \in P(t)}
           Step == [t \in D |-> [r \in S |-> Append(r, Row(r, t) \cap D)]]
           Rec(f) == [t \in 0..n |-> IF t = 0 THEN <<>> ELSE Append(f[t - 1], Row(f[t - 1], t))]
           F == CHOOSE f : f = Rec(f)
<1>1. n \in Nat /\ DOMAIN txs = D
    BY DEF GraphSound
<1>2. ASSUME NEW t \in D PROVE P(t) \subseteq 1..(t - 1) /\ P(t) \subseteq D
    BY <1>1, ParentsFirst
<1> HIDE DEF P
<1>3. <<>> \in S /\ Step \in [1..n -> [S -> S]]
    <2>1. ASSUME NEW t \in D, NEW r \in S PROVE Append(r, Row(r, t) \cap D) \in S
        <3>1. Row(r, t) \cap D \in SUBSET D
            OBVIOUS
        <3> HIDE DEF Row
        <3> QED BY <3>1
    <2> QED BY <2>1
<1>4. PICK f : Follows(f, n, S, <<>>, Step)
    BY <1>1, <1>3, RecursionDefines
<1>5. f \in [0..n -> S] /\ f[0] = <<>>
    BY <1>4 DEF Follows
<1>6. ASSUME NEW t \in D PROVE f[t - 1] \in S /\ f[t] = Append(f[t - 1], Row(f[t - 1], t) \cap D)
    <2>1. f[t - 1] \in S
        BY <1>1, <1>5
    <2>2. f[t] = Step[t][f[t - 1]]
        BY <1>4 DEF Follows
    <2> HIDE DEF Row
    <2> QED BY <2>1, <2>2
<1> HIDE DEF Step
\* Its rows lie in the graph, so that the bound of the step is none.
<1>7. ASSUME NEW t \in 0..n PROVE f[t] \in S /\ Len(f[t]) = t
    <2> DEFINE B == {i \in 0..n : Len(f[i]) # i}
    <2>1. SUFFICES ASSUME B # {} PROVE FALSE
        BY <1>5
    <2>2. PICK m \in B : \A y \in B : m <= y
        BY <2>1, LeastNatural, B \subseteq Nat
    <2>3. m \in 1..n /\ m - 1 \in 0..n /\ ~(m <= m - 1)
        BY <1>1, <1>5, <2>2
    <2>4. Len(f[m - 1]) = m - 1
        BY <2>2, <2>3
    <2> DEFINE e == Row(f[m - 1], m) \cap D
    <2>5. f[m] = Append(f[m - 1], e) /\ f[m - 1] \in S /\ e \in SUBSET D
        BY <1>6, <2>3
    <2> HIDE DEF e
    <2>6. Len(f[m]) = m
        BY <2>3, <2>4, <2>5
    <2> QED BY <2>2, <2>6
<1>8. ASSUME NEW t \in D PROVE Row(f[t - 1], t) \subseteq D /\ f[t] = Append(f[t - 1], Row(f[t - 1], t))
    <2>1. f[t - 1] \in S /\ Len(f[t - 1]) = t - 1
        BY <1>1, <1>7
    <2>2. \A p \in P(t) : f[t - 1][p] \in SUBSET D
        BY <1>2, <2>1
    <2>3. Row(f[t - 1], t) \subseteq D
        BY <1>2, <2>2
    <2>4. Row(f[t - 1], t) \cap D = Row(f[t - 1], t)
        BY <2>3
    <2> HIDE DEF Row
    <2> QED BY <1>6, <2>3, <2>4
<1>9. f = Rec(f)
    <2> HIDE DEF Row
    <2>1. ASSUME NEW t \in 0..n PROVE f[t] = Rec(f)[t]
        <3>1. CASE t = 0
            BY <1>5, <3>1
        <3>2. CASE t # 0
            <4>1. t \in D
                BY <1>1, <3>2
            <4> QED BY <1>8, <3>2, <4>1
        <3> QED BY <3>1, <3>2
    <2> QED BY <1>5, <2>1
<1>10. F = Rec(F)
    BY <1>9
<1>11. AncestorsIn(ts) = F[n]
    BY DEF AncestorsIn, P
<1> HIDE DEF F
<1>12. ASSUME NEW t \in 0..n PROVE F[t] = f[t]
    <2> DEFINE B == {i \in 0..n : F[i] # f[i]}
    <2>1. SUFFICES ASSUME B # {} PROVE FALSE
        OBVIOUS
    <2>2. PICK m \in B : \A y \in B : m <= y
        BY <2>1, LeastNatural, B \subseteq Nat
    <2> HIDE DEF Row
    <2>3. F[0] = f[0]
        BY <1>1, <1>5, <1>10
    <2>4. m \in 1..n /\ m - 1 \in 0..n /\ ~(m <= m - 1)
        BY <1>1, <2>2, <2>3
    <2>5. F[m - 1] = f[m - 1]
        BY <2>2, <2>4
    <2>6. F[m] = Append(F[m - 1], Row(F[m - 1], m))
        <3>1. m \in 0..n /\ m # 0
            BY <2>4
        <3>2. F[m] = Rec(F)[m]
            BY <1>10
        <3> QED BY <3>1, <3>2
    <2> QED BY <1>8, <2>2, <2>4, <2>5, <2>6
<1> DEFINE a == AncestorsIn(ts)
<1>13. a = f[n] /\ a \in S /\ Len(a) = n
    BY <1>1, <1>7, <1>11, <1>12
\* A row once written stays.
<1>14. ASSUME NEW m \in 0..n PROVE \A i \in 1..m : f[m][i] = f[i][i]
    <2> DEFINE Kept(k) == \A i \in 1..k : f[k][i] = f[i][i]
               B == {k \in 0..n : ~Kept(k)}
    <2>1. SUFFICES ASSUME B # {} PROVE FALSE
        OBVIOUS
    <2>2. PICK k \in B : \A y \in B : k <= y
        BY <2>1, LeastNatural, B \subseteq Nat
    <2>3. k \in 1..n /\ k - 1 \in 0..n /\ ~(k <= k - 1)
        BY <1>1, <2>2
    <2>4. Kept(k - 1)
        BY <2>2, <2>3
    <2> DEFINE e == Row(f[k - 1], k)
    <2>5. f[k] = Append(f[k - 1], e) /\ f[k - 1] \in S /\ e \in SUBSET D /\ Len(f[k - 1]) = k - 1
        BY <1>7, <1>8, <2>3
    <2> HIDE DEF e
    <2>6. ASSUME NEW i \in 1..k PROVE f[k][i] = f[i][i]
        <3>1. CASE i = k
            BY <3>1
        <3>2. CASE i # k
            <4>1. i \in 1..(k - 1)
                BY <2>3, <3>2
            <4>2. f[k][i] = f[k - 1][i]
                BY <2>5, <4>1
            <4> QED BY <2>4, <4>1, <4>2
        <3> QED BY <3>1, <3>2
    <2> QED BY <2>2, <2>6
<1> HIDE DEF a
<1>15. ASSUME NEW t \in D PROVE a[t] = Row(a, t) /\ a[t] \subseteq D
    <2>1. t - 1 \in 0..n /\ t \in 1..n /\ n \in 0..n
        BY <1>1
    <2>2. a[t] = f[t][t]
        BY <1>13, <1>14, <2>1
    <2> DEFINE e == Row(f[t - 1], t)
    <2>3. f[t] = Append(f[t - 1], e) /\ f[t - 1] \in S /\ Len(f[t - 1]) = t - 1 /\ e \in SUBSET D
        BY <1>7, <1>8, <2>1
    <2>4. f[t][t] = e
        <3> HIDE DEF e
        <3> QED BY <2>1, <2>3
    <2>5. ASSUME NEW p \in P(t) PROVE f[t - 1][p] = a[p]
        <3>1. p \in 1..(t - 1) /\ p \in 1..n
            BY <1>1, <1>2
        <3> QED BY <1>13, <1>14, <2>1, <3>1
    <2>6. Row(f[t - 1], t) = Row(a, t)
        BY <2>5
    <2> QED BY <2>2, <2>3, <2>4, <2>6
<1>16. DOMAIN a = D
    BY <1>13
<1> QED BY <1>1, <1>15, <1>16 DEF a, P

\* Ancestors are those of a parent, too.
LEMMA AncestorsOf ==
    ASSUME GraphSound, NEW t \in DOMAIN txs
    PROVE  /\ Ancestors[t] \subseteq DOMAIN txs
           /\ Parents(t) \subseteq Ancestors[t]
           /\ \A p \in Parents(t) : Ancestors[p] \subseteq Ancestors[t]
           /\ \A u \in Ancestors[t] : u \in Parents(t) \/ \E p \in Parents(t) : u \in Ancestors[p]
<1>1. Parents(t) \cap Held = Parents(t)
    BY DEF Parents
<1> QED BY <1>1, AncestorTable DEF Ancestors

\* An ancestor's ancestors are ancestors.
LEMMA AncestorsTransitive ==
    ASSUME GraphSound, NEW t \in DOMAIN txs, NEW u \in Ancestors[t]
    PROVE  u \in DOMAIN txs /\ Ancestors[u] \subseteq Ancestors[t] /\ Parents(u) \subseteq Ancestors[t]
<1> DEFINE Bad(k) == \E a \in Ancestors[k] : ~(Ancestors[a] \subseteq Ancestors[k])
           B == {k \in DOMAIN txs : Bad(k)}
<1>0. DOMAIN txs \subseteq Nat
    BY DEF GraphSound
<1>1. ASSUME B # {} PROVE FALSE
    <2>1. PICK m \in B : \A y \in B : m <= y
        BY <1>0, <1>1, LeastNatural, B \subseteq Nat
    <2>2. PICK a \in Ancestors[m] : ~(Ancestors[a] \subseteq Ancestors[m])
        BY <2>1
    <2>3. m \in DOMAIN txs
        BY <2>1
    <2>4. CASE a \in Parents(m)
        BY <2>2, <2>3, <2>4, AncestorsOf
    <2>5. ASSUME NEW p \in Parents(m), a \in Ancestors[p] PROVE FALSE
        <3>1. p \in DOMAIN txs /\ p \in Nat /\ p < m /\ m \in Nat
            BY <1>0, <2>3, ParentsFirst
        <3>2. p \notin B
            BY <2>1, <3>1
        <3>3. Ancestors[a] \subseteq Ancestors[p]
            BY <2>5, <3>1, <3>2
        <3> QED BY <2>2, <2>3, <3>3, AncestorsOf
    <2> QED BY <2>2, <2>3, <2>4, <2>5, AncestorsOf
<1>2. u \in DOMAIN txs
    BY AncestorsOf
<1>3. Ancestors[u] \subseteq Ancestors[t]
    BY <1>1
<1> QED BY <1>2, <1>3, AncestorsOf

\* What is confirmed has only confirmed ancestors.
LEMMA ConfirmedAncestors ==
    ASSUME GraphSound, NEW t \in DOMAIN txs, Confirmed(t), NEW u \in Ancestors[t]
    PROVE  Confirmed(u)
<1> DEFINE Bad(k) == Confirmed(k) /\ \E a \in Ancestors[k] : ~Confirmed(a)
           B == {k \in DOMAIN txs : Bad(k)}
<1>0. DOMAIN txs \subseteq Nat
    BY DEF GraphSound
<1>1. ASSUME B # {} PROVE FALSE
    <2>1. PICK m \in B : \A y \in B : m <= y
        BY <1>0, <1>1, LeastNatural, B \subseteq Nat
    <2>2. PICK a \in Ancestors[m] : ~Confirmed(a)
        BY <2>1
    <2>3. m \in DOMAIN txs /\ \A p \in Parents(m) : Confirmed(p)
        BY <2>1 DEF GraphSound
    <2>4. ASSUME NEW p \in Parents(m), a \in Ancestors[p] PROVE FALSE
        <3>1. p \in DOMAIN txs /\ p \in Nat /\ p < m /\ m \in Nat
            BY <1>0, <2>3, ParentsFirst
        <3>2. p \notin B
            BY <2>1, <3>1
        <3> QED BY <2>2, <2>3, <2>4, <3>1, <3>2
    <2> QED BY <2>2, <2>3, <2>4, AncestorsOf
<1> QED BY <1>1

\* A set of transactions that can all be in one chain.
Consistent(ts) ==
    /\ ts \subseteq DOMAIN txs
    /\ \A t, u \in ts : ~Conflicting(t, u)
    /\ \A t \in ts : Ancestors[t] \subseteq ts

\* What is in conflict is so either way.
LEMMA ConflictSymmetric ==
    ASSUME NEW t, NEW u, Conflicting(t, u)
    PROVE  Conflicting(u, t)
BY DEF Conflicting

\* The canonical view can all be in one chain, and has what is confirmed.
LEMMA CanonicalConsistent ==
    ASSUME GraphSound
    PROVE  Consistent(Canonical) /\ \A t \in DOMAIN txs : Confirmed(t) => t \in Canonical
<1> DEFINE n == Len(txs)
           D == 1..n
           S == SUBSET D
           up == Ancestors
           settled == {t \in DOMAIN txs : Confirmed(t)}
           own(t) == {t} \cup up[t]
           Clash(t, later) == t \notin Held \/ \E a \in own(t), u \in later \cup own(t) : Conflicting(a, u)
           Next1(t, later) == IF Clash(t, later) THEN later ELSE later \cup own(t)
           Step == [i \in D |-> [later \in S |-> Next1(n + 1 - i, later)]]
           Rec(f) == [t \in 1..n + 1 |-> IF t = n + 1 THEN settled ELSE Next1(t, f[t + 1])]
           F == CHOOSE f : f = Rec(f)
<1>1. n \in Nat /\ DOMAIN txs = D
    BY DEF GraphSound
<1>2. \A t \in D : own(t) \in S
    BY <1>1, AncestorsOf
<1>3. settled \in S /\ Step \in [1..n -> [S -> S]]
    <2>1. ASSUME NEW i \in D, NEW later \in S PROVE Next1(n + 1 - i, later) \in S
        <3>1. n + 1 - i \in D
            BY <1>1
        <3> HIDE DEF own, Clash
        <3> QED BY <1>2, <3>1
    <2> HIDE DEF Next1
    <2> QED BY <1>1, <2>1
<1>4. Canonical = F[1]
    BY DEF Canonical
<1> HIDE DEF Clash, own, settled, up
<1>5. PICK g : Follows(g, n, S, settled, Step)
    BY <1>1, <1>3, RecursionDefines
<1> DEFINE h == [t \in 1..n + 1 |-> g[n + 1 - t]]
<1>6. h = Rec(h)
    <2>1. g \in [0..n -> S] /\ g[0] = settled
        BY <1>5 DEF Follows
    <2>2. ASSUME NEW t \in 1..n + 1 PROVE h[t] = Rec(h)[t]
        <3>1. CASE t = n + 1
            BY <1>1, <2>1, <3>1
        <3>2. CASE t # n + 1
            <4>1. t \in D /\ n + 1 - t \in D /\ t + 1 \in 1..n + 1 /\ n + 1 - (n + 1 - t) = t
                  /\ n + 1 - (t + 1) = n + 1 - t - 1 /\ n + 1 - t - 1 \in 0..n
                BY <1>1, <3>2
            <4>2. g[n + 1 - t] = Step[n + 1 - t][g[n + 1 - t - 1]]
                <5> HIDE DEF Step, h
                <5>1. \A i \in 1..n : g[i] = Step[i][g[i - 1]]
                    BY <1>5 DEF Follows
                <5> QED BY <4>1, <5>1
            <4>3. g[n + 1 - t - 1] \in S
                BY <2>1, <4>1
            <4> HIDE DEF Next1
            <4>4. g[n + 1 - t] = Next1(t, g[n + 1 - t - 1])
                BY <4>1, <4>2, <4>3
            <4> QED BY <3>2, <4>1, <4>4
        <3> QED BY <3>1, <3>2
    <2> HIDE DEF Next1
    <2> QED BY <2>2
<1>7. F = Rec(F)
    BY <1>6
<1> HIDE DEF F
<1> DEFINE Good(ts) == Consistent(ts) /\ settled \subseteq ts
<1>8. Good(settled)
    <2>1. \A t, u \in settled : ~Conflicting(t, u)
        BY DEF GraphSound, settled
    <2>2. \A t \in settled : Ancestors[t] \subseteq settled
        BY AncestorsOf, ConfirmedAncestors DEF settled
    <2> QED BY <2>1, <2>2 DEF Consistent, settled
<1>9. ASSUME NEW t \in D, NEW later, Good(later) PROVE Good(Next1(t, later))
    <2>1. CASE Clash(t, later)
        BY <1>9, <2>1
    <2>2. CASE ~Clash(t, later)
        <3>1. Next1(t, later) = later \cup own(t)
            BY <2>2
        <3>2. ASSUME NEW a \in later \cup own(t), NEW u \in later \cup own(t) PROVE ~Conflicting(a, u)
            <4>1. \A b \in own(t), v \in later \cup own(t) : ~Conflicting(b, v)
                BY <2>2 DEF Clash
            <4>2. \A b, v \in later : ~Conflicting(b, v)
                BY <1>9 DEF Consistent
            <4> QED BY <4>1, <4>2, ConflictSymmetric
        <3>3. ASSUME NEW a \in later \cup own(t) PROVE Ancestors[a] \subseteq later \cup own(t)
            <4>1. CASE a \in later
                BY <1>9, <4>1 DEF Consistent
            <4>2. CASE a = t
                BY <4>2 DEF own, up
            <4>3. CASE a \in Ancestors[t]
                BY <1>1, <4>3, AncestorsTransitive DEF own, up
            <4> QED BY <4>1, <4>2, <4>3 DEF own, up
        <3>4. later \cup own(t) \subseteq DOMAIN txs
            BY <1>1, <1>2, <1>9 DEF Consistent
        <3> QED BY <1>9, <3>1, <3>2, <3>3, <3>4 DEF Consistent
    <2> QED BY <2>1, <2>2
<1> HIDE DEF Next1, Good
<1>10. F[n + 1] = settled /\ \A t \in D : F[t] = Next1(t, F[t + 1])
    <2>1. \A t \in 1..n + 1 : F[t] = Rec(F)[t]
        BY <1>7
    <2>2. n + 1 \in 1..n + 1 /\ \A t \in D : t \in 1..n + 1 /\ t # n + 1
        BY <1>1
    <2> QED BY <2>1, <2>2
<1>11. Good(F[1])
    <2> DEFINE B == {i \in 0..n : ~Good(F[n + 1 - i])}
    <2>1. ASSUME B # {} PROVE FALSE
        <3>1. PICK m \in B : \A y \in B : m <= y
            BY <2>1, LeastNatural, B \subseteq Nat
        <3>2. m # 0
            BY <1>1, <1>8, <1>10, <3>1
        <3>3. m - 1 \in 0..n /\ ~(m <= m - 1) /\ n + 1 - m \in D /\ (n + 1 - m) + 1 = n + 1 - (m - 1)
            BY <1>1, <3>1, <3>2
        <3>4. Good(F[n + 1 - (m - 1)])
            BY <3>1, <3>3
        <3>5. F[n + 1 - m] = Next1(n + 1 - m, F[n + 1 - (m - 1)])
            BY <1>10, <3>3
        <3>6. Good(F[n + 1 - m])
            BY <1>9, <3>3, <3>4, <3>5
        <3> QED BY <3>1, <3>6
    <2>2. n \in 0..n /\ n + 1 - n = 1
        BY <1>1
    <2>3. n \notin B
        BY <2>1
    <2> QED BY <2>2, <2>3
<1> QED BY <1>4, <1>11 DEF Good, settled

\* The wallet's unspent outputs: finitely many outputs of the graph that nothing
\* in the canonical view spends.
LEMMA Unspent ==
    ASSUME GraphSound
    PROVE  /\ IsFiniteSet(list_unspent)
           /\ \A op \in list_unspent : Ours(op) /\ op \in Nameable /\ op[1] \in DOMAIN txs
           /\ \A op \in list_unspent, t \in Canonical : op \notin Spent(txs[t])
<1> DEFINE n == Len(txs)
           D == 1..n
           all == UNION {{t} \X DOMAIN txs[t].outs : t \in D}
<1>1. n \in Nat /\ DOMAIN txs = D /\ \A t \in D : txs[t] \in Transactions
    BY DEF GraphSound
<1>2. ASSUME NEW t \in D PROVE IsFiniteSet({t} \X DOMAIN txs[t].outs) /\ DOMAIN txs[t].outs \subseteq Nat \ {0}
    <2>1. txs[t].outs \in Seq(OutputData)
        BY <1>1 DEF Transactions
    <2>2. DOMAIN txs[t].outs = 1..Len(txs[t].outs) /\ Len(txs[t].outs) \in Nat
        BY <2>1
    <2>3. IsFiniteSet({t}) /\ IsFiniteSet(DOMAIN txs[t].outs)
        BY <2>2, FS_Singleton, FiniteUpTo
    <2> QED BY <2>2, <2>3, FS_Product
<1>3. IsFiniteSet(all)
    <2> DEFINE R == {{t} \X DOMAIN txs[t].outs : t \in D}
    <2>1. IsFiniteSet(D)
        BY <1>1, FiniteUpTo
    <2>2. IsFiniteSet(R)
        <3> DEFINE fn == [t \in D |-> {t} \X DOMAIN txs[t].outs]
        <3>1. fn \in Surjection(D, R)
            BY DEF Surjection
        <3> HIDE DEF fn, R
        <3> QED BY <2>1, <3>1, FS_Surjection
    <2>3. \A x \in R : IsFiniteSet(x)
        BY <1>2
    <2> QED BY <2>2, <2>3, FS_UNION
<1>4. ASSUME NEW ts PROVE OutputsOf(ts) \subseteq all
    <2> SUFFICES ASSUME NEW op \in OutputsOf(ts) PROVE op \in all
        OBVIOUS
    <2>1. PICK t \in ts : op \in {t} \X DOMAIN txs[t].outs
        BY DEF OutputsOf
    <2>2. op[1] = t /\ Ours(op)
        BY <2>1 DEF OutputsOf
    <2> QED BY <1>1, <2>1, <2>2 DEF Ours, Known
<1>5. list_unspent \subseteq OutputsOf(Canonical)
    BY DEF list_unspent
<1>6. IsFiniteSet(list_unspent)
    BY <1>3, <1>4, <1>5, FS_Subset
<1>7. ASSUME NEW op \in list_unspent PROVE Ours(op) /\ op \in Nameable /\ op[1] \in DOMAIN txs
    <2>1. Ours(op) /\ op \in all
        BY <1>4, <1>5 DEF OutputsOf
    <2>2. PICK t \in D : op \in {t} \X DOMAIN txs[t].outs
        BY <2>1
    <2>3. op \in Outpoint /\ op[1] = t
        <3>1. PICK o \in DOMAIN txs[t].outs : op = <<t, o>>
            BY <2>2
        <3>2. t \in Nat /\ o \in Nat \ {0}
            <4>1. DOMAIN txs[t].outs \subseteq Nat \ {0}
                BY <1>2
            <4>2. t \in Nat
                BY <1>1
            <4> QED BY <4>1, <4>2
        <3> QED BY <3>1, <3>2 DEF Outpoint
    <2> QED BY <1>1, <2>1, <2>3 DEF Nameable
<1>8. \A op \in list_unspent, t \in Canonical : op \notin Spent(txs[t])
    BY DEF list_unspent
<1> QED BY <1>6, <1>7, <1>8

-----------------------------------------------------------------------------
(***************************************************************************)
(* What the wallet sees, and what of it a step leaves alone.               *)
(***************************************************************************)

\* What the wallet sees is a function of its transactions.
LEMMA ViewUnchanged ==
    ASSUME txs' = txs
    PROVE  /\ Canonical' = Canonical
           /\ list_unspent' = list_unspent
           /\ GraphSound' = GraphSound
           /\ Nameable' = Nameable
           /\ \A op : Known(op)' = Known(op) /\ TxOut(op)' = TxOut(op) /\ Ours(op)' = Ours(op)
<1>1. Canonical' = Canonical
    BY DEF Canonical, Ancestors, AncestorsIn, Parents, Held, Confirmed, Conflicting
<1>2. list_unspent' = list_unspent
    BY <1>1 DEF list_unspent, OutputsOf, Ours, Known, TxOut
<1>3. GraphSound' = GraphSound
    BY DEF GraphSound, Confirmed, Parents, Held, Conflicting
<1>4. Nameable' = Nameable
    BY DEF Nameable
<1>5. \A op : Known(op)' = Known(op) /\ TxOut(op)' = TxOut(op) /\ Ours(op)' = Ours(op)
    BY DEF Known, TxOut, Ours
<1> QED BY <1>1, <1>2, <1>3, <1>4, <1>5

\* A graph with one more unconfirmed transaction.
LEMMA SeenKeeps ==
    ASSUME GraphSound, NEW tx, TxSound(tx, Len(txs) + 1), tx.height = 0, txs' = Append(txs, tx)
    PROVE  GraphSound'
<1> DEFINE n == Len(txs)
<1>1. txs \in Seq(Transactions) /\ n \in Nat /\ DOMAIN txs = 1..n /\ tx \in Transactions
    BY DEF GraphSound, TxSound
<1>2. /\ txs' \in Seq(Transactions) /\ DOMAIN txs' = 1..(n + 1) /\ txs'[n + 1] = tx
      /\ \A t \in 1..n : txs'[t] = txs[t]
    BY <1>1
<1> HIDE DEF n
<1>3. \A t \in DOMAIN txs' : t = n + 1 \/ (t \in DOMAIN txs /\ t \in 1..n)
    BY <1>1, <1>2
<1>4. \A t \in DOMAIN txs' : TxSound(txs'[t], t)
    <2>1. \A t \in 1..n : TxSound(txs[t], t)
        BY <1>1 DEF GraphSound
    <2> QED BY <1>2, <1>3, <2>1 DEF n
<1>5. \A t \in DOMAIN txs' : Confirmed(t)' => t \in 1..n /\ Confirmed(t) /\ txs'[t] = txs[t] /\ t \in DOMAIN txs
    BY <1>1, <1>2, <1>3 DEF Confirmed
<1>6. ASSUME NEW t \in 1..n, NEW p \in Parents(t)' PROVE p \in Parents(t) /\ p \in 1..n
    <2>1. PICK i \in DOMAIN txs[t].ins : p = txs[t].ins[i].op[1] /\ p \in Held'
        <3>1. p \in Held' /\ \E op \in Spent(txs'[t]) : p = op[1]
            BY DEF Parents
        <3>2. txs'[t] = txs[t]
            BY <1>2
        <3>3. PICK op \in Spent(txs[t]) : p = op[1]
            BY <3>1, <3>2
        <3> QED BY <3>1, <3>3 DEF Spent
    <2>2. p < t /\ p \in DOMAIN txs'
        BY <1>1, <2>1 DEF GraphSound, TxSound, Held
    <2>3. p \in 1..n
        BY <1>1, <1>2, <2>2
    <2>4. p \in Held
        BY <1>1, <1>2, <2>1, <2>3 DEF Held
    <2> QED BY <2>1, <2>3, <2>4 DEF Parents, Spent
<1>7. ASSUME NEW t \in DOMAIN txs', Confirmed(t)', NEW p \in Parents(t)' PROVE Confirmed(p)'
    <2>1. t \in 1..n /\ Confirmed(t) /\ t \in DOMAIN txs
        BY <1>5, <1>7
    <2>2. p \in Parents(t) /\ p \in 1..n
        BY <1>6, <1>7, <2>1
    <2>3. Confirmed(p)
        BY <2>1, <2>2 DEF GraphSound
    <2> QED BY <1>2, <2>2, <2>3 DEF Confirmed
<1>8. ASSUME NEW t \in DOMAIN txs', NEW u \in DOMAIN txs', Confirmed(t)', Confirmed(u)' PROVE ~Conflicting(t, u)'
    <2>1. ~Conflicting(t, u)
        BY <1>5, <1>8 DEF GraphSound
    <2> QED BY <1>5, <1>8, <2>1 DEF Conflicting
<1> QED BY <1>2, <1>4, <1>7, <1>8 DEF GraphSound

\* A graph of which some canonical transaction got into a block.
LEMMA MineKeeps ==
    ASSUME GraphSound, tip \in Nat, NEW t \in DOMAIN txs, Mine(t)
    PROVE  GraphSound' /\ tip' \in Nat
<1> DEFINE own == {t} \cup Ancestors[t]
<1>1. /\ t \in Canonical /\ tip' = tip + 1
      /\ txs' = [u \in DOMAIN txs |-> IF u \in own /\ ~Confirmed(u)
                                      THEN [txs[u] EXCEPT !.height = tip + 1] ELSE txs[u]]
    BY DEF Mine
<1>2. own \subseteq Canonical /\ own \subseteq DOMAIN txs
    BY <1>1, CanonicalConsistent DEF Consistent
<1>3. \A u \in own : Parents(u) \subseteq own
    <2>1. Parents(t) \subseteq own
        BY AncestorsOf
    <2>2. \A u \in Ancestors[t] : Parents(u) \subseteq own
        BY AncestorsTransitive
    <2> QED BY <2>1, <2>2
<1> HIDE DEF own
<1>4. txs \in Seq(Transactions) /\ DOMAIN txs = 1..Len(txs) /\ Len(txs) \in Nat
    BY DEF GraphSound
<1>5. ASSUME NEW u \in DOMAIN txs
      PROVE  /\ txs'[u] \in Transactions /\ txs'[u].ins = txs[u].ins /\ txs'[u].floating = txs[u].floating
             /\ (Confirmed(u)' <=> Confirmed(u) \/ u \in own)
    <2>1. txs[u] \in Transactions
        BY <1>4
    <2>2. CASE u \in own /\ ~Confirmed(u)
        <3>1. txs'[u] = [txs[u] EXCEPT !.height = tip + 1]
            BY <1>1, <2>2
        <3>2. txs'[u] \in Transactions /\ txs'[u].ins = txs[u].ins /\ txs'[u].floating = txs[u].floating /\ txs'[u].height = tip + 1
            <4> DEFINE tx == txs[u]
                       h == tip + 1
            <4>1. h \in Nat /\ tx \in Transactions
                BY <2>1
            <4>2. txs'[u] = [tx EXCEPT !.height = h]
                BY <3>1
            <4> HIDE DEF tx, h
            <4>3. [tx EXCEPT !.height = h] \in Transactions
                BY <4>1 DEF Transactions
            <4>4. LET new == [tx EXCEPT !.height = h]
                  IN  new.ins = tx.ins /\ new.floating = tx.floating /\ new.height = h
                BY <4>1 DEF Transactions
            <4> QED BY <4>2, <4>3, <4>4 DEF tx, h
        <3> QED BY <2>2, <3>2 DEF Confirmed
    <2>3. CASE ~(u \in own /\ ~Confirmed(u))
        <3>1. txs'[u] = txs[u]
            BY <1>1, <2>3
        <3> QED BY <2>1, <2>3, <3>1 DEF Confirmed
    <2> QED BY <2>2, <2>3
<1>6. DOMAIN txs' = DOMAIN txs /\ txs' \in Seq(Transactions)
    <2>1. DOMAIN txs' = 1..Len(txs) /\ txs' = [u \in 1..Len(txs) |-> txs'[u]]
        BY <1>1, <1>4
    <2> QED BY <1>4, <1>5, <2>1
<1>7. Held' = Held
    BY <1>5, <1>6 DEF Held
<1>8. \A u \in DOMAIN txs : Spent(txs'[u]) = Spent(txs[u]) /\ Parents(u)' = Parents(u)
    BY <1>5, <1>7 DEF Parents, Spent
<1>9. \A u \in DOMAIN txs' : TxSound(txs'[u], u)
    <2>1. \A u \in DOMAIN txs : TxSound(txs[u], u)
        BY DEF GraphSound
    <2> QED BY <1>5, <1>6, <2>1 DEF TxSound
<1>10. ASSUME NEW u \in DOMAIN txs', Confirmed(u)', NEW p \in Parents(u)' PROVE Confirmed(p)'
    <2>1. p \in Parents(u) /\ p \in DOMAIN txs /\ (Confirmed(u) \/ u \in own)
        BY <1>5, <1>6, <1>8, <1>10 DEF Parents, Held
    <2>2. Confirmed(p) \/ p \in own
        BY <1>3, <1>6, <2>1 DEF GraphSound
    <2> QED BY <1>5, <2>1, <2>2
<1>11. ASSUME NEW u \in DOMAIN txs', NEW v \in DOMAIN txs', Confirmed(u)', Confirmed(v)' PROVE ~Conflicting(u, v)'
    <2>1. u \in Canonical /\ v \in Canonical
        BY <1>2, <1>5, <1>6, <1>11, CanonicalConsistent
    <2>2. ~Conflicting(u, v)
        BY <2>1, CanonicalConsistent DEF Consistent
    <2> QED BY <1>6, <1>8, <2>2 DEF Conflicting
<1>12. GraphSound'
    BY <1>6, <1>9, <1>10, <1>11 DEF GraphSound
<1> QED BY <1>1, <1>12

-----------------------------------------------------------------------------
(***************************************************************************)
(* Amounts.                                                                *)
(***************************************************************************)
Amounts(s) == [i \in DOMAIN s |-> s[i].value]
ValuesOf(ins) == [i \in DOMAIN ins |-> TxOut(ins[i].op).value]

\* What a list of outputs, or of coins, is worth.
LEMMA AmountsAdd ==
    ASSUME NEW A, \A a \in A : a.value \in Nat, NEW s \in Seq(A)
    PROVE  Amounts(s) \in [1..Len(s) -> Int] /\ SumOver(Amounts(s)) \in Nat
<1>1. Amounts(s) \in [1..Len(s) -> Int] /\ \A i \in 1..Len(s) : Amounts(s)[i] >= 0
    BY DEF Amounts
<1>2. IsFiniteSet(1..Len(s))
    BY FiniteUpTo
<1> HIDE DEF Amounts
<1>3. SumOver(Amounts(s)) \in Int /\ SumOver(Amounts(s)) >= 0
    BY <1>1, <1>2, SumRemove, SumNonnegative
<1> QED BY <1>1, <1>3

\* Sizes are positive.
LEMMA WeightPositive ==
    ASSUME NEW m \in Nat, NEW n \in Nat
    PROVE  /\ Weight(m, n) \in Nat \ {0}
           /\ Weight(m, n) = BaseWeight + m * InWeight + n * OutWeight + CountWeight(m) + CountWeight(n)
           /\ CountWeight(m) \in Nat /\ CountWeight(n) \in Nat
<1>1. BaseWeight \in Nat /\ InWeight \in Nat /\ OutWeight \in Nat /\ BaseWeight > 0 /\ CountGrowth \in Nat
    BY SpendingAssumption
<1>2. m * InWeight \in Nat /\ n * OutWeight \in Nat
    BY <1>1
<1>3. CountWeight(m) \in Nat /\ CountWeight(n) \in Nat
    BY <1>1 DEF CountWeight
<1> QED BY <1>1, <1>2, <1>3 DEF Weight

\* A number that is no smaller takes no less room, and that of no inputs none.
LEMMA CountsGrow ==
    /\ CountWeight(0) = 0
    /\ \A m, n \in Nat : m <= n => CountWeight(m) <= CountWeight(n)
<1>1. CountGrowth \in Nat /\ CountLimit \in Nat \ {0}
    BY SpendingAssumption
<1> QED BY <1>1 DEF CountWeight

\* The fee of a transaction of which every input is known.
LEMMA FeeIs ==
    ASSUME GraphSound, NEW tx \in Transactions, FeeKnown(tx)
    PROVE  /\ ValuesOf(tx.ins) \in [1..Len(tx.ins) -> Int]
           /\ \A i \in DOMAIN tx.ins : ValuesOf(tx.ins)[i] \in Nat
           /\ calculate_fee(tx) = SumOver(ValuesOf(tx.ins)) - SumOver(Amounts(tx.outs))
           /\ SumOver(ValuesOf(tx.ins)) \in Int /\ SumOver(Amounts(tx.outs)) \in Nat
           /\ calculate_fee(tx) \in Int
<1>1. tx.ins \in Seq(InputData) /\ tx.outs \in Seq(OutputData)
    BY DEF Transactions
<1>2. ASSUME NEW i \in DOMAIN tx.ins PROVE TxOut(tx.ins[i].op).value \in Nat
    <2>1. Known(tx.ins[i].op)
        BY DEF FeeKnown, Spent
    <2> DEFINE op == tx.ins[i].op
    <2>2. txs[op[1]] \in Transactions /\ op[2] \in DOMAIN txs[op[1]].outs
        BY <2>1 DEF Known, GraphSound
    <2>3. txs[op[1]].outs \in Seq(OutputData)
        BY <2>2 DEF Transactions
    <2>4. txs[op[1]].outs[op[2]] \in OutputData
        BY <2>2, <2>3
    <2> QED BY <2>4 DEF TxOut, OutputData
<1>3. DOMAIN tx.ins = 1..Len(tx.ins)
    BY <1>1
<1>4. ValuesOf(tx.ins) \in [1..Len(tx.ins) -> Int] /\ \A i \in DOMAIN tx.ins : ValuesOf(tx.ins)[i] \in Nat
    BY <1>2, <1>3 DEF ValuesOf
<1>5. SumOver(ValuesOf(tx.ins)) \in Int
    <2>1. Len(tx.ins) \in Nat
        BY <1>1
    <2>2. IsFiniteSet(1..Len(tx.ins))
        BY <2>1, FiniteUpTo
    <2> HIDE DEF ValuesOf
    <2> QED BY <1>4, <2>2, SumRemove
<1>6. SumOver(Amounts(tx.outs)) \in Nat
    <2>1. \A a \in OutputData : a.value \in Nat
        BY DEF OutputData
    <2> QED BY <1>1, <2>1, AmountsAdd
<1>7. calculate_fee(tx) = SumOver(ValuesOf(tx.ins)) - SumOver(Amounts(tx.outs))
    BY DEF calculate_fee, SumOf, SumOver, ValuesOf, Amounts
<1>8. calculate_fee(tx) \in Int
    BY <1>5, <1>6, <1>7
<1> QED BY <1>4, <1>5, <1>6, <1>7, <1>8

\* The fee is the difference of two sums, now and in the next state.
LEMMA FeeSum == \A tx : calculate_fee(tx) = SumOver(ValuesOf(tx.ins)) - SumOver(Amounts(tx.outs))
BY DEF calculate_fee, SumOf, SumOver, ValuesOf, Amounts

\* The same, in the next state.
LEMMA FeeSumNext == (\A tx : calculate_fee(tx) = SumOver(ValuesOf(tx.ins)) - SumOver(Amounts(tx.outs)))'
BY FeeSum, PTL

\* The values of h, at A, are some of those of f, at D, which are not negative.
PartOf(h, A, f, D, q) ==
    /\ IsFiniteSet(D) /\ f \in [D -> Int] /\ (\A x \in D : f[x] >= 0)
    /\ IsFiniteSet(A) /\ q \in [A -> D] /\ (\A x, y \in A : q[x] = q[y] => x = y)
    /\ h \in [A -> Int] /\ (\A x \in A : h[x] = f[q[x]])

\* Some of the terms of a sum make no more than all of them.
LEMMA SumPart ==
    ASSUME NEW h, NEW A, NEW f, NEW D, NEW q, PartOf(h, A, f, D, q)
    PROVE  SumOver(h) <= SumOver(f)
<1> USE DEF PartOf
<1> DEFINE B == {q[x] : x \in A}
           g == [d \in B |-> f[d]]
           k == [d \in D \ B |-> f[d]]
<1>1. B \in SUBSET D /\ IsFiniteSet(B) /\ IsFiniteSet(D \ B)
    <2>1. B \in SUBSET D
        OBVIOUS
    <2> HIDE DEF B
    <2> QED BY <2>1, FS_Subset
<1>2. Renumbers(h, A, g, B, q)
    <2>1. q \in [A -> B] /\ \A d \in B : \E x \in A : q[x] = d
        OBVIOUS
    <2>2. \A x \in A : q[x] \in B
        OBVIOUS
    <2> HIDE DEF B
    <2>3. g \in [B -> Int] /\ \A d \in B : g[d] = f[d]
        BY <1>1
    <2> HIDE DEF g
    <2> QED BY <1>1, <2>1, <2>2, <2>3 DEF Renumbers
<1> HIDE DEF B
<1>3. SumOver(f) = SumOver(g) + SumOver(k)
    BY <1>1, SumSplit
<1>4. g \in [B -> Int] /\ k \in [D \ B -> Int] /\ \A d \in D \ B : k[d] >= 0
    BY <1>1
<1> HIDE DEF g, k
<1>5. SumOver(h) = SumOver(g)
    BY <1>2, SumReindex
<1>6. SumOver(k) >= 0 /\ SumOver(k) \in Int /\ SumOver(g) \in Int
    BY <1>1, <1>4, SumNonnegative, SumRemove
<1> QED BY <1>3, <1>5, <1>6
==============================================================================

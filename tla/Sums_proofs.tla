----------------------------- MODULE Sums_proofs -----------------------------
(***************************************************************************)
(* Finite sums.  The models add amounts, weights and fees with the folds   *)
(* of the community modules, which take the elements of a set in an order  *)
(* nobody knows.  These lemmas say that a sum over a finite set is a       *)
(* number and does not depend on that order, and how it splits.            *)
(*                                                                         *)
(* A fold is a recursive function on the subsets of its set.  Every lemma  *)
(* about all subsets is proved by looking at a smallest one that refutes   *)
(* it.                                                                     *)
(***************************************************************************)
EXTENDS Integers, Functions, FiniteSetsExt, FiniteSetTheorems, WellFoundedInduction, TLAPS

\* The sum of the values of a function, as CoinSelection and SelectionContract write it.
SumOver(f) == FoldFunction(+, 0, f)

\* The function the fold defines on the subsets of D.
Pick(s) == CHOOSE x \in s : TRUE
PlusPick(G, f, s) == IF s = {} THEN 0 ELSE f[Pick(s)] + G[s \ {Pick(s)}]
IsTotal(G, f, D) == G = [s \in SUBSET D |-> PlusPick(G, f, s)]

\* A function that satisfies the recursion up to subsets of n elements.
Approximates(G, f, D, n) ==
    /\ G \in [SUBSET D -> Int]
    /\ \A s \in SUBSET D : Cardinality(s) <= n => G[s] = PlusPick(G, f, s)

\* A function of the subsets that grows by the value of whatever element is added.
Grows(G, f, D) ==
    /\ G \in [SUBSET D -> Int]
    /\ G[{}] = 0
    /\ \A s \in SUBSET D : \A x \in s : G[s] = f[x] + G[s \ {x}]

-----------------------------------------------------------------------------
\* A set of natural numbers that is not empty has a least element.
LEMMA LeastNatural ==
    ASSUME NEW T, T \subseteq Nat, T # {}
    PROVE  \E x \in T : \A y \in T : x <= y
<1>1. PICK x \in T : \A y \in T : ~ (<<y, x>> \in OpToRel(<, Nat))
    BY NatLessThanWellFounded, WFMin, Zenon
<1>2. \A y \in T : ~(y < x)
    BY <1>1 DEF OpToRel
<1> QED BY <1>2

\* The minimum, as FiniteSetsExt defines it.
LEMMA MinIs ==
    ASSUME NEW S \in SUBSET Int, NEW m \in S, \A y \in S : m <= y
    PROVE  Min(S) = m
<1>1. Min(S) \in S /\ \A y \in S : Min(S) <= y
    BY DEF Min
<1>2. Min(S) \in Int /\ m \in Int /\ m <= Min(S) /\ Min(S) <= m
    BY <1>1
<1> QED BY <1>2

\* A set of natural numbers that is not empty has a minimum.
LEMMA MinOfNaturals ==
    ASSUME NEW S \in SUBSET Nat, S # {}
    PROVE  Min(S) \in S /\ \A y \in S : Min(S) <= y
<1>1. \E x \in S : \A y \in S : x <= y
    BY LeastNatural
<1> QED BY <1>1 DEF Min

\* A bounded set of natural numbers that is not empty has a maximum.
LEMMA MaxOfNaturals ==
    ASSUME NEW n \in Nat, NEW S \in SUBSET (0..n), S # {}
    PROVE  Max(S) \in S /\ \A y \in S : Max(S) >= y
<1> DEFINE T == {n - y : y \in S}
<1>1. \A y \in S : n - y \in Nat
    OBVIOUS
<1>2. T \subseteq Nat
    BY <1>1
<1>3. PICK s \in S : n - s \in T
    OBVIOUS
<1>4. PICK m \in T : \A z \in T : m <= z
    BY <1>2, <1>3, LeastNatural
<1>5. PICK x \in S : m = n - x
    OBVIOUS
<1>6. ASSUME NEW y \in S PROVE x >= y
    <2>1. n - x <= n - y
        BY <1>4, <1>5
    <2>2. x \in 0..n /\ y \in 0..n
        BY <1>5
    <2> QED BY <2>1, <2>2
<1> QED BY <1>6 DEF Max

\* An injection of as many numbers as a set has elements reaches each of them.
LEMMA NumberingReaches ==
    ASSUME NEW S, IsFiniteSet(S), NEW p \in [1..Cardinality(S) -> S], IsInjective(p)
    PROVE  /\ \A x, y \in 1..Cardinality(S) : p[x] = p[y] => x = y
           /\ \A s \in S : \E x \in 1..Cardinality(S) : p[x] = s
<1>1. Cardinality(S) \in Nat
    BY FS_CardinalityType
<1>2. Cardinality(1..Cardinality(S)) = Cardinality(S)
    BY <1>1, FS_Interval
<1>3. p \in Injection(1..Cardinality(S), S)
    BY DEF Injection
<1>4. p \in Surjection(1..Cardinality(S), S)
    BY <1>2, <1>3, FS_Injection
<1>5. \A s \in S : \E x \in 1..Cardinality(S) : p[x] = s
    BY <1>4 DEF Surjection
<1>6. \A x, y \in 1..Cardinality(S) : p[x] = p[y] => x = y
    BY DEF IsInjective
<1> QED BY <1>5, <1>6

\* Without one of its elements a subset of a finite set has one element less.
LEMMA SubsetSize ==
    ASSUME NEW D, IsFiniteSet(D), NEW s \in SUBSET D
    PROVE  /\ IsFiniteSet(s) /\ Cardinality(s) \in Nat
           /\ Cardinality(s) = 0 <=> s = {}
           /\ \A x \in s : Cardinality(s \ {x}) = Cardinality(s) - 1
<1>1. IsFiniteSet(s)
    BY FS_Subset
<1>2. Cardinality(s) \in Nat /\ (Cardinality(s) = 0 <=> s = {})
    BY <1>1, FS_CardinalityType, FS_EmptySet
<1>3. \A x \in s : Cardinality(s \ {x}) = Cardinality(s) - 1
    BY <1>1, FS_RemoveElement
<1> QED BY <1>1, <1>2, <1>3

\* The element a fold takes first is one of the set.
LEMMA PickIn ==
    ASSUME NEW s, s # {}
    PROVE  Pick(s) \in s
BY DEF Pick

\* The recursion of a fold can be satisfied up to any size.
LEMMA ApproximationExists ==
    ASSUME NEW D, IsFiniteSet(D), NEW f \in [D -> Int], NEW n \in Nat
    PROVE  \E G : Approximates(G, f, D, n)
<1> DEFINE T == {m \in Nat : ~ \E G : Approximates(G, f, D, m)}
<1> SUFFICES ASSUME T # {} PROVE FALSE
    OBVIOUS
<1>1. PICK m \in T : \A y \in T : m <= y
    BY LeastNatural
<1>2. m # 0
    <2> DEFINE Z == [s \in SUBSET D |-> 0]
    <2>1. \A s \in SUBSET D : Cardinality(s) <= 0 => s = {}
        BY SubsetSize
    <2>2. Approximates(Z, f, D, 0)
        BY <2>1 DEF Approximates, PlusPick
    <2> QED BY <2>2
<1>3. PICK G : Approximates(G, f, D, m - 1)
    <2>1. m - 1 \in Nat /\ ~(m <= m - 1)
        BY <1>2
    <2> QED BY <1>1, <2>1
<1> DEFINE H == [s \in SUBSET D |-> IF Cardinality(s) < m THEN G[s] ELSE PlusPick(G, f, s)]
<1>4. \A s \in SUBSET D : s # {} =>
         Pick(s) \in s /\ s \ {Pick(s)} \in SUBSET D /\ Cardinality(s \ {Pick(s)}) = Cardinality(s) - 1
    BY PickIn, SubsetSize
<1>5. H \in [SUBSET D -> Int]
    <2>1. ASSUME NEW s \in SUBSET D PROVE PlusPick(G, f, s) \in Int
        <3>1. CASE s = {}
            BY <3>1 DEF PlusPick
        <3>2. CASE s # {}
            <4>1. Pick(s) \in D /\ s \ {Pick(s)} \in SUBSET D
                BY <1>4, <3>2
            <4> QED BY <1>3, <3>2, <4>1 DEF PlusPick, Approximates
        <3> QED BY <3>1, <3>2
    <2> QED BY <1>3, <2>1 DEF Approximates
<1>6. ASSUME NEW s \in SUBSET D, Cardinality(s) <= m PROVE H[s] = PlusPick(H, f, s)
    <2>1. H[s] = PlusPick(G, f, s)
        <3>1. CASE Cardinality(s) < m
            <4>1. Cardinality(s) <= m - 1
                BY <3>1, SubsetSize
            <4> QED BY <1>3, <3>1, <4>1 DEF Approximates
        <3>2. CASE ~(Cardinality(s) < m)
            BY <3>2
        <3> QED BY <3>1, <3>2
    <2>2. CASE s = {}
        BY <2>1, <2>2 DEF PlusPick
    <2>3. CASE s # {}
        <3>1. s \ {Pick(s)} \in SUBSET D /\ Cardinality(s \ {Pick(s)}) = Cardinality(s) - 1
            BY <1>4, <2>3
        <3>2. Cardinality(s \ {Pick(s)}) < m
            BY <1>6, <3>1, SubsetSize
        <3>3. H[s \ {Pick(s)}] = G[s \ {Pick(s)}]
            BY <3>1, <3>2
        <3> HIDE DEF H
        <3> QED BY <2>1, <2>3, <3>3 DEF PlusPick
    <2> QED BY <2>2, <2>3
<1>7. Approximates(H, f, D, m)
    <2> HIDE DEF H
    <2> QED BY <1>5, <1>6 DEF Approximates
<1> QED BY <1>7

\* The recursion of a fold over a finite set defines a function into the integers.
LEMMA TotalExists ==
    ASSUME NEW D, IsFiniteSet(D), NEW f \in [D -> Int]
    PROVE  \E G : IsTotal(G, f, D)
<1>1. Cardinality(D) \in Nat
    BY FS_CardinalityType
<1>2. PICK G : Approximates(G, f, D, Cardinality(D))
    BY <1>1, ApproximationExists
<1>3. \A s \in SUBSET D : Cardinality(s) <= Cardinality(D)
    BY FS_Subset
<1>4. \A s \in SUBSET D : G[s] = PlusPick(G, f, s)
    BY <1>2, <1>3 DEF Approximates
<1>5. G = [s \in SUBSET D |-> PlusPick(G, f, s)]
    BY <1>2, <1>4 DEF Approximates
<1> QED BY <1>5 DEF IsTotal

\* A total of integers is an integer, whatever is taken first.
LEMMA TotalFields ==
    ASSUME NEW D, IsFiniteSet(D), NEW f \in [D -> Int], NEW G, IsTotal(G, f, D)
    PROVE  Grows(G, f, D)
<1>1. G = [s \in SUBSET D |-> G[s]] /\ \A s \in SUBSET D : G[s] = PlusPick(G, f, s)
    BY Zenon DEF IsTotal
<1>2. G[{}] = 0
    BY <1>1 DEF PlusPick
<1>3. ASSUME NEW s \in SUBSET D, s # {}
      PROVE  /\ Pick(s) \in s /\ Pick(s) \in D /\ s \ {Pick(s)} \in SUBSET D
             /\ Cardinality(s \ {Pick(s)}) = Cardinality(s) - 1 /\ Cardinality(s) \in Nat
             /\ G[s] = f[Pick(s)] + G[s \ {Pick(s)}]
    BY <1>1, <1>3, PickIn, SubsetSize DEF PlusPick
<1>4. \A s \in SUBSET D : G[s] \in Int
    <2> DEFINE T == {n \in Nat : \E s \in SUBSET D : Cardinality(s) = n /\ G[s] \notin Int}
    <2> SUFFICES ASSUME T # {} PROVE FALSE
        BY SubsetSize
    <2>1. PICK m \in T : \A y \in T : m <= y
        BY LeastNatural
    <2>2. PICK s \in SUBSET D : Cardinality(s) = m /\ G[s] \notin Int
        OBVIOUS
    <2>3. s # {}
        BY <1>2, <2>2
    <2>4. G[s \ {Pick(s)}] \in Int
        <3>1. m - 1 \in Nat /\ ~(m <= m - 1) /\ Cardinality(s \ {Pick(s)}) = m - 1 /\ s \ {Pick(s)} \in SUBSET D
            BY <1>3, <2>2, <2>3, SubsetSize
        <3> QED BY <2>1, <3>1
    <2>5. f[Pick(s)] \in Int /\ G[s] = f[Pick(s)] + G[s \ {Pick(s)}]
        BY <1>3, <2>3
    <2> QED BY <2>2, <2>4, <2>5
<1>5. G \in [SUBSET D -> Int]
    BY <1>1, <1>4
<1>6. ASSUME NEW S \in SUBSET D, NEW a \in S PROVE G[S] = f[a] + G[S \ {a}]
    <2> DEFINE T == {n \in Nat : \E s \in SUBSET D : \E x \in s : Cardinality(s) = n /\ G[s] # f[x] + G[s \ {x}]}
    <2> SUFFICES ASSUME G[S] # f[a] + G[S \ {a}] PROVE FALSE
        OBVIOUS
    <2>a. Cardinality(S) \in T
        BY SubsetSize
    <2>1. PICK m \in T : \A y \in T : m <= y
        BY <2>a, LeastNatural
    <2>0. PICK s \in SUBSET D : \E x \in s : Cardinality(s) = m /\ G[s] # f[x] + G[s \ {x}]
        OBVIOUS
    <2>2. PICK x \in s : Cardinality(s) = m /\ G[s] # f[x] + G[s \ {x}]
        BY <2>0
    <2> DEFINE c == Pick(s)
    <2>3. c \in s /\ G[s] = f[c] + G[s \ {c}] /\ m # 0
        BY <1>3, <2>2, SubsetSize
    <2> HIDE DEF c
    <2>4. c # x
        BY <2>2, <2>3
    <2>5. ASSUME NEW t \in SUBSET D, NEW y \in t, Cardinality(t) = m - 1 PROVE G[t] = f[y] + G[t \ {y}]
        <3>1. m - 1 \in Nat /\ ~(m <= m - 1)
            BY <2>3
        <3> QED BY <2>1, <2>5, <3>1
    <2>6. /\ s \ {c} \in SUBSET D /\ s \ {x} \in SUBSET D /\ x \in s \ {c} /\ c \in s \ {x}
          /\ Cardinality(s \ {c}) = m - 1 /\ Cardinality(s \ {x}) = m - 1
        BY <2>2, <2>3, <2>4, SubsetSize
    <2>7. G[s \ {c}] = f[x] + G[(s \ {c}) \ {x}]
        BY <2>5, <2>6
    <2>8. G[s \ {x}] = f[c] + G[(s \ {x}) \ {c}]
        BY <2>5, <2>6
    <2>9. (s \ {c}) \ {x} = (s \ {x}) \ {c} /\ (s \ {x}) \ {c} \in SUBSET D
        OBVIOUS
    <2>10. G[(s \ {x}) \ {c}] \in Int /\ f[c] \in Int /\ f[x] \in Int
        BY <1>4, <2>3, <2>9
    <2> DEFINE k == G[(s \ {x}) \ {c}]
    <2>11. G[s] = f[c] + (f[x] + k) /\ G[s \ {x}] = f[c] + k /\ k \in Int
        BY <2>3, <2>7, <2>8, <2>9, <2>10
    <2> HIDE DEF k
    <2>12. f[c] + (f[x] + k) = f[x] + (f[c] + k)
        BY <2>10, <2>11
    <2> QED BY <2>2, <2>11, <2>12
<1> QED BY <1>2, <1>5, <1>6 DEF Grows

\* Totals of functions that agree on a set agree on its subsets.
LEMMA TotalsAgree ==
    ASSUME NEW D, IsFiniteSet(D), NEW f \in [D -> Int], NEW G, IsTotal(G, f, D),
           NEW E \in SUBSET D, NEW h \in [E -> Int], \A x \in E : h[x] = f[x],
           NEW H, IsTotal(H, h, E)
    PROVE  \A s \in SUBSET E : H[s] = G[s]
<1> DEFINE T == {n \in Nat : \E s \in SUBSET E : Cardinality(s) = n /\ H[s] # G[s]}
<1>0. IsFiniteSet(E)
    BY FS_Subset
<1> SUFFICES ASSUME T # {} PROVE FALSE
    BY <1>0, SubsetSize
<1>1. PICK m \in T : \A y \in T : m <= y
    BY LeastNatural
<1>2. PICK s \in SUBSET E : Cardinality(s) = m /\ H[s] # G[s]
    OBVIOUS
<1>3. /\ G[{}] = 0 /\ \A t \in SUBSET D : \A x \in t : G[t] = f[x] + G[t \ {x}]
      /\ H[{}] = 0 /\ \A t \in SUBSET E : \A x \in t : H[t] = h[x] + H[t \ {x}]
    <2>1. Grows(G, f, D) /\ Grows(H, h, E)
        BY <1>0, TotalFields
    <2> QED BY <2>1 DEF Grows
<1>4. PICK x \in s : TRUE
    BY <1>2, <1>3
<1>5. H[s \ {x}] = G[s \ {x}]
    <2>1. m - 1 \in Nat /\ ~(m <= m - 1) /\ Cardinality(s \ {x}) = m - 1 /\ s \ {x} \in SUBSET E
        BY <1>0, <1>2, <1>4, SubsetSize
    <2> QED BY <1>1, <2>1
<1>6. H[s] = h[x] + H[s \ {x}] /\ G[s] = f[x] + G[s \ {x}] /\ h[x] = f[x]
    BY <1>3
<1> QED BY <1>2, <1>5, <1>6

\* What the fold computes is such a total.
LEMMA SumIsTotal ==
    ASSUME NEW D, NEW f, DOMAIN f = D, NEW G, IsTotal(G, f, D)
    PROVE  \E H : IsTotal(H, f, D) /\ SumOver(f) = H[D]
<1>1. SumOver(f) = (CHOOSE H : IsTotal(H, f, D))[D]
    BY DEF SumOver, FoldFunction, FoldFunctionOnSet, MapThenFoldSet, IsTotal, PlusPick, Pick
<1>2. IsTotal(CHOOSE H : IsTotal(H, f, D), f, D)
    OBVIOUS
<1> QED BY <1>1, <1>2

-----------------------------------------------------------------------------
\* All the sums over subsets of a finite set at once.
LEMMA SumsOfSubsets ==
    ASSUME NEW D, IsFiniteSet(D), NEW f \in [D -> Int]
    PROVE  \E G : Grows(G, f, D) /\ \A s \in SUBSET D : SumOver([i \in s |-> f[i]]) = G[s]
<1>1. PICK G : IsTotal(G, f, D)
    BY TotalExists
<1>2. Grows(G, f, D)
    BY <1>1, TotalFields
<1>3. ASSUME NEW s \in SUBSET D PROVE SumOver([i \in s |-> f[i]]) = G[s]
    <2> DEFINE h == [i \in s |-> f[i]]
    <2>1. IsFiniteSet(s) /\ h \in [s -> Int] /\ DOMAIN h = s /\ \A x \in s : h[x] = f[x]
        BY FS_Subset
    <2> HIDE DEF h
    <2>2. PICK H : IsTotal(H, h, s)
        BY <2>1, TotalExists
    <2>3. PICK K : IsTotal(K, h, s) /\ SumOver(h) = K[s]
        BY <2>1, <2>2, SumIsTotal
    <2>4. K[s] = G[s]
        BY <1>1, <2>1, <2>3, TotalsAgree
    <2> QED BY <2>3, <2>4 DEF h
<1> QED BY <1>2, <1>3

\* A sum over a finite set is an integer; any element may be added last.
LEMMA SumRemove ==
    ASSUME NEW D, IsFiniteSet(D), NEW f \in [D -> Int]
    PROVE  /\ SumOver(f) \in Int
           /\ D = {} => SumOver(f) = 0
           /\ \A x \in D : SumOver(f) = f[x] + SumOver([i \in D \ {x} |-> f[i]])
<1>1. PICK G : Grows(G, f, D) /\ \A s \in SUBSET D : SumOver([i \in s |-> f[i]]) = G[s]
    BY SumsOfSubsets
<1>2. f = [i \in D |-> f[i]]
    OBVIOUS
<1>3. SumOver(f) = G[D] /\ \A x \in D : SumOver([i \in D \ {x} |-> f[i]]) = G[D \ {x}]
    BY <1>1, <1>2
<1>4. /\ G[D] \in Int
      /\ D = {} => G[D] = 0
      /\ \A x \in D : G[D] = f[x] + G[D \ {x}]
    BY <1>1 DEF Grows
<1> QED BY <1>3, <1>4

\* A sum splits at any part of its set.
LEMMA SumSplit ==
    ASSUME NEW D, IsFiniteSet(D), NEW f \in [D -> Int], NEW A \in SUBSET D
    PROVE  SumOver(f) = SumOver([i \in A |-> f[i]]) + SumOver([i \in D \ A |-> f[i]])
<1>1. PICK G : Grows(G, f, D) /\ \A s \in SUBSET D : SumOver([i \in s |-> f[i]]) = G[s]
    BY SumsOfSubsets
<1>2. f = [i \in D |-> f[i]]
    OBVIOUS
<1>3. /\ SumOver(f) = G[D] /\ SumOver([i \in A |-> f[i]]) = G[A]
      /\ SumOver([i \in D \ A |-> f[i]]) = G[D \ A]
    BY <1>1, <1>2
<1> DEFINE T == {n \in Nat : \E B \in SUBSET D : Cardinality(B) = n /\ G[D] # G[B] + G[D \ B]}
<1>4. T = {}
    <2> SUFFICES ASSUME T # {} PROVE FALSE
        OBVIOUS
    <2>1. PICK m \in T : \A y \in T : m <= y
        BY LeastNatural
    <2>2. PICK B \in SUBSET D : Cardinality(B) = m /\ G[D] # G[B] + G[D \ B]
        OBVIOUS
    <2>3. B # {}
        <3>1. G[D] \in Int /\ G[{}] = 0
            BY <1>1 DEF Grows
        <3>2. ASSUME B = {} PROVE G[D] = G[B] + G[D \ B]
            <4>1. D \ B = D
                BY <3>2
            <4>2. G[D \ B] = G[D]
                BY <4>1, Zenon
            <4>3. G[B] = 0
                BY <3>1, <3>2, Zenon
            <4> QED BY <3>1, <4>2, <4>3
        <3> QED BY <2>2, <3>2
    <2>4. PICK x \in B : TRUE
        BY <2>3
    <2> DEFINE C == B \ {x}
    <2>5. G[D] = G[C] + G[D \ C]
        <3>1. m - 1 \in Nat /\ ~(m <= m - 1) /\ Cardinality(C) = m - 1 /\ C \in SUBSET D
            BY <2>2, <2>4, SubsetSize
        <3> QED BY <2>1, <3>1
    <2>6. G[B] = f[x] + G[C]
        BY <1>1 DEF Grows
    <2>7. G[D \ C] = f[x] + G[D \ B]
        <3>1. D \ C \in SUBSET D /\ x \in D \ C /\ (D \ C) \ {x} = D \ B
            BY <2>4
        <3>2. G[D \ C] = f[x] + G[(D \ C) \ {x}]
            BY <1>1, <3>1 DEF Grows
        <3> QED BY <3>1, <3>2
    <2>8. G[C] \in Int /\ G[D \ B] \in Int /\ f[x] \in Int
        BY <1>1 DEF Grows
    <2> QED BY <2>2, <2>5, <2>6, <2>7, <2>8
<1>5. G[D] = G[A] + G[D \ A]
    <2>1. Cardinality(A) \in Nat
        BY SubsetSize
    <2> QED BY <1>4, <2>1
<1> QED BY <1>3, <1>5

\* A sum of numbers that are not negative is not negative.
LEMMA SumNonnegative ==
    ASSUME NEW D, IsFiniteSet(D), NEW f \in [D -> Int], \A x \in D : f[x] >= 0
    PROVE  SumOver(f) >= 0
<1>1. PICK G : Grows(G, f, D) /\ \A s \in SUBSET D : SumOver([i \in s |-> f[i]]) = G[s]
    BY SumsOfSubsets
<1>2. f = [i \in D |-> f[i]]
    OBVIOUS
<1>3. SumOver(f) = G[D]
    BY <1>1, <1>2
<1> DEFINE T == {n \in Nat : \E s \in SUBSET D : Cardinality(s) = n /\ ~(G[s] >= 0)}
<1>4. T = {}
    <2> SUFFICES ASSUME T # {} PROVE FALSE
        OBVIOUS
    <2>1. PICK m \in T : \A y \in T : m <= y
        BY LeastNatural
    <2>2. PICK s \in SUBSET D : Cardinality(s) = m /\ ~(G[s] >= 0)
        OBVIOUS
    <2>3. s # {}
        <3>1. G[{}] = 0
            BY <1>1 DEF Grows
        <3> QED BY <2>2, <3>1
    <2>4. PICK x \in s : TRUE
        BY <2>3
    <2>5. G[s \ {x}] >= 0
        <3>1. m - 1 \in Nat /\ ~(m <= m - 1) /\ Cardinality(s \ {x}) = m - 1 /\ s \ {x} \in SUBSET D
            BY <2>2, <2>4, SubsetSize
        <3> QED BY <2>1, <3>1
    <2>6. G[s] = f[x] + G[s \ {x}] /\ f[x] \in Int /\ f[x] >= 0 /\ G[s \ {x}] \in Int
        BY <1>1 DEF Grows
    <2> QED BY <2>2, <2>5, <2>6
<1> QED
    <2>1. Cardinality(D) \in Nat /\ D \in SUBSET D
        BY SubsetSize
    <2> QED BY <1>3, <1>4, <2>1

\* h lists the values f has on D, with A for D: p tells which is which.
Renumbers(h, A, f, D, p) ==
    /\ IsFiniteSet(D) /\ f \in [D -> Int] /\ IsFiniteSet(A) /\ p \in [A -> D]
    /\ \A x, y \in A : p[x] = p[y] => x = y
    /\ \A d \in D : \E x \in A : p[x] = d
    /\ h \in [A -> Int] /\ \A x \in A : h[x] = f[p[x]]

\* A sum does not depend on how its terms are numbered.
LEMMA SumReindex ==
    ASSUME NEW D, NEW f, NEW A, NEW p, NEW h, Renumbers(h, A, f, D, p)
    PROVE  SumOver(h) = SumOver(f)
<1> USE DEF Renumbers
<1> DEFINE Im(B) == {p[x] : x \in B}
<1>0. h \in [A -> Int] /\ (\A x \in A : h[x] = f[p[x]])
    OBVIOUS
<1>1. PICK G : Grows(G, f, D) /\ \A s \in SUBSET D : SumOver([i \in s |-> f[i]]) = G[s]
    BY SumsOfSubsets
<1>2. PICK H : Grows(H, h, A) /\ \A s \in SUBSET A : SumOver([i \in s |-> h[i]]) = H[s]
    BY <1>0, SumsOfSubsets
<1>3. f = [i \in D |-> f[i]] /\ h = [x \in A |-> h[x]]
    BY <1>0
<1>4. SumOver(f) = G[D] /\ SumOver(h) = H[A]
    BY <1>1, <1>2, <1>3
<1> DEFINE T == {n \in Nat : \E B \in SUBSET A : Cardinality(B) = n /\ H[B] # G[Im(B)]}
<1>5. T = {}
    <2> SUFFICES ASSUME T # {} PROVE FALSE
        OBVIOUS
    <2>1. PICK m \in T : \A y \in T : m <= y
        BY LeastNatural
    <2>2. PICK B \in SUBSET A : Cardinality(B) = m /\ H[B] # G[Im(B)]
        OBVIOUS
    <2>3. B # {}
        <3>1. H[{}] = 0 /\ G[{}] = 0
            BY <1>1, <1>2 DEF Grows
        <3>2. Im({}) = {}
            OBVIOUS
        <3> HIDE DEF Im
        <3> QED BY <2>2, <3>1, <3>2
    <2>4. PICK x \in B : TRUE
        BY <2>3
    <2>5. H[B \ {x}] = G[Im(B \ {x})]
        <3>1. m - 1 \in Nat /\ ~(m <= m - 1) /\ Cardinality(B \ {x}) = m - 1 /\ B \ {x} \in SUBSET A
            BY <2>2, <2>4, SubsetSize
        <3> HIDE DEF Im
        <3> QED BY <2>1, <3>1
    <2>6. Im(B) \in SUBSET D /\ p[x] \in Im(B) /\ Im(B) \ {p[x]} = Im(B \ {x})
        BY <2>4
    <2> HIDE DEF Im
    <2>7. H[B] = h[x] + H[B \ {x}]
        BY <1>2, <2>4 DEF Grows
    <2>8. G[Im(B)] = f[p[x]] + G[Im(B \ {x})]
        <3>1. G[Im(B)] = f[p[x]] + G[Im(B) \ {p[x]}]
            BY <1>1, <2>6 DEF Grows
        <3> QED BY <2>6, <3>1
    <2>9. h[x] = f[p[x]]
        BY <1>0, <2>4
    <2> QED BY <2>2, <2>5, <2>7, <2>8, <2>9
<1>6. H[A] = G[Im(A)]
    <2>1. Cardinality(A) \in Nat /\ A \in SUBSET A
        BY SubsetSize
    <2> HIDE DEF Im
    <2> QED BY <1>5, <2>1
<1>7. Im(A) = D
    OBVIOUS
<1> HIDE DEF Im
<1> QED BY <1>4, <1>6, <1>7

\* The sum of sums, term by term.
LEMMA SumPlus ==
    ASSUME NEW D, IsFiniteSet(D), NEW f \in [D -> Int], NEW g \in [D -> Int]
    PROVE  SumOver([i \in D |-> f[i] + g[i]]) = SumOver(f) + SumOver(g)
<1> DEFINE h == [i \in D |-> f[i] + g[i]]
<1>0. h \in [D -> Int] /\ (\A x \in D : h[x] = f[x] + g[x])
    OBVIOUS
<1> HIDE DEF h
<1>1. PICK F : Grows(F, f, D) /\ \A s \in SUBSET D : SumOver([i \in s |-> f[i]]) = F[s]
    BY SumsOfSubsets
<1>2. PICK G : Grows(G, g, D) /\ \A s \in SUBSET D : SumOver([i \in s |-> g[i]]) = G[s]
    BY SumsOfSubsets
<1>3. PICK H : Grows(H, h, D) /\ \A s \in SUBSET D : SumOver([i \in s |-> h[i]]) = H[s]
    BY <1>0, SumsOfSubsets
<1>4. f = [i \in D |-> f[i]] /\ g = [i \in D |-> g[i]] /\ h = [i \in D |-> h[i]]
    BY <1>0
<1>5. SumOver(f) = F[D] /\ SumOver(g) = G[D] /\ SumOver(h) = H[D]
    BY <1>1, <1>2, <1>3, <1>4
<1> DEFINE T == {n \in Nat : \E s \in SUBSET D : Cardinality(s) = n /\ H[s] # F[s] + G[s]}
<1>6. T = {}
    <2> SUFFICES ASSUME T # {} PROVE FALSE
        OBVIOUS
    <2>1. PICK m \in T : \A y \in T : m <= y
        BY LeastNatural
    <2>2. PICK s \in SUBSET D : Cardinality(s) = m /\ H[s] # F[s] + G[s]
        OBVIOUS
    <2>3. s # {}
        <3>1. H[{}] = 0 /\ F[{}] = 0 /\ G[{}] = 0
            BY <1>1, <1>2, <1>3 DEF Grows
        <3> QED BY <2>2, <3>1
    <2>4. PICK x \in s : TRUE
        BY <2>3
    <2>5. H[s \ {x}] = F[s \ {x}] + G[s \ {x}]
        <3>1. m - 1 \in Nat /\ ~(m <= m - 1) /\ Cardinality(s \ {x}) = m - 1 /\ s \ {x} \in SUBSET D
            BY <2>2, <2>4, SubsetSize
        <3> QED BY <2>1, <3>1
    <2>6. H[s] = h[x] + H[s \ {x}] /\ F[s] = f[x] + F[s \ {x}] /\ G[s] = g[x] + G[s \ {x}]
        BY <1>1, <1>2, <1>3, <2>4 DEF Grows
    <2>7. F[s \ {x}] \in Int /\ G[s \ {x}] \in Int /\ f[x] \in Int /\ g[x] \in Int
        BY <1>1, <1>2, <2>4 DEF Grows
    <2>8. h[x] = f[x] + g[x]
        BY <1>0, <2>4
    <2> QED BY <2>2, <2>5, <2>6, <2>7, <2>8
<1>7. H[D] = F[D] + G[D]
    <2>1. Cardinality(D) \in Nat /\ D \in SUBSET D
        BY SubsetSize
    <2> QED BY <1>6, <2>1
<1> QED BY <1>5, <1>7 DEF h

\* A sum over a sequence of numbers is that of its two parts.
LEMMA SumJoined ==
    ASSUME NEW m \in Nat, NEW n \in Nat, NEW f \in [1..m + n -> Int],
           NEW g \in [1..m -> Int], \A i \in 1..m : g[i] = f[i],
           NEW h \in [1..n -> Int], \A i \in 1..n : h[i] = f[m + i]
    PROVE  SumOver(f) = SumOver(g) + SumOver(h)
<1> DEFINE D == 1..m + n
           A == 1..m
           B == 1..n
           R == D \ A
           k == [i \in R |-> f[i]]
           p == [i \in B |-> m + i]
<1>1. IsFiniteSet(D) /\ IsFiniteSet(B) /\ A \in SUBSET D /\ f \in [D -> Int] /\ h \in [B -> Int]
    <2>1. IsFiniteSet(D) /\ IsFiniteSet(B)
        BY FS_Interval
    <2> QED BY <2>1
<1>2. IsFiniteSet(R)
    BY <1>1, FS_Difference
<1>3. /\ p \in [B -> R]
      /\ (\A x, y \in B : p[x] = p[y] => x = y) /\ (\A d \in R : \E x \in B : p[x] = d)
    <2>1. \A x \in B : m + x \in R
        OBVIOUS
    <2>2. \A d \in R : d - m \in B /\ m + (d - m) = d
        OBVIOUS
    <2> QED BY <2>1, <2>2
<1>4. \A i \in B : h[i] = k[p[i]]
    BY <1>3
<1>5. k \in [R -> Int]
    BY <1>1
<1>6. g = [i \in A |-> f[i]]
    OBVIOUS
<1> HIDE DEF D, A, B, R, p, k
<1>7. SumOver(f) = SumOver([i \in A |-> f[i]]) + SumOver([i \in D \ A |-> f[i]])
    BY <1>1, SumSplit
<1>8. SumOver(h) = SumOver(k)
    <2>1. Renumbers(h, B, k, R, p)
        BY <1>1, <1>2, <1>3, <1>4, <1>5 DEF Renumbers
    <2> QED BY <2>1, SumReindex
<1>9. SumOver([i \in D \ A |-> f[i]]) = SumOver(k)
    BY DEF k, R
<1> QED BY <1>6, <1>7, <1>8, <1>9

\* The elements of a finite set of numbers can be counted from the smallest on.
LEMMA Ranked ==
    ASSUME NEW n \in Nat, NEW T \in SUBSET (1..n), NEW m \in 1..Cardinality(T)
    PROVE  \E i \in T : Cardinality({j \in T : j <= i}) = m
<1> DEFINE Upto(i) == {j \in T : j <= i}
           r == [i \in T |-> Cardinality(Upto(i))]
           N == 1..Cardinality(T)
<1>1. IsFiniteSet(T) /\ Cardinality(T) \in Nat
    <2>1. IsFiniteSet(1..n)
        BY FS_Interval
    <2>2. IsFiniteSet(T)
        BY <2>1, FS_Subset
    <2> QED BY <2>2, FS_CardinalityType
<1>2. ASSUME NEW i \in T
      PROVE  /\ IsFiniteSet(Upto(i)) /\ Cardinality(Upto(i)) \in Nat
             /\ Cardinality(Upto(i)) <= Cardinality(T) /\ Cardinality(Upto(i)) # 0
    <2>1. Upto(i) \in SUBSET T /\ i \in Upto(i)
        OBVIOUS
    <2> QED BY <1>1, <2>1, FS_Subset, FS_CardinalityType, FS_EmptySet
<1> HIDE DEF Upto
<1>3. r \in [T -> N]
    <2>1. \A i \in T : Cardinality(Upto(i)) \in N
        BY <1>1, <1>2
    <2> QED BY <2>1
<1>4. ASSUME NEW x \in T, NEW y \in T, r[x] = r[y] PROVE x = y
    <2>1. ASSUME NEW a \in T, NEW b \in T, a < b PROVE Cardinality(Upto(a)) # Cardinality(Upto(b))
        <3>0. \A j \in T : j \in Int /\ (j <= a => j <= b)
            BY <2>1
        <3>1. Upto(a) \in SUBSET Upto(b)
            BY <3>0 DEF Upto
        <3>2. b \in Upto(b) /\ b \notin Upto(a)
            <4>1. b <= b /\ ~(b <= a)
                BY <2>1, <3>0
            <4> QED BY <4>1 DEF Upto
        <3> QED BY <1>2, <3>1, <3>2, FS_Subset
    <2>2. Cardinality(Upto(x)) = Cardinality(Upto(y))
        BY <1>4
    <2>3. x \in Int /\ y \in Int
        OBVIOUS
    <2>4. ~(x < y) /\ ~(y < x)
        BY <2>1, <2>2
    <2> QED BY <2>3, <2>4
<1>5. r \in Injection(T, N)
    BY <1>3, <1>4 DEF Injection, IsInjective
<1>6. IsFiniteSet(N) /\ Cardinality(N) = Cardinality(T)
    BY <1>1, FS_Interval
<1>7. r \in Surjection(T, N)
    BY <1>5, <1>6, FS_Injection
<1>8. PICK i \in T : r[i] = m
    BY <1>7 DEF Surjection
<1> QED BY <1>8 DEF Upto
=============================================================================

------------------------ MODULE CoinSelection_proofs ------------------------
(***************************************************************************)
(* Proofs about coin selection, for any coins, rates, targets and number   *)
(* of tries: the branch and bound search accounts for every coin, stays in *)
(* bounds and is exact, and every answer of every algorithm is one the     *)
(* promise to the caller allows.                                           *)
(*                                                                         *)
(* A selection is a prefix of decisions, here the set of positions it      *)
(* includes and its length.  The search takes the inclusion of a coin      *)
(* before its omission, so the sets of coins it has passed are those that  *)
(* include the first coin on which they differ from the selection.         *)
(***************************************************************************)
EXTENDS CoinSelection, Sums_proofs, SequenceTheorems

-----------------------------------------------------------------------------
(***************************************************************************)
(* Amounts.                                                                *)
(***************************************************************************)

\* What is known of the request: coins have integer values and weights.
Asked ==
    /\ required \in Seq(Coins) /\ optional \in Seq(Coins)
    /\ rate \in Nat /\ target \in Nat

\* The sums of CoinSelection are those of Sums_proofs.
LEMMA SumIsSumOf ==
    ASSUME NEW f
    PROVE  Sum(f) = SumOver(f)
BY DEF Sum, SumOver

\* A fee is a natural number.
LEMMA FeeType ==
    ASSUME rate \in Nat, NEW w \in Nat
    PROVE  Fee(w) \in Nat
<1>1. rate * w \in Nat /\ FeeUnit \in Nat /\ FeeUnit > 0
    BY CoinsAssumption
<1> DEFINE n == rate * w + FeeUnit - 1
<1>2. n \in Nat
    BY <1>1
<1> HIDE DEF n
<1>3. n \div FeeUnit \in Nat
    BY <1>1, <1>2
<1> QED BY <1>3 DEF Fee, n

\* An effective value is an integer.
LEMMA EffectiveType ==
    ASSUME rate \in Nat, NEW c \in Coins
    PROVE  Effective(c) \in Int
BY FeeType, CoinsAssumption DEF Effective

\* The sum of the effective values of coins is an integer.
LEMMA EffectiveOfType ==
    ASSUME rate \in Nat, NEW s \in Seq(Coins)
    PROVE  EffectiveOf(s) \in Int
<1> DEFINE f == [i \in DOMAIN s |-> Effective(s[i])]
<1>1. DOMAIN s = 1..Len(s) /\ Len(s) \in Nat /\ \A i \in DOMAIN s : s[i] \in Coins
    BY ElementOfSeq, LenProperties
<1>2. IsFiniteSet(DOMAIN s)
    BY <1>1, FS_Interval
<1>3. f \in [DOMAIN s -> Int]
    BY <1>1, EffectiveType
<1> HIDE DEF f
<1>4. SumOver(f) \in Int
    BY <1>2, <1>3, SumRemove
<1> QED BY <1>4, SumIsSumOf DEF EffectiveOf, f

-----------------------------------------------------------------------------
(***************************************************************************)
(* What the coins at a set of positions of groups add up to.               *)
(***************************************************************************)
Positions == 1..Len(groups)
Adds(S) == Sum([i \in S |-> Effective(groups[i])])

\* The coins of the search: their effective values are positive.
Grouped ==
    /\ groups \in Seq(Coins)
    /\ \A i \in Positions : Effective(groups[i]) > 0

\* The values of the positions, as one function.
LEMMA ValuesOf ==
    ASSUME Asked, Grouped
    PROVE  /\ IsFiniteSet(Positions)
           /\ [i \in Positions |-> Effective(groups[i])] \in [Positions -> Int]
           /\ \A S \in SUBSET Positions :
                 /\ IsFiniteSet(S)
                 /\ [i \in S |-> Effective(groups[i])] \in [S -> Int]
                 /\ \A i \in S : Effective(groups[i]) > 0
<1>1. Len(groups) \in Nat /\ \A i \in Positions : groups[i] \in Coins
    BY ElementOfSeq, LenProperties DEF Grouped, Positions
<1>2. IsFiniteSet(Positions)
    BY <1>1, FS_Interval DEF Positions
<1>3. \A i \in Positions : Effective(groups[i]) \in Int
    BY <1>1, EffectiveType DEF Asked
<1>4. \A S \in SUBSET Positions : IsFiniteSet(S)
    BY <1>2, FS_Subset
<1> QED BY <1>2, <1>3, <1>4 DEF Grouped

\* A set of positions adds a natural number; the empty set adds nothing.
LEMMA AddsType ==
    ASSUME Asked, Grouped, NEW S \in SUBSET Positions
    PROVE  Adds(S) \in Int /\ Adds(S) >= 0 /\ (S = {} => Adds(S) = 0)
<1> DEFINE f == [i \in S |-> Effective(groups[i])]
<1>1. IsFiniteSet(S) /\ f \in [S -> Int] /\ \A i \in S : f[i] >= 0
    <2>1. IsFiniteSet(S) /\ f \in [S -> Int] /\ \A i \in S : Effective(groups[i]) > 0
        BY ValuesOf
    <2>2. \A i \in S : f[i] \in Int /\ f[i] > 0
        BY <2>1
    <2> QED BY <2>1, <2>2
<1> HIDE DEF f
<1>2. SumOver(f) \in Int /\ (S = {} => SumOver(f) = 0) /\ SumOver(f) >= 0
    BY <1>1, SumRemove, SumNonnegative
<1> QED BY <1>2, SumIsSumOf DEF Adds, f

\* A set of positions adds what its parts add.
LEMMA AddsSplit ==
    ASSUME Asked, Grouped, NEW S \in SUBSET Positions, NEW A \in SUBSET S
    PROVE  Adds(S) = Adds(A) + Adds(S \ A)
<1> DEFINE f == [i \in S |-> Effective(groups[i])]
<1>1. IsFiniteSet(S) /\ f \in [S -> Int]
    BY ValuesOf
<1>2. /\ [i \in A |-> f[i]] = [i \in A |-> Effective(groups[i])]
      /\ [i \in S \ A |-> f[i]] = [i \in S \ A |-> Effective(groups[i])]
    OBVIOUS
<1>3. Adds(S) = SumOver(f) /\ Adds(A) = SumOver([i \in A |-> f[i]]) /\ Adds(S \ A) = SumOver([i \in S \ A |-> f[i]])
    BY <1>2, SumIsSumOf DEF Adds
<1> HIDE DEF f
<1>4. SumOver(f) = SumOver([i \in A |-> f[i]]) + SumOver([i \in S \ A |-> f[i]])
    BY <1>1, SumSplit
<1> QED BY <1>3, <1>4

\* One position adds its coin's effective value.
LEMMA AddsOne ==
    ASSUME Asked, Grouped, NEW S \in SUBSET Positions, NEW x \in S
    PROVE  Adds(S) = Effective(groups[x]) + Adds(S \ {x})
<1> DEFINE f == [i \in S |-> Effective(groups[i])]
<1>1. IsFiniteSet(S) /\ f \in [S -> Int] /\ f[x] = Effective(groups[x])
    BY ValuesOf
<1>2. [i \in S \ {x} |-> f[i]] = [i \in S \ {x} |-> Effective(groups[i])]
    OBVIOUS
<1>3. Adds(S) = SumOver(f) /\ Adds(S \ {x}) = SumOver([i \in S \ {x} |-> f[i]])
    BY <1>2, SumIsSumOf DEF Adds
<1> HIDE DEF f
<1>4. SumOver(f) = f[x] + SumOver([i \in S \ {x} |-> f[i]])
    BY <1>1, SumRemove
<1> QED BY <1>1, <1>3, <1>4

\* More positions add more.
LEMMA AddsMore ==
    ASSUME Asked, Grouped, NEW S \in SUBSET Positions, NEW A \in SUBSET S
    PROVE  Adds(A) <= Adds(S)
<1>1. Adds(S) = Adds(A) + Adds(S \ A)
    BY AddsSplit
<1>2. Adds(A) \in Int /\ Adds(S \ A) \in Int /\ Adds(S \ A) >= 0
    <2>1. A \in SUBSET Positions /\ S \ A \in SUBSET Positions
        OBVIOUS
    <2> QED BY <2>1, AddsType
<1> QED BY <1>1, <1>2

-----------------------------------------------------------------------------
(***************************************************************************)
(* The search.                                                             *)
(***************************************************************************)
Chosen(b) == {i \in DOMAIN b : b[i]}

\* S agrees with a selection on all it decides; S was passed by the search.
Agrees(S, k, C) == \A j \in 1..k : j \in S <=> j \in C
Passed(S, k, C) == \E i \in 1..k : i \notin C /\ i \in S /\ \A j \in 1..i - 1 : j \in S <=> j \in C

\* If S needs no change then a selection that costs v is at least as good.
Dealt(S, v) == Window(S) => v # -1 /\ v <= WorthOf(S)

Positioned == selection \in Seq(BOOLEAN) /\ Len(selection) <= Len(groups)

Accounts ==
    /\ curr_value = WorthOf(Chosen(selection))
    /\ curr_available = Adds(Len(selection) + 1..Len(groups))

\* The best selection so far is one, and costs what is noted.
IsBest(b, v) ==
    /\ b \in Seq(BOOLEAN) /\ Len(b) <= Len(groups) /\ b # <<>>
    /\ Window(Chosen(b)) /\ v = WorthOf(Chosen(b))
BestReal == IF best_value = -1 THEN best = <<>> ELSE IsBest(best, best_value)

Explored ==
    \A S \in SUBSET Positions :
        Passed(S, Len(selection), Chosen(selection)) => Dealt(S, best_value)

\* Once a coin is decided, the required coins alone do not do.
Begun ==
    /\ EffectiveOf(required) <= target
    /\ selection # <<>> => EffectiveOf(required) < target

Searching == Grouped /\ Positioned /\ Accounts /\ BestReal /\ Explored /\ Begun

\* The inductive invariant.
Searched ==
    /\ Asked
    /\ tries \in Nat
    /\ phase = "start" => groups = <<>> /\ selection = <<>> /\ best = <<>> /\ best_value = -1
    /\ phase = "search" => Searching
    /\ SearchIsOptimal

\* The positions a selection includes are positions of coins.
LEMMA ChosenPositions ==
    ASSUME NEW b \in Seq(BOOLEAN), Len(b) <= Len(groups), groups \in Seq(Coins)
    PROVE  /\ Chosen(b) \in SUBSET (1..Len(b)) /\ Chosen(b) \in SUBSET Positions
           /\ Len(b) \in Nat /\ Len(groups) \in Nat
<1>1. Len(b) \in Nat /\ Len(groups) \in Nat /\ DOMAIN b = 1..Len(b)
    BY LenProperties
<1>2. Chosen(b) \in SUBSET (1..Len(b))
    BY <1>1 DEF Chosen
<1>3. 1..Len(b) \subseteq Positions
    BY <1>1 DEF Positions
<1> QED BY <1>1, <1>2, <1>3

\* What a request and its coins are worth does not change during a search.
LEMMA SameWorth ==
    ASSUME UNCHANGED <<required, rate, target, groups>>
    PROVE  /\ EffectiveOf(required)' = EffectiveOf(required)
           /\ CostOfChange' = CostOfChange
           /\ Positions' = Positions
           /\ \A S : WorthOf(S)' = WorthOf(S)
           /\ \A S : Window(S)' <=> Window(S)
           /\ \A S : Adds(S)' = Adds(S)
           /\ Grouped => Grouped'
<1>1. EffectiveOf(required)' = EffectiveOf(required) /\ CostOfChange' = CostOfChange
    BY DEF EffectiveOf, CostOfChange, Effective, Fee
<1>2. \A S : Adds(S)' = Adds(S) /\ WorthOf(S)' = WorthOf(S)
    BY <1>1 DEF Adds, WorthOf, Effective, Fee
<1>3. \A S : Window(S)' <=> Window(S)
    BY <1>1, <1>2 DEF Window
<1>4. Positions' = Positions /\ (Grouped => Grouped')
    BY DEF Positions, Grouped, Effective, Fee
<1> QED BY <1>1, <1>2, <1>3, <1>4

\* The cost of a change output is a natural number.
LEMMA CostType ==
    ASSUME Asked
    PROVE  CostOfChange \in Nat
BY FeeType, CoinsAssumption DEF CostOfChange, Asked

\* What a set of positions is worth, together with the required coins.
LEMMA WorthType ==
    ASSUME Asked, Grouped, NEW S \in SUBSET Positions
    PROVE  /\ WorthOf(S) = EffectiveOf(required) + Adds(S)
           /\ WorthOf(S) \in Int /\ EffectiveOf(required) \in Int
           /\ S = {} => WorthOf(S) = EffectiveOf(required)
<1>1. EffectiveOf(required) \in Int /\ Adds(S) \in Int /\ (S = {} => Adds(S) = 0)
    BY EffectiveOfType, AddsType DEF Asked
<1>2. WorthOf(S) = EffectiveOf(required) + Adds(S)
    BY DEF WorthOf, Adds
<1> QED BY <1>1, <1>2

\* Without optional coins only the required ones count.
LEMMA WorthOfNone == Asked /\ Grouped => WorthOf({}) = EffectiveOf(required)
BY WorthType

\* The running totals are integers.
LEMMA TotalsType ==
    ASSUME Asked, Searching
    PROVE  /\ curr_value \in Int /\ curr_available \in Int /\ target \in Nat
           /\ Chosen(selection) \in SUBSET (1..Len(selection))
           /\ Chosen(selection) \in SUBSET Positions
           /\ Len(selection) \in Nat /\ Len(groups) \in Nat
           /\ Len(selection) + 1..Len(groups) \in SUBSET Positions
<1>1. /\ Chosen(selection) \in SUBSET (1..Len(selection)) /\ Chosen(selection) \in SUBSET Positions
      /\ Len(selection) \in Nat /\ Len(groups) \in Nat
    BY ChosenPositions DEF Searching, Grouped, Positioned
<1>2. Len(selection) + 1..Len(groups) \in SUBSET Positions
    BY <1>1 DEF Positions
<1>3. curr_value \in Int
    BY <1>1, WorthType DEF Searching, Accounts
<1>4. curr_available \in Int
    BY <1>2, AddsType DEF Searching, Accounts
<1> QED BY <1>1, <1>2, <1>3, <1>4 DEF Asked

\* When the search moves forward there is a coin left.
LEMMA CoinLeft ==
    ASSUME Asked, Searching, ~OutOfReach, ~InRange
    PROVE  Len(selection) < Len(groups) /\ curr_value < target
<1>1. curr_value \in Int /\ curr_available \in Int /\ target \in Nat /\ Len(selection) \in Nat /\ Len(groups) \in Nat
    BY TotalsType
<1>2. curr_value < target /\ curr_value + curr_available >= target
    BY <1>1 DEF OutOfReach, InRange
<1>3. curr_available # 0
    BY <1>1, <1>2
<1>4. Len(selection) + 1..Len(groups) # {}
    <2>1. Len(selection) + 1..Len(groups) \in SUBSET Positions
        BY TotalsType
    <2> QED BY <1>3, <2>1, AddsType DEF Searching, Accounts
<1> QED BY <1>1, <1>2, <1>4

\* A set that agrees with the selection is worth at least what is selected and
\* at most what is selected or still available.
LEMMA AgreeingWorth ==
    ASSUME Asked, Searching, NEW S \in SUBSET Positions, Agrees(S, Len(selection), Chosen(selection))
    PROVE  curr_value <= WorthOf(S) /\ WorthOf(S) <= curr_value + curr_available /\ WorthOf(S) \in Int
<1> DEFINE C == Chosen(selection)
           R == Len(selection) + 1..Len(groups)
<1>1. /\ C \in SUBSET (1..Len(selection)) /\ C \in SUBSET Positions /\ R \in SUBSET Positions
      /\ Len(selection) \in Nat /\ Len(groups) \in Nat
    BY TotalsType
<1>2. curr_value = WorthOf(C) /\ curr_available = Adds(R)
    BY DEF Searching, Accounts
<1>3. Agrees(S, Len(selection), C)
    OBVIOUS
<1> HIDE DEF C
<1>4. C \subseteq S
    BY <1>1, <1>3 DEF Agrees
<1>5. S \ C \subseteq R
    <2> SUFFICES ASSUME NEW x \in S \ C PROVE x \in R
        OBVIOUS
    <2>1. x \in 1..Len(groups)
        BY DEF Positions
    <2>2. x \notin 1..Len(selection)
        BY <1>3 DEF Agrees
    <2> QED BY <1>1, <2>1, <2>2
<1> HIDE DEF R
<1>6. Adds(S) = Adds(C) + Adds(S \ C)
    BY <1>4, AddsSplit DEF Searching
<1>7. Adds(S \ C) <= Adds(R)
    BY <1>1, <1>5, AddsMore DEF Searching
<1>8. /\ Adds(S) \in Int /\ Adds(C) \in Int /\ Adds(R) \in Int
      /\ Adds(S \ C) \in Int /\ Adds(S \ C) >= 0
    <2>1. S \ C \in SUBSET Positions
        OBVIOUS
    <2> QED BY <1>1, <2>1, AddsType DEF Searching
<1>9. /\ WorthOf(S) = EffectiveOf(required) + Adds(S) /\ WorthOf(C) = EffectiveOf(required) + Adds(C)
      /\ EffectiveOf(required) \in Int
    BY <1>1, WorthType DEF Searching
<1> QED BY <1>2, <1>6, <1>7, <1>8, <1>9

\* Looking at a branch that is not followed deals with all that agrees with it.
LEMMA LookedAt ==
    ASSUME Asked, Searching, OutOfReach \/ InRange,
           NEW S \in SUBSET Positions, Agrees(S, Len(selection), Chosen(selection))
    PROVE  Dealt(S, NewBestValue)
<1>1. curr_value <= WorthOf(S) /\ WorthOf(S) <= curr_value + curr_available /\ WorthOf(S) \in Int
    BY AgreeingWorth
<1>2. curr_value \in Int /\ curr_available \in Int /\ target \in Nat /\ CostOfChange \in Nat
    BY TotalsType, CostType
<1>3. CASE OutOfReach
    <2>1. ~Window(S)
        BY <1>1, <1>2, <1>3 DEF OutOfReach, Window
    <2> QED BY <2>1 DEF Dealt
<1>4. CASE InRange
    <2>1. curr_value >= target
        BY <1>4 DEF InRange
    <2>2. best_value = -1 \/ best_value \in Int
        <3>1. best_value # -1 => Len(best) <= Len(groups) /\ best \in Seq(BOOLEAN) /\ best_value = WorthOf(Chosen(best))
            BY DEF Searching, BestReal, IsBest
        <3> QED BY <3>1, ChosenPositions, WorthType DEF Searching, Grouped
    <2>3. NewBestValue # -1 /\ NewBestValue <= curr_value /\ NewBestValue \in Int
        BY <1>2, <1>4, <2>1, <2>2 DEF NewBestValue, Better
    <2> QED BY <1>1, <1>2, <2>3 DEF Dealt
<1> QED BY <1>3, <1>4

\* What was dealt with by the best selection is dealt with by a better one.
LEMMA StillDealt ==
    ASSUME Asked, Searching, NEW S \in SUBSET Positions, Dealt(S, best_value)
    PROVE  Dealt(S, NewBestValue)
<1>1. curr_value \in Int /\ target \in Nat /\ WorthOf(S) \in Int
    BY TotalsType, WorthType DEF Searching
<1>2. best_value # -1 => best_value \in Int
    <2>1. best_value # -1 => Len(best) <= Len(groups) /\ best \in Seq(BOOLEAN) /\ best_value = WorthOf(Chosen(best))
        BY DEF Searching, BestReal, IsBest
    <2> QED BY <2>1, ChosenPositions, WorthType DEF Searching, Grouped
<1>3. CASE Better
    BY <1>1, <1>2, <1>3 DEF Better, InRange, NewBestValue, Dealt
<1>4. CASE ~Better
    BY <1>4 DEF NewBestValue
<1> QED BY <1>3, <1>4

\* The best selection after an iteration is one, unless the search ends on the
\* required coins alone.
LEMMA NewBestReal ==
    ASSUME Asked, Searching, curr_value # target \/ selection # <<>>
    PROVE  IF NewBestValue = -1 THEN NewBest = <<>> ELSE IsBest(NewBest, NewBestValue)
<1>1. CASE ~Better
    BY <1>1 DEF NewBest, NewBestValue, Searching, BestReal
<1>2. CASE Better
    <2>1. curr_value >= target /\ ~(curr_value > target + CostOfChange)
        BY <1>2 DEF Better, InRange, OutOfReach
    <2>2. curr_value \in Int /\ target \in Nat /\ CostOfChange \in Nat /\ Chosen(selection) \in SUBSET Positions
        BY TotalsType, CostType
    <2>3. NewBest = selection /\ NewBestValue = curr_value /\ NewBestValue # -1
        BY <1>2, <2>1, <2>2 DEF NewBest, NewBestValue
    <2>4. curr_value = WorthOf(Chosen(selection))
        BY DEF Searching, Accounts
    <2>5. Chosen(selection) # {}
        <3> SUFFICES ASSUME Chosen(selection) = {} PROVE FALSE
            OBVIOUS
        <3>1. curr_value = EffectiveOf(required) /\ EffectiveOf(required) \in Int
            BY <2>2, <2>4, WorthType DEF Searching
        <3>2. EffectiveOf(required) <= target /\ (selection # <<>> => EffectiveOf(required) < target)
            BY DEF Searching, Begun
        <3> QED BY <2>1, <2>2, <3>1, <3>2
    <2>6. selection # <<>>
        BY <2>5 DEF Chosen
    <2>7. Window(Chosen(selection))
        BY <2>1, <2>2, <2>4, <2>5 DEF Window
    <2> QED BY <2>3, <2>4, <2>6, <2>7 DEF IsBest, Searching, Positioned
<1> QED BY <1>1, <1>2

\* A set agrees with a selection or there is a first position where it does not.
LEMMA AgreesOrDiffers ==
    ASSUME NEW S, NEW k \in Nat, NEW C
    PROVE  \/ Agrees(S, k, C)
           \/ \E i \in 1..k : ~(i \in S <=> i \in C) /\ \A j \in 1..i - 1 : j \in S <=> j \in C
<1> DEFINE T == {i \in 1..k : ~(i \in S <=> i \in C)}
<1>1. CASE T = {}
    BY <1>1 DEF Agrees
<1>2. CASE T # {}
    <2>0. T \subseteq Nat
        OBVIOUS
    <2>1. PICK i \in T : \A y \in T : i <= y
        BY <1>2, <2>0, LeastNatural
    <2>2. ASSUME NEW j \in 1..i - 1 PROVE j \in S <=> j \in C
        <3>1. j \in 1..k /\ ~(i <= j)
            OBVIOUS
        <3> QED BY <2>1, <3>1
    <2> QED BY <2>2
<1> QED BY <1>1, <1>2

\* The last included coin.
LEMMA LastIncludedIs ==
    ASSUME Asked, Searching
    PROVE  /\ LastIncluded \in 0..Len(selection)
           /\ LastIncluded = 0 => Chosen(selection) = {}
           /\ LastIncluded # 0 => LastIncluded \in Chosen(selection)
           /\ \A i \in Chosen(selection) : i <= LastIncluded
<1> DEFINE C == Chosen(selection)
<1>1. C \in SUBSET (1..Len(selection)) /\ Len(selection) \in Nat
    BY TotalsType
<1>2. LastIncluded = Max({0} \cup C)
    BY DEF LastIncluded, Chosen
<1> HIDE DEF C
<1>3. {0} \cup C \in SUBSET (0..Len(selection)) /\ {0} \cup C # {}
    BY <1>1
<1>4. LastIncluded \in {0} \cup C /\ \A y \in {0} \cup C : LastIncluded >= y
    BY <1>1, <1>2, <1>3, MaxOfNaturals
<1>5. LastIncluded \in 0..Len(selection) /\ \A i \in C : i <= LastIncluded /\ i # 0
    BY <1>1, <1>3, <1>4
<1>6. (LastIncluded = 0 => C = {}) /\ (LastIncluded # 0 => LastIncluded \in C)
    BY <1>1, <1>4, <1>5
<1> QED BY <1>5, <1>6 DEF C

\* When no coin is included any more, everything has been dealt with.
LEMMA AllDealt ==
    ASSUME Asked, Searching, OutOfReach \/ InRange, LastIncluded = 0, NEW S \in SUBSET Positions
    PROVE  Dealt(S, NewBestValue)
<1>1. Chosen(selection) = {} /\ Len(selection) \in Nat
    BY LastIncludedIs, TotalsType
<1>2. CASE Agrees(S, Len(selection), Chosen(selection))
    BY <1>2, LookedAt
<1>3. CASE \E i \in 1..Len(selection) : /\ ~(i \in S <=> i \in Chosen(selection))
                                        /\ \A j \in 1..i - 1 : j \in S <=> j \in Chosen(selection)
    <2>1. Passed(S, Len(selection), Chosen(selection))
        BY <1>1, <1>3 DEF Passed
    <2> QED BY <2>1, StillDealt DEF Searching, Explored
<1> QED BY <1>1, <1>2, <1>3, AgreesOrDiffers

\* The selection after a step back.
LEMMA SteppedBack ==
    ASSUME Asked, Searching, LastIncluded > 0
    PROVE  LET new == [SubSeq(selection, 1, LastIncluded) EXCEPT ![LastIncluded] = FALSE]
           IN  /\ new \in Seq(BOOLEAN) /\ Len(new) = LastIncluded /\ new # <<>>
               /\ Chosen(new) = Chosen(selection) \ {LastIncluded}
<1> DEFINE L == LastIncluded
           cut == SubSeq(selection, 1, L)
           new == [cut EXCEPT ![L] = FALSE]
<1>1. /\ L \in 1..Len(selection) /\ L \in Chosen(selection)
      /\ \A i \in Chosen(selection) : i <= L
    BY LastIncludedIs
<1>2. selection \in Seq(BOOLEAN) /\ Len(selection) \in Nat
    BY TotalsType DEF Searching, Positioned
<1> HIDE DEF L
<1>3. cut \in Seq(BOOLEAN) /\ Len(cut) = L /\ \A i \in 1..L : cut[i] = selection[i]
    BY <1>1, <1>2, SubSeqProperties
<1> HIDE DEF cut
<1>4. DOMAIN cut = 1..L
    BY <1>3, LenProperties
<1>5. new \in Seq(BOOLEAN) /\ Len(new) = L /\ DOMAIN new = 1..L
    <2>1. new \in Seq(BOOLEAN) /\ Len(new) = Len(cut)
        BY <1>1, <1>3, <1>4, ExceptSeq
    <2> QED BY <1>3, <2>1, LenProperties
<1>6. \A i \in 1..L : new[i] = IF i = L THEN FALSE ELSE selection[i]
    BY <1>3, <1>4
<1> HIDE DEF new
<1>7. Chosen(new) = Chosen(selection) \ {L}
    <2>1. \A i \in Chosen(new) : i \in 1..L /\ i # L /\ selection[i]
        BY <1>5, <1>6 DEF Chosen
    <2>2. DOMAIN selection = 1..Len(selection)
        BY <1>2, LenProperties
    <2>3. Chosen(new) \subseteq Chosen(selection) \ {L}
        BY <1>1, <1>2, <2>1, <2>2 DEF Chosen
    <2>4. ASSUME NEW i \in Chosen(selection) \ {L} PROVE i \in Chosen(new)
        <3>1. i \in 1..Len(selection) /\ selection[i] /\ i <= L /\ i # L
            BY <1>1, <2>2 DEF Chosen
        <3>2. i \in 1..L
            BY <1>1, <1>2, <3>1
        <3> QED BY <1>5, <1>6, <3>1, <3>2 DEF Chosen
    <2> QED BY <2>3, <2>4
<1>8. new # <<>>
    BY <1>1, <1>5, <1>2
<1> QED BY <1>5, <1>7, <1>8 DEF new, cut, L

\* What a step back adds to the sets passed has been dealt with.
LEMMA PassedOnBack ==
    ASSUME Asked, Searching, OutOfReach \/ InRange, LastIncluded > 0, NEW S \in SUBSET Positions,
           Passed(S, LastIncluded, Chosen(selection) \ {LastIncluded})
    PROVE  Dealt(S, NewBestValue)
<1> DEFINE L == LastIncluded
           C == Chosen(selection)
           k == Len(selection)
<1>1. /\ L \in 1..k /\ L \in C /\ \A i \in C : i <= L
      /\ k \in Nat /\ C \in SUBSET (1..k)
    BY LastIncludedIs, TotalsType
<1>2. Passed(S, L, C \ {L})
    OBVIOUS
<1>3. ASSUME Passed(S, k, C) PROVE Dealt(S, NewBestValue)
    BY <1>3, StillDealt DEF Searching, Explored
<1>4. ASSUME Agrees(S, k, C) PROVE Dealt(S, NewBestValue)
    BY <1>4, LookedAt
<1> HIDE DEF L, C, k
<1>5. PICK i \in 1..L : i \notin C \ {L} /\ i \in S /\ \A j \in 1..i - 1 : j \in S <=> j \in C \ {L}
    BY <1>2 DEF Passed
<1>6. CASE i # L
    <2>1. i \in 1..k /\ i \notin C /\ \A j \in 1..i - 1 : j \in S <=> j \in C
        BY <1>1, <1>5, <1>6
    <2> QED BY <1>3, <1>5, <2>1 DEF Passed
<1>7. CASE i = L
    <2>1. \A j \in 1..L : j \in S <=> j \in C
        BY <1>1, <1>5, <1>7
    <2>2. CASE \E x \in 1..k : ~(x \in S <=> x \in C) /\ \A j \in 1..x - 1 : j \in S <=> j \in C
        <3>1. PICK x \in 1..k : ~(x \in S <=> x \in C) /\ \A j \in 1..x - 1 : j \in S <=> j \in C
            BY <2>2
        <3>2. x \notin C
            BY <1>1, <2>1, <3>1
        <3> QED BY <1>3, <3>1, <3>2 DEF Passed
    <2> QED BY <1>1, <1>4, <2>2, AgreesOrDiffers
<1> QED BY <1>6, <1>7

-----------------------------------------------------------------------------
(***************************************************************************)
(* The invariant, step by step.                                            *)
(***************************************************************************)

\* The coins chosen from a sequence by their positions, in some order.
Numbers(p, l, s, S) ==
    /\ p \in [1..Cardinality(S) -> S]
    /\ IsInjective(p)
    /\ \A i \in 1..Cardinality(S) : l[i] = s[p[i]]

\* What a shuffle is: a sequence of coins, each numbered once.
LEMMA ShuffleIs ==
    ASSUME NEW s \in Seq(Coins), NEW S \in SUBSET DOMAIN s, NEW l \in Shuffles(s, S)
    PROVE  /\ IsFiniteSet(S) /\ Cardinality(S) \in Nat
           /\ l \in Seq(Coins) /\ Len(l) = Cardinality(S) /\ DOMAIN l = 1..Cardinality(S)
           /\ \E p : Numbers(p, l, s, S)
<1>1. Len(s) \in Nat /\ DOMAIN s = 1..Len(s) /\ \A i \in DOMAIN s : s[i] \in Coins
    BY LenProperties, ElementOfSeq
<1>2. IsFiniteSet(S) /\ Cardinality(S) \in Nat
    <2>1. IsFiniteSet(1..Len(s))
        BY <1>1, FS_Interval
    <2>2. IsFiniteSet(S)
        BY <1>1, <2>1, FS_Subset
    <2> QED BY <2>2, FS_CardinalityType
<1>3. PICK p \in [1..Cardinality(S) -> S] : IsInjective(p) /\ l = [i \in 1..Cardinality(S) |-> s[p[i]]]
    BY DEF Shuffles
<1>4. \A i \in 1..Cardinality(S) : l[i] = s[p[i]] /\ l[i] \in Coins
    BY <1>1, <1>3
<1>5. l \in [1..Cardinality(S) -> Coins]
    BY <1>3, <1>4
<1>6. l \in Seq(Coins) /\ Len(l) = Cardinality(S) /\ DOMAIN l = 1..Cardinality(S)
    BY <1>2, <1>5
<1>7. Numbers(p, l, s, S)
    BY <1>3, <1>4 DEF Numbers
<1> QED BY <1>2, <1>6, <1>7

\* The search begins with all coins available and nothing passed.
LEMMA StartSearchKeeps ==
    ASSUME Searched, StartSearch
    PROVE  Searched'
<1>1. /\ phase = "start" /\ phase' = "search" /\ EffectiveOf(required) <= target
      /\ curr_value' = EffectiveOf(required) /\ curr_available' = Available
      /\ UNCHANGED <<algorithm, required, optional, rate, target, selection, best, best_value, tries, result>>
    BY DEF StartSearch, inputs
<1>2. Asked /\ Asked' /\ tries' \in Nat
    BY <1>1 DEF Searched, Asked
<1>3. selection = <<>> /\ best = <<>> /\ best_value = -1
    BY <1>1 DEF Searched
<1>4. groups' \in Shuffles(optional, Positive)
    BY DEF StartSearch
<1>5. Positive \in SUBSET DOMAIN optional
    BY DEF Positive
<1>6. /\ IsFiniteSet(Positive) /\ Cardinality(Positive) \in Nat
      /\ groups' \in Seq(Coins) /\ Len(groups') = Cardinality(Positive)
      /\ DOMAIN groups' = 1..Cardinality(Positive)
    BY <1>2, <1>4, <1>5, ShuffleIs DEF Asked
<1>0. PICK p : Numbers(p, groups', optional, Positive)
    BY <1>2, <1>4, <1>5, ShuffleIs DEF Asked
<1>7. /\ p \in [1..Cardinality(Positive) -> Positive] /\ IsInjective(p)
      /\ \A i \in 1..Cardinality(Positive) : groups'[i] = optional[p[i]]
    BY <1>0 DEF Numbers
<1>8. \A c : Effective(c)' = Effective(c)
    BY <1>1 DEF Effective, Fee
<1>9. Grouped'
    <2>1. \A i \in 1..Cardinality(Positive) : Effective(groups'[i]) > 0
        BY <1>7 DEF Positive
    <2> QED BY <1>6, <1>8, <2>1 DEF Grouped, Positions
<1>10. Available = Adds(1..Len(groups))'
    <2> DEFINE f == [j \in Positive |-> Effective(optional[j])]
               n == Cardinality(Positive)
    <2>1. f \in [Positive -> Int]
        <3>1. \A j \in Positive : optional[j] \in Coins
            BY <1>2, <1>5, ElementOfSeq, LenProperties DEF Asked
        <3> QED BY <1>2, <3>1, EffectiveType DEF Asked
    <2>2. /\ \A x, y \in 1..n : p[x] = p[y] => x = y
          /\ \A d \in Positive : \E x \in 1..n : p[x] = d
        BY <1>6, <1>7, NumberingReaches
    <2>3. IsFiniteSet(1..n)
        BY <1>6, FS_Interval
    <2>4. Available = SumOver(f)
        BY SumIsSumOf DEF Available
    <2>5. Adds(1..Len(groups))' = SumOver([i \in 1..n |-> Effective(groups'[i])])
        <3>1. Adds(1..Len(groups))' = Sum([i \in 1..n |-> Effective(groups[i])'])
            BY <1>6 DEF Adds
        <3>2. [i \in 1..n |-> Effective(groups[i])'] = [i \in 1..n |-> Effective(groups'[i])]
            BY <1>1 DEF Effective, Fee
        <3> QED BY <3>1, <3>2, SumIsSumOf
    <2> DEFINE h == [i \in 1..n |-> Effective(groups'[i])]
    <2>6. Renumbers(h, 1..n, f, Positive, p)
        <3>1. p \in [1..n -> Positive] /\ \A i \in 1..n : h[i] = f[p[i]]
            BY <1>7
        <3>2. h \in [1..n -> Int]
            BY <2>1, <3>1
        <3> HIDE DEF f, n, h
        <3> QED BY <1>6, <2>1, <2>2, <2>3, <3>1, <3>2 DEF Renumbers
    <2> HIDE DEF f, h
    <2>7. SumOver(h) = SumOver(f)
        BY <2>6, SumReindex
    <2> QED BY <2>4, <2>5, <2>7 DEF h
<1>11. Positioned'
    BY <1>1, <1>3, <1>6 DEF Positioned
<1>12. Chosen(selection') = {} /\ Len(selection') = 0
    BY <1>1, <1>3 DEF Chosen
<1>13. Accounts'
    <2>1. EffectiveOf(required)' = EffectiveOf(required)
        BY <1>1, <1>8 DEF EffectiveOf
    <2>2. WorthOf({})' = EffectiveOf(required)'
        <3>1. (Asked /\ Grouped => WorthOf({}) = EffectiveOf(required))'
            BY WorthOfNone, PTL
        <3> QED BY <1>2, <1>9, <3>1
    <2>3. (Len(selection) + 1..Len(groups))' = 1..Len(groups')
        BY <1>12
    <2>4. (Chosen(selection))' = {}
        BY <1>12 DEF Chosen
    <2> QED BY <1>1, <1>10, <2>1, <2>2, <2>3, <2>4 DEF Accounts, Adds, WorthOf
<1>14. BestReal'
    BY <1>1, <1>3 DEF BestReal
<1>15. Explored'
    BY <1>12 DEF Explored, Passed
<1>16. Begun'
    <2>1. EffectiveOf(required)' = EffectiveOf(required)
        BY <1>1, <1>8 DEF EffectiveOf
    <2> QED BY <1>1, <1>3, <2>1 DEF Begun
<1>17. Searching'
    BY <1>9, <1>11, <1>13, <1>14, <1>15, <1>16 DEF Searching
<1> QED BY <1>1, <1>2, <1>17 DEF Searched, SearchIsOptimal

\* The invariant of the search after an iteration that goes on, from what the
\* iteration makes of the selection, the totals and the best selection.
LEMMA IterationKeeps ==
    ASSUME Searched, phase = "search", UNCHANGED <<inputs, groups, phase>>, tries' \in Nat,
           NEW k, NEW C, NEW b, NEW v,
           selection' \in Seq(BOOLEAN), Len(selection') = k, k <= Len(groups), Chosen(selection') = C,
           selection' # <<>>, EffectiveOf(required) < target,
           curr_value' = WorthOf(C), curr_available' = Adds(k + 1..Len(groups)),
           best' = b, best_value' = v, IF v = -1 THEN b = <<>> ELSE IsBest(b, v),
           \A S \in SUBSET Positions : Passed(S, k, C) => Dealt(S, v)
    PROVE  Searched'
<1>1. UNCHANGED <<algorithm, required, optional, rate, target, groups>>
    BY DEF inputs
<1>2. /\ EffectiveOf(required)' = EffectiveOf(required) /\ Positions' = Positions
      /\ \A S : WorthOf(S)' = WorthOf(S) /\ (Window(S)' <=> Window(S)) /\ Adds(S)' = Adds(S)
      /\ Grouped'
    BY <1>1, SameWorth DEF Searched, Searching
<1>3. Positioned'
    BY <1>1 DEF Positioned
<1>4. Accounts'
    <2>1. WorthOf(C)' = WorthOf(C) /\ Adds(k + 1..Len(groups))' = Adds(k + 1..Len(groups))
        BY <1>1, <1>2 DEF Adds, Effective, Fee
    <2>2. Chosen(selection)' = C /\ Len(selection)' = k
        BY DEF Chosen
    <2> QED BY <1>1, <2>1, <2>2 DEF Accounts, WorthOf, Adds
<1>5. BestReal'
    <2>1. v = -1 => b = <<>>
        OBVIOUS
    <2>2. v # -1 => /\ b \in Seq(BOOLEAN) /\ Len(b) <= Len(groups) /\ b # <<>>
                    /\ Window(Chosen(b)) /\ v = WorthOf(Chosen(b))
        BY DEF IsBest
    <2>3. Chosen(best)' = Chosen(b)
        BY DEF Chosen
    <2>4. Window(Chosen(best))' <=> Window(Chosen(b))
        BY <1>1, <2>3 DEF Window, WorthOf, EffectiveOf, Effective, Fee, CostOfChange
    <2>5. WorthOf(Chosen(best))' = WorthOf(Chosen(b))
        BY <1>1, <2>3 DEF WorthOf, EffectiveOf, Effective, Fee
    <2> QED BY <1>1, <2>1, <2>2, <2>4, <2>5 DEF BestReal, IsBest
<1>6. Explored'
    <2>1. SUFFICES ASSUME NEW S \in SUBSET Positions', Passed(S, Len(selection), Chosen(selection))'
                   PROVE  Dealt(S, best_value)'
        BY DEF Explored
    <2>2. Passed(S, k, C)
        BY <2>1 DEF Passed, Chosen
    <2>3. Dealt(S, v)
        BY <1>2, <2>2
    <2> QED BY <1>2, <2>3 DEF Dealt
<1>7. Begun'
    <2>1. EffectiveOf(required) \in Int /\ target \in Nat
        BY EffectiveOfType DEF Searched, Asked
    <2> QED BY <1>1, <1>2, <2>1 DEF Begun
<1>8. Searching'
    BY <1>2, <1>3, <1>4, <1>5, <1>6, <1>7 DEF Searching
<1>9. Asked'
    BY <1>1 DEF Searched, Asked
<1> QED BY <1>8, <1>9 DEF Searched, SearchIsOptimal

\* Including the next coin passes nothing.
LEMMA ForwardKeeps ==
    ASSUME Searched, Forward
    PROVE  Searched'
<1> DEFINE k == Len(selection)
           C == Chosen(selection)
           E == Effective(groups[k + 1])
<1>1. /\ phase = "search" /\ tries > 0 /\ ~OutOfReach /\ ~InRange
      /\ curr_available' = curr_available - E /\ curr_value' = curr_value + E
      /\ selection' = Append(selection, TRUE) /\ tries' = tries - 1
      /\ UNCHANGED <<inputs, groups, best, best_value, phase, result>>
    BY DEF Forward
<1>2. Asked /\ Searching /\ tries \in Nat
    BY <1>1 DEF Searched
<1>3. /\ C \in SUBSET (1..k) /\ C \in SUBSET Positions /\ k \in Nat /\ Len(groups) \in Nat
      /\ k + 1..Len(groups) \in SUBSET Positions
      /\ curr_value \in Int /\ curr_available \in Int /\ target \in Nat
    BY <1>2, TotalsType
<1>4. k < Len(groups) /\ curr_value < target
    BY <1>1, <1>2, CoinLeft
<1>5. selection \in Seq(BOOLEAN) /\ DOMAIN selection = 1..k
    BY <1>2, LenProperties DEF Searching, Positioned
<1>6. /\ selection' \in Seq(BOOLEAN) /\ selection' # <<>> /\ Len(selection') = k + 1
      /\ DOMAIN selection' = 1..k + 1
      /\ (\A i \in 1..k : selection'[i] = selection[i]) /\ selection'[k + 1] = TRUE
    <2> DEFINE B == BOOLEAN
               yes == TRUE
    <2>1. yes \in B /\ selection \in Seq(B)
        BY <1>5
    <2> HIDE DEF B, yes
    <2>2. /\ Append(selection, yes) \in Seq(B) /\ Append(selection, yes) # <<>>
          /\ Len(Append(selection, yes)) = Len(selection) + 1
          /\ \A i \in 1..Len(selection) : Append(selection, yes)[i] = selection[i]
          /\ Append(selection, yes)[Len(selection) + 1] = yes
        BY <2>1, AppendProperties
    <2>3. selection' = Append(selection, yes)
        BY <1>1 DEF yes
    <2> QED BY <2>2, <2>3, LenProperties DEF B, yes
<1>7. Chosen(selection') = C \cup {k + 1}
    BY <1>3, <1>5, <1>6 DEF Chosen
<1>8. curr_value = WorthOf(C) /\ curr_available = Adds(k + 1..Len(groups))
    BY <1>2 DEF Searching, Accounts
<1>9. Grouped
    BY <1>2 DEF Searching
<1> HIDE DEF k, C
<1>10. C \cup {k + 1} \in SUBSET Positions /\ (C \cup {k + 1}) \ {k + 1} = C /\ k + 1 \in C \cup {k + 1}
    BY <1>3, <1>4 DEF Positions
<1>11. E \in Int /\ Adds(C) \in Int
    <2>1. groups[k + 1] \in Coins
        BY <1>3, <1>4, <1>9, ElementOfSeq DEF Grouped
    <2> QED BY <1>2, <1>3, <1>9, <2>1, EffectiveType, AddsType DEF Asked
<1> HIDE DEF E
<1>12. Adds(C \cup {k + 1}) = E + Adds(C)
    BY <1>2, <1>9, <1>10, AddsOne DEF E
<1>13. curr_value' = WorthOf(C \cup {k + 1})
    <2>1. /\ WorthOf(C) = EffectiveOf(required) + Adds(C) /\ EffectiveOf(required) \in Int
          /\ WorthOf(C \cup {k + 1}) = EffectiveOf(required) + Adds(C \cup {k + 1})
        BY <1>2, <1>3, <1>9, <1>10, WorthType
    <2> QED BY <1>1, <1>8, <1>11, <1>12, <2>1
<1>14. curr_available' = Adds((k + 1) + 1..Len(groups))
    <2> DEFINE R == k + 1..Len(groups)
    <2>1. R \in SUBSET Positions /\ k + 1 \in R /\ R \ {k + 1} = (k + 1) + 1..Len(groups)
        BY <1>3, <1>4
    <2> HIDE DEF R
    <2>2. Adds(R) = E + Adds(R \ {k + 1})
        BY <1>2, <1>9, <2>1, AddsOne DEF E
    <2>3. Adds(R \ {k + 1}) \in Int
        <3>1. R \ {k + 1} \in SUBSET Positions
            BY <2>1
        <3> QED BY <1>2, <1>9, <3>1, AddsType
    <2>4. curr_available' = Adds(R \ {k + 1})
        BY <1>1, <1>8, <1>11, <2>2, <2>3 DEF R
    <2> QED BY <2>1, <2>4
<1>15. EffectiveOf(required) < target
    <2>1. WorthOf(C) = EffectiveOf(required) + Adds(C) /\ Adds(C) >= 0 /\ EffectiveOf(required) \in Int
        BY <1>2, <1>3, <1>9, WorthType, AddsType
    <2> QED BY <1>3, <1>4, <1>8, <1>11, <2>1
<1>16. ASSUME NEW S \in SUBSET Positions, Passed(S, k + 1, C \cup {k + 1})
       PROVE  Dealt(S, best_value)
    <2>1. PICK i \in 1..k + 1 : /\ i \notin C \cup {k + 1} /\ i \in S
                                /\ \A j \in 1..i - 1 : j \in S <=> j \in C \cup {k + 1}
        BY <1>16 DEF Passed
    <2>2. i \in 1..k /\ i \notin C /\ \A j \in 1..i - 1 : j \in S <=> j \in C
        BY <1>3, <2>1
    <2>3. Passed(S, k, C)
        BY <2>1, <2>2 DEF Passed
    <2> QED BY <1>2, <2>3 DEF Searching, Explored, k, C
<1>17. IF best_value = -1 THEN best = <<>> ELSE IsBest(best, best_value)
    BY <1>2 DEF Searching, BestReal
<1>18. tries' \in Nat /\ k + 1 <= Len(groups) /\ best' = best /\ best_value' = best_value
    BY <1>1, <1>2, <1>3, <1>4
<1>19. UNCHANGED <<inputs, groups, phase>>
    BY <1>1
<1> QED
    BY <1>1, <1>6, <1>7, <1>13, <1>14, <1>15, <1>16, <1>17, <1>18, <1>19, IterationKeeps

\* A step back passes what includes the coin it omits, and that is dealt with.
LEMMA BacktrackKeeps ==
    ASSUME Searched, Backtrack
    PROVE  Searched'
<1> DEFINE k == Len(selection)
           C == Chosen(selection)
           L == LastIncluded
           n == Len(groups)
           E == Effective(groups[L])
<1>1. /\ phase = "search" /\ tries > 0 /\ (OutOfReach \/ InRange) /\ L > 0
      /\ best' = NewBest /\ best_value' = NewBestValue
      /\ selection' = [SubSeq(selection, 1, L) EXCEPT ![L] = FALSE]
      /\ curr_available' = curr_available + Adds(L + 1..k)
      /\ curr_value' = curr_value - E
      /\ tries' = tries - 1
      /\ UNCHANGED <<inputs, groups, phase>>
    BY DEF Backtrack, Adds
<1>2. Asked /\ Searching /\ tries \in Nat /\ Grouped
    BY <1>1 DEF Searched, Searching
<1>3. /\ C \in SUBSET Positions /\ k \in Nat /\ n \in Nat /\ k <= n
      /\ curr_value \in Int /\ curr_available \in Int
    BY <1>2, TotalsType DEF Searching, Positioned
<1>4. L \in 1..k /\ L \in C
    BY <1>1, <1>2, LastIncludedIs
<1>5. /\ selection' \in Seq(BOOLEAN) /\ Len(selection') = L /\ selection' # <<>>
      /\ Chosen(selection') = C \ {L}
    BY <1>1, <1>2, SteppedBack
<1>6. curr_value = WorthOf(C) /\ curr_available = Adds(k + 1..n)
    BY <1>2 DEF Searching, Accounts
<1>7. selection # <<>>
    BY <1>4
<1>8. EffectiveOf(required) < target
    BY <1>2, <1>7 DEF Searching, Begun
<1>9. IF NewBestValue = -1 THEN NewBest = <<>> ELSE IsBest(NewBest, NewBestValue)
    BY <1>2, <1>7, NewBestReal
<1>10. \A S \in SUBSET Positions : Passed(S, L, C \ {L}) => Dealt(S, NewBestValue)
    BY <1>1, <1>2, PassedOnBack
<1>11. C \ {L} \in SUBSET Positions
    BY <1>3
<1> HIDE DEF k, C, L
<1>12. E \in Int
    <2>1. groups[L] \in Coins
        BY <1>2, <1>3, <1>4, ElementOfSeq DEF Grouped
    <2> QED BY <1>2, <2>1, EffectiveType DEF Asked
<1> HIDE DEF E
<1>13. curr_value' = WorthOf(C \ {L})
    <2>1. Adds(C) = E + Adds(C \ {L})
        BY <1>2, <1>3, <1>4, AddsOne DEF E
    <2>2. Adds(C \ {L}) \in Int
        BY <1>2, <1>11, AddsType
    <2>3. /\ WorthOf(C) = EffectiveOf(required) + Adds(C) /\ EffectiveOf(required) \in Int
          /\ WorthOf(C \ {L}) = EffectiveOf(required) + Adds(C \ {L})
        BY <1>2, <1>3, <1>11, WorthType
    <2> QED BY <1>1, <1>6, <1>12, <2>1, <2>2, <2>3
<1>14. curr_available' = Adds(L + 1..n)
    <2> DEFINE R == L + 1..n
               A == L + 1..k
    <2>1. R \in SUBSET Positions /\ A \in SUBSET R /\ A \in SUBSET Positions /\ R \ A = k + 1..n
        BY <1>3, <1>4 DEF Positions
    <2> HIDE DEF R, A
    <2>2. Adds(R) = Adds(A) + Adds(R \ A)
        BY <1>2, <2>1, AddsSplit
    <2>3. Adds(A) \in Int
        BY <1>2, <2>1, AddsType
    <2>4. curr_available' = curr_available + Adds(A)
        BY <1>1 DEF A
    <2>5. curr_available = Adds(R \ A)
        BY <1>6, <2>1
    <2>6. curr_available' = Adds(R)
        BY <1>3, <2>2, <2>3, <2>4, <2>5
    <2> QED BY <2>6 DEF R
<1>15. tries' \in Nat /\ L <= Len(groups)
    BY <1>1, <1>2, <1>3, <1>4
<1>16. UNCHANGED <<inputs, groups, phase>>
    BY <1>1
<1> QED
    BY <1>1, <1>5, <1>8, <1>9, <1>10, <1>13, <1>14, <1>15, <1>16, IterationKeeps

\* What the best selection b, which costs v, is when the search was exact.
Worths == {WorthOf(S) : S \in {T \in SUBSET DOMAIN groups : Window(T)}}
Exact(b, v) ==
    IF b = <<>> THEN Worths = {} \/ EffectiveOf(required) = target
    ELSE Worths # {} /\ v = Min(Worths)

\* When everything has been dealt with, the search was exact.
LEMMA ExactWhenAllDealt ==
    ASSUME Asked, Grouped, NEW b, NEW v,
           \A S \in SUBSET Positions : Dealt(S, v),
           IF v = -1 THEN b = <<>> ELSE IsBest(b, v)
    PROVE  Exact(b, v)
<1> DEFINE W == {T \in SUBSET DOMAIN groups : Window(T)}
           worths == {WorthOf(S) : S \in W}
<1>0. worths = Worths
    BY DEF Worths
<1>1. DOMAIN groups = Positions
    BY LenProperties DEF Grouped, Positions
<1>2. \A S \in SUBSET Positions : WorthOf(S) \in Int
    BY WorthType
<1>3. CASE v = -1
    <2>1. W = {}
        BY <1>1, <1>3 DEF Dealt
    <2> QED BY <1>0, <1>3, <2>1 DEF Exact
<1>4. CASE v # -1
    <2>1. b # <<>> /\ Chosen(b) \in SUBSET Positions /\ Window(Chosen(b)) /\ v = WorthOf(Chosen(b))
        BY <1>4, ChosenPositions DEF IsBest, Grouped
    <2>2. v \in worths
        BY <1>1, <2>1
    <2>3. \A y \in worths : v <= y
        BY <1>1 DEF Dealt
    <2>4. worths \in SUBSET Int
        BY <1>1, <1>2
    <2> HIDE DEF worths
    <2>5. Min(worths) = v
        BY <2>2, <2>3, <2>4, MinIs
    <2> QED BY <1>0, <2>1, <2>2, <2>5 DEF Exact
<1> QED BY <1>3, <1>4

\* A search that stops has found the cheapest selection, unless it ran out of
\* tries, or the required coins alone meet the target.
LEMMA StopKeeps ==
    ASSUME Searched, phase = "search", NEW b, NEW v, Stop(b, v),
           \/ tries = 0
           \/ b = <<>> /\ EffectiveOf(required) = target
           \/ /\ \A S \in SUBSET Positions : Dealt(S, v)
              /\ IF v = -1 THEN b = <<>> ELSE IsBest(b, v)
    PROVE  Searched'
<1>1. /\ best' = b /\ best_value' = v /\ phase' \in {"fallback", "done"}
      /\ UNCHANGED <<algorithm, required, optional, rate, target, groups, tries>>
    BY DEF Stop, EndSearch, Return, inputs
<1>2. Asked /\ Asked' /\ Grouped /\ tries \in Nat /\ tries' \in Nat
    BY <1>1 DEF Searched, Searching, Asked
<1>3. SearchIsOptimal'
    <2>1. CASE tries = 0
        BY <1>1, <2>1 DEF SearchIsOptimal
    <2>2. EffectiveOf(required)' = EffectiveOf(required) /\ \A S : WorthOf(S)' = WorthOf(S) /\ (Window(S)' <=> Window(S))
        BY <1>1, SameWorth
    <2>3. CASE b = <<>> /\ EffectiveOf(required) = target
        BY <1>1, <2>2, <2>3 DEF SearchIsOptimal
    <2>4. CASE /\ \A S \in SUBSET Positions : Dealt(S, v)
               /\ IF v = -1 THEN b = <<>> ELSE IsBest(b, v)
        <3>1. Exact(b, v)
            BY <1>2, <2>4, ExactWhenAllDealt
        <3>2. Worths' = Worths
            BY <1>1, <2>2 DEF Worths
        <3>3. Exact(best, best_value)'
            BY <1>1, <2>2, <3>1, <3>2 DEF Exact
        <3> QED BY <3>3 DEF SearchIsOptimal, Exact, Worths
    <2> QED BY <2>1, <2>3, <2>4
<1> QED BY <1>1, <1>2, <1>3 DEF Searched

\* The search ends when its tries do.
LEMMA TriesExhaustedKeeps ==
    ASSUME Searched, TriesExhausted
    PROVE  Searched'
BY StopKeeps DEF TriesExhausted

\* The search ends when there is nothing left to omit.
LEMMA ExhaustedKeeps ==
    ASSUME Searched, Exhausted
    PROVE  Searched'
<1>1. /\ phase = "search" /\ LastIncluded = 0 /\ (OutOfReach \/ (InRange /\ curr_value # target))
      /\ Stop(NewBest, NewBestValue)
    BY DEF Exhausted
<1>2. Asked /\ Searching
    BY <1>1 DEF Searched
<1>3. \A S \in SUBSET Positions : Dealt(S, NewBestValue)
    BY <1>1, <1>2, AllDealt
<1>4. curr_value # target
    <2>1. curr_value \in Int /\ curr_available \in Int /\ target \in Nat /\ CostOfChange \in Nat
        BY <1>2, TotalsType, CostType
    <2>2. curr_available >= 0
        <3>1. Len(selection) + 1..Len(groups) \in SUBSET Positions
            BY <1>2, TotalsType
        <3> QED BY <1>2, <3>1, AddsType DEF Searching, Accounts
    <2> QED BY <1>1, <2>1, <2>2 DEF OutOfReach
<1>5. IF NewBestValue = -1 THEN NewBest = <<>> ELSE IsBest(NewBest, NewBestValue)
    BY <1>2, <1>4, NewBestReal
<1> QED BY <1>1, <1>3, <1>5, StopKeeps

\* The search ends on a selection that meets the target: none is cheaper.
LEMMA PerfectMatchKeeps ==
    ASSUME Searched, PerfectMatch
    PROVE  Searched'
<1>1. phase = "search" /\ InRange /\ curr_value = target /\ Stop(NewBest, NewBestValue)
    BY DEF PerfectMatch
<1>2. Asked /\ Searching
    BY <1>1 DEF Searched
<1>3. /\ curr_value \in Int /\ target \in Nat /\ CostOfChange \in Nat
      /\ curr_value = WorthOf(Chosen(selection)) /\ Chosen(selection) \in SUBSET Positions
    BY <1>2, TotalsType, CostType DEF Searching, Accounts
<1>4. best_value = -1 \/ (best_value \in Int /\ best_value >= target)
    <2>1. best_value # -1 => /\ Len(best) <= Len(groups) /\ best \in Seq(BOOLEAN)
                             /\ best_value = WorthOf(Chosen(best)) /\ Window(Chosen(best))
        BY <1>2 DEF Searching, BestReal, IsBest
    <2>2. best_value # -1 => WorthOf(Chosen(best)) \in Int
        BY <1>2, <2>1, ChosenPositions, WorthType DEF Searching, Grouped
    <2> QED BY <2>1, <2>2 DEF Window
<1>5. NewBestValue = target
    BY <1>1, <1>3, <1>4 DEF NewBestValue, Better
<1>6. \A S \in SUBSET Positions : Dealt(S, NewBestValue)
    BY <1>3, <1>5 DEF Dealt, Window
<1>7. CASE selection # <<>>
    <2>1. IF NewBestValue = -1 THEN NewBest = <<>> ELSE IsBest(NewBest, NewBestValue)
        BY <1>2, <1>7, NewBestReal
    <2> QED BY <1>1, <1>6, <2>1, StopKeeps
<1>8. CASE selection = <<>>
    <2>1. EffectiveOf(required) = target
        <3>1. Chosen(selection) = {}
            BY <1>8 DEF Chosen
        <3> QED BY <1>1, <1>2, <1>3, <3>1, WorthType DEF Searching
    <2>2. CASE NewBest = <<>>
        BY <1>1, <2>1, <2>2, StopKeeps
    <2>3. CASE NewBest # <<>>
        <3>1. ~Better
            BY <1>8, <2>3 DEF NewBest
        <3>2. NewBest = best /\ NewBestValue = best_value
            BY <3>1 DEF NewBest, NewBestValue
        <3>3. IF NewBestValue = -1 THEN NewBest = <<>> ELSE IsBest(NewBest, NewBestValue)
            BY <1>2, <3>2 DEF Searching, BestReal
        <3> QED BY <1>1, <1>6, <3>3, StopKeeps
    <2> QED BY <2>2, <2>3
<1> QED BY <1>7, <1>8

\* Steps that leave the search alone.
LEMMA OutsideKeeps ==
    ASSUME Searched, UNCHANGED <<inputs, search>>,
           \/ phase = "start" /\ phase' = "done"
           \/ phase = "fallback" /\ phase' = "done"
           \/ phase' = phase
    PROVE  Searched'
<1>1. UNCHANGED <<algorithm, required, optional, rate, target, groups, selection,
                  curr_value, curr_available, best, best_value, tries>>
    BY DEF inputs, search
<1>2. Asked' /\ tries' \in Nat
    BY <1>1 DEF Searched, Asked
<1>3. EffectiveOf(required)' = EffectiveOf(required) /\ \A S : WorthOf(S)' = WorthOf(S) /\ (Window(S)' <=> Window(S))
    BY <1>1, SameWorth
<1>4. CASE phase = "start" /\ phase' = "done"
    BY <1>1, <1>2, <1>4 DEF Searched, SearchIsOptimal
<1>5. SearchIsOptimal /\ (phase' = "done" => phase \in {"fallback", "done"}) /\ (phase' = "fallback" => phase = "fallback")
      => SearchIsOptimal'
    <2>1. Worths' = Worths
        BY <1>1, <1>3 DEF Worths
    <2>2. Exact(best, best_value) => Exact(best, best_value)'
        BY <1>1, <1>3, <2>1 DEF Exact
    <2> QED BY <1>1, <2>2 DEF SearchIsOptimal, Exact, Worths
<1>6. CASE phase = "fallback" /\ phase' = "done"
    BY <1>1, <1>2, <1>5, <1>6 DEF Searched
<1>7. CASE phase' = phase
    <2>1. Searching => Searching'
        BY <1>1 DEF Searching, Grouped, Positioned, Positions, Accounts, BestReal, IsBest, Explored, Begun,
                    Dealt, Window, WorthOf, EffectiveOf, Effective, Fee, CostOfChange, Adds, Chosen, Passed
    <2> QED BY <1>1, <1>2, <1>5, <1>7, <2>1 DEF Searched
<1> QED BY <1>4, <1>6, <1>7

\* The invariant holds throughout.
LEMMA SearchedAlways == Spec => []Searched
<1>1. Init => Searched
    <2> SUFFICES ASSUME Init PROVE Searched
        OBVIOUS
    <2>1. /\ required \in Lists(MaxRequired) /\ optional \in Lists(MaxOptional)
          /\ rate \in Nat /\ target \in Nat
        BY CoinsAssumption DEF Init
    <2>2. ASSUME NEW n \in Nat, NEW s \in Lists(n) PROVE s \in Seq(Coins)
        <3>1. PICK m \in 0..n : s \in [1..m -> Coins]
            BY DEF Lists
        <3> QED BY <3>1
    <2>3. Asked
        BY <2>1, <2>2, CoinsAssumption DEF Asked
    <2> QED BY <2>3, CoinsAssumption DEF Init, Searched, SearchIsOptimal
<1>2. Searched /\ [Next]_vars => Searched'
    <2> SUFFICES ASSUME Searched, [Next]_vars PROVE Searched'
        OBVIOUS
    <2>1. CASE SelectSorted
        BY <2>1, OutsideKeeps DEF SelectSorted, Return
    <2>2. CASE StartInsufficient
        BY <2>2, OutsideKeeps DEF StartInsufficient, Return
    <2>3. CASE StartRequiredSuffice
        BY <2>3, OutsideKeeps DEF StartRequiredSuffice, Return
    <2>4. CASE StartSearch
        BY <2>4, StartSearchKeeps
    <2>5. CASE TriesExhausted
        BY <2>5, TriesExhaustedKeeps
    <2>6. CASE PerfectMatch
        BY <2>6, PerfectMatchKeeps
    <2>7. CASE Exhausted
        BY <2>7, ExhaustedKeeps
    <2>8. CASE Backtrack
        BY <2>8, BacktrackKeeps
    <2>9. CASE Forward
        BY <2>9, ForwardKeeps
    <2>10. CASE Fallback
        BY <2>10, OutsideKeeps DEF Fallback, Return
    <2>11. CASE UNCHANGED vars
        BY <2>11, OutsideKeeps DEF vars
    <2> QED BY <2>1, <2>2, <2>3, <2>4, <2>5, <2>6, <2>7, <2>8, <2>9, <2>10, <2>11 DEF Next
<1> QED BY <1>1, <1>2, PTL DEF Spec

-----------------------------------------------------------------------------
(***************************************************************************)
(* The theorems.                                                           *)
(***************************************************************************)

\* However many coins are included, omitted and jumped back over, the running
\* totals of bnb (curr_value, curr_available_value) are the sums they stand for.
THEOREM TotalsAddUp == Spec => []SearchAccounts
<1>1. Searched => SearchAccounts
    BY DEF Searched, Searching, Accounts, SearchAccounts, WorthOf, Adds, Chosen
<1> QED BY <1>1, SearchedAlways, PTL

\* bnb never indexes optional_utxos past its end: when it moves forward, there
\* is a coin that is not decided.
THEOREM NeverPastTheCoins == Spec => []ForwardInBounds
<1>1. Searched => ForwardInBounds
    BY CoinLeft DEF Searched, ForwardInBounds
<1> QED BY <1>1, SearchedAlways, PTL

\* For any coins, target, rate and number of tries: a search that ends before
\* its tries do has found the cheapest selection that needs no change, and
\* coin_select falls back only if there is none.
THEOREM BranchAndBoundExact == Spec => []SearchIsOptimal
<1>1. Searched => SearchIsOptimal
    BY DEF Searched
<1> QED BY <1>1, SearchedAlways, PTL

-----------------------------------------------------------------------------
(***************************************************************************)
(* Every answer is sound: the steps of coin_select seen from its caller.   *)
(*                                                                         *)
(* The amounts of lists of coins, as sums of a function of coins.          *)
(***************************************************************************)
Over(g, s) == SumOver([i \in DOMAIN s |-> g[s[i]]])
At(g, S, s) == SumOver([i \in S |-> g[s[i]]])

Values == [c \in Coins |-> c.value]
Weights == [c \in Coins |-> c.weight]
Fees == [c \in Coins |-> Fee(c.weight)]
Effectives == [c \in Coins |-> Effective(c)]

\* The positions of a list of coins.
LEMMA ListOf ==
    ASSUME NEW s \in Seq(Coins)
    PROVE  /\ Len(s) \in Nat /\ DOMAIN s = 1..Len(s) /\ IsFiniteSet(DOMAIN s)
           /\ \A i \in DOMAIN s : s[i] \in Coins
<1>1. Len(s) \in Nat /\ DOMAIN s = 1..Len(s) /\ \A i \in DOMAIN s : s[i] \in Coins
    BY ElementOfSeq, LenProperties
<1>2. IsFiniteSet(1..Len(s))
    BY <1>1, FS_Interval
<1> QED BY <1>1, <1>2

\* The four functions of coins.
LEMMA AmountTypes ==
    ASSUME Asked
    PROVE  /\ Values \in [Coins -> Nat] /\ Weights \in [Coins -> Nat] /\ Fees \in [Coins -> Nat]
           /\ Effectives \in [Coins -> Int]
           /\ \A c \in Coins : Values[c] = Effectives[c] + Fees[c]
<1>1. \A c \in Coins : c.value \in Nat /\ c.weight \in Nat
    BY CoinsAssumption
<1>2. \A c \in Coins : Fee(c.weight) \in Nat
    BY <1>1, FeeType DEF Asked
<1>3. \A c \in Coins : Effective(c) \in Int /\ c.value = Effective(c) + Fee(c.weight)
    BY <1>1, <1>2 DEF Effective
<1> QED BY <1>1, <1>2, <1>3 DEF Values, Weights, Fees, Effectives

\* The amounts of the model are sums of these functions.
LEMMA AmountsAre ==
    ASSUME NEW s \in Seq(Coins)
    PROVE  /\ ValueOf(s) = Over(Values, s) /\ WeightOf(s) = Over(Weights, s)
           /\ FeeOf(s) = Over(Fees, s) /\ EffectiveOf(s) = Over(Effectives, s)
<1>1. \A i \in DOMAIN s : s[i] \in Coins
    BY ListOf
<1>2. /\ [i \in DOMAIN s |-> s[i].value] = [i \in DOMAIN s |-> Values[s[i]]]
      /\ [i \in DOMAIN s |-> s[i].weight] = [i \in DOMAIN s |-> Weights[s[i]]]
      /\ [i \in DOMAIN s |-> Fee(s[i].weight)] = [i \in DOMAIN s |-> Fees[s[i]]]
      /\ [i \in DOMAIN s |-> Effective(s[i])] = [i \in DOMAIN s |-> Effectives[s[i]]]
    BY <1>1 DEF Values, Weights, Fees, Effectives
<1> QED BY <1>2, SumIsSumOf DEF ValueOf, WeightOf, FeeOf, EffectiveOf, Over

\* A sum of integers is one, of natural numbers as well.
LEMMA OverType ==
    ASSUME NEW s \in Seq(Coins), NEW g \in [Coins -> Int]
    PROVE  Over(g, s) \in Int /\ ((\A c \in Coins : g[c] >= 0) => Over(g, s) >= 0)
<1> DEFINE f == [i \in DOMAIN s |-> g[s[i]]]
<1>1. IsFiniteSet(DOMAIN s) /\ \A i \in DOMAIN s : s[i] \in Coins
    BY ListOf
<1>2. f \in [DOMAIN s -> Int] /\ ((\A c \in Coins : g[c] >= 0) => \A i \in DOMAIN s : f[i] >= 0)
    BY <1>1
<1> HIDE DEF f
<1>3. SumOver(f) \in Int /\ ((\A c \in Coins : g[c] >= 0) => SumOver(f) >= 0)
    BY <1>1, <1>2, SumRemove, SumNonnegative
<1> QED BY <1>3 DEF Over, f

\* A list of two parts.
LEMMA OverJoined ==
    ASSUME NEW s \in Seq(Coins), NEW t \in Seq(Coins), NEW g \in [Coins -> Int]
    PROVE  Over(g, s \o t) = Over(g, s) + Over(g, t)
<1> DEFINE m == Len(s)
           n == Len(t)
           f == [i \in DOMAIN (s \o t) |-> g[(s \o t)[i]]]
           a == [i \in DOMAIN s |-> g[s[i]]]
           b == [i \in DOMAIN t |-> g[t[i]]]
<1>1. /\ m \in Nat /\ DOMAIN s = 1..m /\ \A i \in 1..m : s[i] \in Coins
      /\ n \in Nat /\ DOMAIN t = 1..n /\ \A i \in 1..n : t[i] \in Coins
    BY ListOf
<1>2. /\ s \o t \in Seq(Coins) /\ Len(s \o t) = m + n
      /\ \A i \in 1..m + n : (s \o t)[i] = IF i <= m THEN s[i] ELSE t[i - m]
    BY ConcatProperties
<1>3. DOMAIN (s \o t) = 1..m + n /\ \A i \in 1..m + n : (s \o t)[i] \in Coins
    BY <1>2, ListOf
<1>4. (\A i \in 1..m : (s \o t)[i] = s[i]) /\ (\A i \in 1..n : (s \o t)[m + i] = t[i])
    <2>1. \A i \in 1..m : i \in 1..m + n /\ i <= m
        BY <1>1
    <2>2. \A i \in 1..n : m + i \in 1..m + n /\ ~(m + i <= m) /\ (m + i) - m = i
        BY <1>1
    <2> HIDE DEF m, n
    <2> QED BY <1>2, <2>1, <2>2
<1>5. f \in [1..m + n -> Int] /\ a \in [1..m -> Int] /\ b \in [1..n -> Int]
    BY <1>1, <1>3
<1>6. (\A i \in 1..m : a[i] = f[i]) /\ (\A i \in 1..n : b[i] = f[m + i])
    <2>1. (\A i \in 1..m : i \in 1..m + n) /\ (\A i \in 1..n : m + i \in 1..m + n)
        BY <1>1
    <2> HIDE DEF m, n
    <2> QED BY <1>1, <1>3, <1>4, <2>1
<1> HIDE DEF m, n, f, a, b
<1>7. SumOver(f) = SumOver(a) + SumOver(b)
    BY <1>1, <1>5, <1>6, SumJoined
<1> QED BY <1>7 DEF Over, f, a, b

\* A shuffle of the coins at some positions.
LEMMA OverShuffled ==
    ASSUME NEW s \in Seq(Coins), NEW S \in SUBSET DOMAIN s, NEW l \in Shuffles(s, S), NEW g \in [Coins -> Int]
    PROVE  Over(g, l) = At(g, S, s)
<1> DEFINE n == Cardinality(S)
           h == [i \in DOMAIN l |-> g[l[i]]]
           f == [i \in S |-> g[s[i]]]
<1>1. IsFiniteSet(S) /\ n \in Nat /\ l \in Seq(Coins) /\ DOMAIN l = 1..n
    BY ShuffleIs
<1>2. PICK p : Numbers(p, l, s, S)
    BY ShuffleIs
<1>3. p \in [1..n -> S] /\ IsInjective(p) /\ \A i \in 1..n : l[i] = s[p[i]]
    BY <1>2 DEF Numbers
<1>4. (\A i \in DOMAIN s : s[i] \in Coins) /\ (\A i \in 1..n : l[i] \in Coins)
    BY <1>1, ListOf
<1>5. f \in [S -> Int] /\ h \in [1..n -> Int] /\ \A i \in 1..n : h[i] = f[p[i]]
    BY <1>1, <1>3, <1>4
<1>6. /\ \A x, y \in 1..n : p[x] = p[y] => x = y
      /\ \A d \in S : \E x \in 1..n : p[x] = d
    BY <1>1, <1>3, NumberingReaches
<1>7. IsFiniteSet(1..n)
    BY <1>1, FS_Interval
<1> HIDE DEF f, h, n
<1>8. Renumbers(h, 1..n, f, S, p)
    BY <1>1, <1>3, <1>5, <1>6, <1>7 DEF Renumbers
<1>9. SumOver(h) = SumOver(f)
    BY <1>8, SumReindex
<1> QED BY <1>9 DEF Over, At, f, h

\* The value of coins is what they are worth and what they cost.
LEMMA ValueIs ==
    ASSUME Asked, NEW s \in Seq(Coins)
    PROVE  /\ ValueOf(s) = EffectiveOf(s) + FeeOf(s)
           /\ ValueOf(s) \in Nat /\ FeeOf(s) \in Nat /\ WeightOf(s) \in Nat /\ EffectiveOf(s) \in Int
<1> DEFINE f == [i \in DOMAIN s |-> Effectives[s[i]]]
           g == [i \in DOMAIN s |-> Fees[s[i]]]
<1>1. IsFiniteSet(DOMAIN s) /\ \A i \in DOMAIN s : s[i] \in Coins
    BY ListOf
<1>2. /\ Values \in [Coins -> Nat] /\ Weights \in [Coins -> Nat] /\ Fees \in [Coins -> Nat]
      /\ Effectives \in [Coins -> Int]
      /\ \A c \in Coins : Values[c] = Effectives[c] + Fees[c]
    BY AmountTypes
<1>3. f \in [DOMAIN s -> Int] /\ g \in [DOMAIN s -> Int]
    BY <1>1, <1>2
<1>4. [i \in DOMAIN s |-> Values[s[i]]] = [i \in DOMAIN s |-> f[i] + g[i]]
    BY <1>1, <1>2
<1> HIDE DEF f, g
<1>5. SumOver([i \in DOMAIN s |-> f[i] + g[i]]) = SumOver(f) + SumOver(g)
    BY <1>1, <1>3, SumPlus
<1>6. Over(Values, s) = Over(Effectives, s) + Over(Fees, s)
    BY <1>4, <1>5 DEF Over, f, g
<1>7. /\ Over(Values, s) \in Int /\ Over(Values, s) >= 0 /\ Over(Fees, s) \in Int /\ Over(Fees, s) >= 0
      /\ Over(Weights, s) \in Int /\ Over(Weights, s) >= 0 /\ Over(Effectives, s) \in Int
    <2>1. /\ Values \in [Coins -> Int] /\ Weights \in [Coins -> Int] /\ Fees \in [Coins -> Int]
          /\ \A c \in Coins : Values[c] >= 0 /\ Weights[c] >= 0 /\ Fees[c] >= 0
        BY <1>2
    <2> QED BY <1>2, <2>1, OverType
<1> QED BY <1>6, <1>7, AmountsAre

\* The contract adds up as the model does.
LEMMA CallerTotal ==
    ASSUME NEW f
    PROVE  Caller!Total(f) = Sum(f)
BY DEF Caller!Total, Caller!FoldFunction, Caller!FoldFunctionOnSet, Caller!MapThenFoldSet,
       Sum, FoldFunction, FoldFunctionOnSet, MapThenFoldSet

\* The amounts of the contract are those of the model.
LEMMA CallerAmounts ==
    ASSUME NEW s
    PROVE  /\ Caller!Worth(s) = ValueOf(s) /\ Caller!FeeFor(s, rate) = FeeOf(s)
           /\ Caller!FeeForAll(s, rate) = Fee(WeightOf(s))
           /\ \A r : Caller!decide_change(r, rate) = decide_change(r)
           /\ Caller!Failure = Failed
<1>1. \A w : Caller!FeeAt(rate, w) = Fee(w)
    BY DEF Caller!FeeAt, Fee
<1>2. \A f : Caller!Total(f) = Sum(f)
    BY CallerTotal
<1>3. [i \in DOMAIN s |-> Caller!FeeAt(rate, s[i].weight)] = [i \in DOMAIN s |-> Fee(s[i].weight)]
    BY <1>1
<1>4. Caller!Worth(s) = ValueOf(s)
    BY <1>2 DEF Caller!Worth, ValueOf
<1>5. Caller!FeeFor(s, rate) = FeeOf(s)
    BY <1>2, <1>3 DEF Caller!FeeFor, FeeOf
<1>6. Caller!FeeForAll(s, rate) = Fee(WeightOf(s))
    BY <1>1, <1>2 DEF Caller!FeeForAll, WeightOf
<1>7. \A r : Caller!decide_change(r, rate) = decide_change(r)
    BY <1>1 DEF Caller!decide_change, decide_change
<1>8. Caller!Failure = Failed
    BY DEF Caller!Failure, Failed
<1> QED BY <1>4, <1>5, <1>6, <1>7, <1>8

\* When the coins at some positions of optional pay together with the required.
LEMMA PaysWithIs ==
    ASSUME Asked, NEW S \in SUBSET DOMAIN optional
    PROVE  Caller!PaysWith(S, required, optional, rate, target) <=>
             /\ ValueOf(required) + At(Values, S, optional) >= target + (FeeOf(required) + At(Fees, S, optional))
             /\ ValueOf(required) + At(Values, S, optional)
                  >= target + Fee(WeightOf(required) + At(Weights, S, optional))
<1>1. \A i \in S : optional[i] \in Coins
    BY ListOf DEF Asked
<1>2. \A w : Caller!FeeAt(rate, w) = Fee(w)
    BY DEF Caller!FeeAt, Fee
<1>3. \A f : Caller!Total(f) = SumOver(f)
    BY CallerTotal, SumIsSumOf
<1>4. /\ [i \in S |-> optional[i].value] = [i \in S |-> Values[optional[i]]]
      /\ [i \in S |-> optional[i].weight] = [i \in S |-> Weights[optional[i]]]
      /\ [i \in S |-> Caller!FeeAt(rate, optional[i].weight)] = [i \in S |-> Fees[optional[i]]]
    BY <1>1, <1>2 DEF Values, Weights, Fees
<1>5. /\ Caller!Total([i \in S |-> optional[i].value]) = At(Values, S, optional)
      /\ Caller!Total([i \in S |-> optional[i].weight]) = At(Weights, S, optional)
      /\ Caller!Total([i \in S |-> Caller!FeeAt(rate, optional[i].weight)]) = At(Fees, S, optional)
    BY <1>3, <1>4 DEF At
<1>6. Caller!Worth(required) = ValueOf(required) /\ Caller!FeeFor(required, rate) = FeeOf(required)
    BY CallerAmounts
<1>7. Caller!Total([i \in DOMAIN required |-> required[i].weight]) = WeightOf(required)
    BY CallerTotal DEF WeightOf
<1> QED BY <1>2, <1>5, <1>6, <1>7 DEF Caller!PaysWith

\* Sums over the positions of optional coins.
LEMMA AtIs ==
    ASSUME Asked, NEW S \in SUBSET DOMAIN optional
    PROVE  /\ At(Values, S, optional) = At(Effectives, S, optional) + At(Fees, S, optional)
           /\ At(Values, S, optional) \in Int /\ At(Fees, S, optional) \in Int
           /\ At(Effectives, S, optional) \in Int
<1> DEFINE f == [i \in S |-> Effectives[optional[i]]]
           g == [i \in S |-> Fees[optional[i]]]
           v == [i \in S |-> Values[optional[i]]]
<1>1. IsFiniteSet(DOMAIN optional) /\ \A i \in S : optional[i] \in Coins
    BY ListOf DEF Asked
<1>2. IsFiniteSet(S)
    BY <1>1, FS_Subset
<1>3. f \in [S -> Int] /\ g \in [S -> Int] /\ v \in [S -> Int] /\ v = [i \in S |-> f[i] + g[i]]
    BY <1>1, AmountTypes
<1> HIDE DEF f, g, v
<1>4. SumOver([i \in S |-> f[i] + g[i]]) = SumOver(f) + SumOver(g)
    BY <1>2, <1>3, SumPlus
<1>5. SumOver(f) \in Int /\ SumOver(g) \in Int /\ SumOver(v) \in Int
    BY <1>2, <1>3, SumRemove
<1> QED BY <1>3, <1>4, <1>5 DEF At, f, g, v

\* A list of all optional coins that does not pay lets an algorithm give up.
LEMMA ListFails ==
    ASSUME Asked, NEW l \in Shuffles(optional, DOMAIN optional),
           ~(ValueOf(required \o l) >= target + Fee(WeightOf(required \o l)))
    PROVE  Caller!MayFail(required, optional, rate, target)
<1> DEFINE D == DOMAIN optional
<1>1. required \in Seq(Coins) /\ optional \in Seq(Coins) /\ l \in Seq(Coins) /\ D \in SUBSET DOMAIN optional
    BY ShuffleIs DEF Asked
<1>2. required \o l \in Seq(Coins)
    BY <1>1, ConcatProperties
<1>3. Values \in [Coins -> Int] /\ Weights \in [Coins -> Int]
    BY AmountTypes
<1>4. /\ ValueOf(required \o l) = ValueOf(required) + At(Values, D, optional)
      /\ WeightOf(required \o l) = WeightOf(required) + At(Weights, D, optional)
    <2>1. ValueOf(required \o l) = Over(Values, required \o l) /\ ValueOf(required) = Over(Values, required)
        BY <1>1, <1>2, AmountsAre
    <2>2. WeightOf(required \o l) = Over(Weights, required \o l) /\ WeightOf(required) = Over(Weights, required)
        BY <1>1, <1>2, AmountsAre
    <2>3. Over(Values, l) = At(Values, D, optional) /\ Over(Weights, l) = At(Weights, D, optional)
        BY <1>1, <1>3, OverShuffled
    <2>4. /\ Over(Values, required \o l) = Over(Values, required) + Over(Values, l)
          /\ Over(Weights, required \o l) = Over(Weights, required) + Over(Weights, l)
        BY <1>1, <1>3, OverJoined
    <2> QED BY <2>1, <2>2, <2>3, <2>4
<1>5. ~Caller!PaysWith(D, required, optional, rate, target)
    BY <1>1, <1>4, PaysWithIs
<1> QED BY <1>5 DEF Caller!MayFail

\* Coins that do not pay although none costs more than it is worth.
LEMMA InsufficientFails ==
    ASSUME Asked, ~Enough
    PROVE  Caller!MayFail(required, optional, rate, target)
<1> DEFINE worthwhile == {i \in DOMAIN optional : optional[i].value > Caller!FeeAt(rate, optional[i].weight)}
<1>1. worthwhile = Positive
    <2>1. \A i \in DOMAIN optional : /\ optional[i].value \in Nat /\ optional[i].weight \in Nat
                                     /\ Fee(optional[i].weight) \in Nat
        <3>1. \A i \in DOMAIN optional : optional[i] \in Coins
            BY ListOf DEF Asked
        <3> QED BY <3>1, CoinsAssumption, FeeType DEF Asked
    <2>2. \A i \in DOMAIN optional :
            (optional[i].value > Caller!FeeAt(rate, optional[i].weight)) <=> (Effective(optional[i]) > 0)
        <3>1. \A w : Caller!FeeAt(rate, w) = Fee(w)
            BY DEF Caller!FeeAt, Fee
        <3> QED BY <2>1, <3>1 DEF Effective
    <2> QED BY <2>2 DEF Positive
<1>2. Positive \in SUBSET DOMAIN optional /\ \A i \in Positive : optional[i] \in Coins
    BY ListOf DEF Positive, Asked
<1>3. Available = At(Effectives, Positive, optional)
    <2>1. [i \in Positive |-> Effective(optional[i])] = [i \in Positive |-> Effectives[optional[i]]]
        BY <1>2 DEF Effectives
    <2> QED BY <2>1, SumIsSumOf DEF Available, At
<1>4. ValueOf(required) = EffectiveOf(required) + FeeOf(required) /\ FeeOf(required) \in Nat /\ EffectiveOf(required) \in Int
    BY ValueIs DEF Asked
<1>5. /\ At(Values, Positive, optional) = At(Effectives, Positive, optional) + At(Fees, Positive, optional)
      /\ At(Fees, Positive, optional) \in Int /\ At(Effectives, Positive, optional) \in Int
    BY <1>2, AtIs
<1>6. EffectiveOf(required) + At(Effectives, Positive, optional) < target /\ target \in Nat
    BY <1>3, <1>4, <1>5 DEF Enough, Asked
<1>7. ~(ValueOf(required) + At(Values, Positive, optional) >= target + (FeeOf(required) + At(Fees, Positive, optional)))
    BY <1>4, <1>5, <1>6
<1>8. ~Caller!PaysWith(Positive, required, optional, rate, target)
    BY <1>2, <1>7, PaysWithIs
<1> QED BY <1>1, <1>8 DEF Caller!MayFail

\* An answer the caller may rely on.
MayAnswer(r) ==
    \/ r = Failed /\ Caller!MayFail(required, optional, rate, target)
    \/ Caller!Successful(r, required, optional, rate, target)

\* The required coins with some of the optional ones are a sound answer, if the
\* fee is the one for these inputs and what remains is the rest.
LEMMA AnswerSound ==
    ASSUME Asked, NEW t \in Seq(Coins), NEW f \in [1..Len(t) -> DOMAIN optional],
           \A x, y \in 1..Len(t) : f[x] = f[y] => x = y,
           \A i \in 1..Len(t) : t[i] = optional[f[i]],
           NEW fee \in Int, fee = FeeOf(required \o t) \/ fee = Fee(WeightOf(required \o t)),
           NEW remaining \in Nat, ValueOf(required \o t) = target + fee + remaining
    PROVE  MayAnswer(Succeeded(required \o t, fee, remaining))
<1> DEFINE s == required \o t
           m == Len(required)
           n == Len(t)
           r == Succeeded(s, fee, remaining)
           g == [i \in m + 1..m + n |-> f[i - m]]
<1>1. /\ required \in Seq(Coins) /\ m \in Nat /\ n \in Nat /\ DOMAIN required = 1..m
      /\ \A i \in 1..m : required[i] \in Coins
    BY ListOf DEF Asked
<1>2. /\ s \in Seq(Coins) /\ Len(s) = m + n
      /\ \A i \in 1..m + n : s[i] = IF i <= m THEN required[i] ELSE t[i - m]
    BY <1>1, ConcatProperties
<1>3. /\ r.ok /\ r.selected = s /\ r.fee = fee /\ r.remaining = remaining
      /\ r.change = decide_change(remaining)
    BY DEF Succeeded
<1> HIDE DEF s, m, n, r
<1>4. SubSeq(s, 1, m) = required
    <2>1. \A i \in 1..m : s[i] = required[i] /\ s[i] \in Coins
        BY <1>1, <1>2
    <2>2. /\ SubSeq(s, 1, m) \in Seq(Coins)
          /\ Len(SubSeq(s, 1, m)) = IF 1 <= m THEN m - 1 + 1 ELSE 0
          /\ \A i \in 1..m - 1 + 1 : SubSeq(s, 1, m)[i] = s[1 + i - 1]
        BY <1>1, <2>1, SubSeqProperties
    <2>3. Len(SubSeq(s, 1, m)) = m /\ \A i \in 1..m : SubSeq(s, 1, m)[i] = required[i]
        BY <1>1, <2>1, <2>2
    <2> QED BY <1>1, <2>2, <2>3, SeqEqual DEF m
<1>5. \A i \in m + 1..m + n : i - m \in 1..n /\ i \in 1..m + n /\ ~(i <= m) /\ i \in Int
    BY <1>1
<1>6. f \in [1..n -> DOMAIN optional] /\ (\A x, y \in 1..n : f[x] = f[y] => x = y)
      /\ \A i \in 1..n : t[i] = optional[f[i]]
    BY DEF n
<1>7. g \in [m + 1..m + n -> DOMAIN optional]
    BY <1>5, <1>6
<1>8. \A i \in m + 1..m + n : s[i] = optional[g[i]]
    BY <1>2, <1>5, <1>6
<1>9. Caller!IsInjective(g)
    <2>1. ASSUME NEW x \in m + 1..m + n, NEW y \in m + 1..m + n, g[x] = g[y] PROVE x = y
        <3>1. x - m = y - m
            BY <1>5, <1>6, <2>1
        <3> QED BY <1>1, <1>5, <3>1
    <2> QED BY <2>1 DEF Caller!IsInjective
<1>10. DOMAIN g = m + 1..m + n
    OBVIOUS
<1> HIDE DEF g
<1>11. \E h \in [m + 1..Len(s) -> DOMAIN optional] :
          Caller!IsInjective(h) /\ \A i \in DOMAIN h : s[i] = optional[h[i]]
    BY <1>2, <1>7, <1>8, <1>9, <1>10
<1>12. Caller!Worth(s) = target + fee + remaining /\ remaining >= 0
    BY CallerAmounts DEF s
<1>13. fee \in Caller!Fees(s, rate)
    BY CallerAmounts DEF s, Caller!Fees
<1>14. decide_change(remaining) = Caller!decide_change(remaining, rate)
    BY CallerAmounts
<1>15. Caller!Successful(r, required, optional, rate, target)
    BY <1>3, <1>4, <1>11, <1>12, <1>13, <1>14 DEF Caller!Successful, m
<1> QED BY <1>15 DEF MayAnswer, r, s

\* What the algorithms answer that take coins from a list until they pay.
LEMMA SortedAnswers ==
    ASSUME Asked, NEW l \in Shuffles(optional, DOMAIN optional)
    PROVE  MayAnswer(select_sorted_utxos(required, l))
<1> DEFINE taken(n) == required \o SubSeq(l, 1, n)
           needed(n) == target + Fee(WeightOf(taken(n)))
           covered == {n \in 0..Len(l) : ValueOf(taken(n)) >= needed(n)}
<1>1. /\ l \in Seq(Coins) /\ Len(l) \in Nat /\ \A i \in 1..Len(l) : l[i] \in Coins
      /\ Len(l) = Cardinality(DOMAIN optional)
    BY ShuffleIs, ListOf DEF Asked
<1>2. PICK p : Numbers(p, l, optional, DOMAIN optional)
    BY ShuffleIs DEF Asked
<1>3. p \in [1..Len(l) -> DOMAIN optional] /\ IsInjective(p) /\ \A i \in 1..Len(l) : l[i] = optional[p[i]]
    BY <1>1, <1>2 DEF Numbers
<1>4. CASE covered = {}
    <2>1. SubSeq(l, 1, Len(l)) = l
        BY <1>1, SubSeqFull
    <2>2. ~(ValueOf(taken(Len(l))) >= needed(Len(l)))
        BY <1>1, <1>4
    <2>3. ~(ValueOf(required \o l) >= target + Fee(WeightOf(required \o l)))
        BY <2>1, <2>2
    <2>4. select_sorted_utxos(required, l) = Failed
        BY <1>4 DEF select_sorted_utxos
    <2> QED BY <2>3, <2>4, ListFails DEF MayAnswer
<1>5. CASE covered # {}
    <2> DEFINE n == Min(covered)
               t == SubSeq(l, 1, n)
               f == [i \in 1..n |-> p[i]]
               fee == Fee(WeightOf(taken(n)))
    <2>1. n \in covered
        <3>1. covered \in SUBSET Nat
            OBVIOUS
        <3> HIDE DEF covered
        <3> QED BY <1>5, <3>1, MinOfNaturals
    <2>2. n \in 0..Len(l) /\ ValueOf(taken(n)) >= target + fee
        BY <2>1
    <2>3. select_sorted_utxos(required, l) = Succeeded(taken(n), fee, ValueOf(taken(n)) - (target + fee))
        BY <1>5 DEF select_sorted_utxos
    <2> HIDE DEF n, covered
    <2>4. n \in Nat /\ n <= Len(l) /\ \A i \in 1..n : i \in 1..Len(l)
        BY <1>1, <2>2
    <2>5. t \in Seq(Coins) /\ Len(t) = n /\ \A i \in 1..n : t[i] = l[i]
        <3>1. \A i \in 1..n : l[i] \in Coins
            BY <1>1, <2>4
        <3>2. /\ t \in Seq(Coins) /\ Len(t) = (IF 1 <= n THEN n - 1 + 1 ELSE 0)
              /\ \A i \in 1..n - 1 + 1 : t[i] = l[1 + i - 1]
            BY <2>4, <3>1, SubSeqProperties
        <3> HIDE DEF t
        <3> QED BY <2>4, <3>2
    <2>6. /\ f \in [1..Len(t) -> DOMAIN optional] /\ (\A x, y \in 1..Len(t) : f[x] = f[y] => x = y)
          /\ \A i \in 1..Len(t) : t[i] = optional[f[i]]
        <3>1. \A x, y \in 1..Len(l) : p[x] = p[y] => x = y
            BY <1>3 DEF IsInjective
        <3> HIDE DEF t
        <3> QED BY <1>3, <2>4, <2>5, <3>1
    <2>7. required \o t \in Seq(Coins)
        BY <2>5, ConcatProperties DEF Asked
    <2>8. ValueOf(required \o t) \in Nat /\ WeightOf(required \o t) \in Nat /\ target \in Nat
        BY <2>7, ValueIs DEF Asked
    <2>9. fee \in Nat
        BY <2>8, FeeType DEF Asked
    <2> DEFINE remaining == ValueOf(required \o t) - (target + fee)
    <2>10. fee = Fee(WeightOf(required \o t)) /\ ValueOf(required \o t) >= target + fee
        BY <2>2
    <2> HIDE DEF f, fee
    <2>11. remaining \in Nat /\ ValueOf(required \o t) = target + fee + remaining
        BY <2>8, <2>9, <2>10
    <2> HIDE DEF t, remaining
    <2>12. fee \in Int
        BY <2>9
    <2>13. MayAnswer(Succeeded(required \o t, fee, remaining))
        BY <2>5, <2>6, <2>10, <2>11, <2>12, AnswerSound
    <2> QED BY <2>3, <2>13 DEF t, remaining, fee
<1> QED BY <1>4, <1>5

\* The coins a search has to choose from are optional ones, each once.
Drawn == phase = "search" => groups \in Shuffles(optional, Positive)

\* What the required coins alone are answered with.
LEMMA RequiredAnswer ==
    ASSUME Asked, EffectiveOf(required) > target
    PROVE  MayAnswer(Succeeded(required, FeeOf(required), EffectiveOf(required) - target))
<1> DEFINE t == <<>>
           f == [i \in 1..0 |-> 0]
           remaining == EffectiveOf(required) - target
<1>1. t \in Seq(Coins) /\ Len(t) = 0 /\ required \o t = required
    BY EmptySeq, ConcatEmptySeq DEF Asked
<1>2. f \in [1..Len(t) -> DOMAIN optional]
    BY <1>1
<1>3. /\ ValueOf(required) = EffectiveOf(required) + FeeOf(required) /\ FeeOf(required) \in Nat
      /\ EffectiveOf(required) \in Int /\ target \in Nat
    BY ValueIs DEF Asked
<1>4. remaining \in Nat /\ ValueOf(required) = target + FeeOf(required) + remaining
    BY <1>3
<1>5. (\A x, y \in 1..Len(t) : f[x] = f[y] => x = y) /\ \A i \in 1..Len(t) : t[i] = optional[f[i]]
    BY <1>1
<1> DEFINE fee == FeeOf(required \o t)
<1>6. fee = FeeOf(required \o t) /\ fee \in Int /\ ValueOf(required \o t) = target + fee + remaining
    BY <1>1, <1>3, <1>4
<1> HIDE DEF t, f, fee, remaining
<1>7. MayAnswer(Succeeded(required \o t, fee, remaining))
    BY <1>1, <1>2, <1>4, <1>5, <1>6, AnswerSound
<1> QED BY <1>1, <1>7 DEF remaining, fee

\* The coins of a selection, in the order of the search.
LEMMA ChosenList ==
    ASSUME Asked, groups \in Seq(Coins), NEW b \in Seq(BOOLEAN), Len(b) <= Len(groups)
    PROVE  \E t \in Shuffles(groups, Chosen(b)) : Selected(b) = required \o t
<1> DEFINE C == Chosen(b)
           m == Cardinality(C)
           nth(n) == CHOOSE i \in C : Cardinality({j \in C : j <= i}) = n
           q == [n \in 1..m |-> nth(n)]
           t == [n \in 1..m |-> groups[nth(n)]]
<1>1. C \in SUBSET (1..Len(b)) /\ C \in SUBSET Positions /\ Len(b) \in Nat
    BY ChosenPositions
<1>2. \A n \in 1..m : nth(n) \in C /\ Cardinality({j \in C : j <= nth(n)}) = n
    <2> SUFFICES ASSUME NEW n \in 1..m PROVE nth(n) \in C /\ Cardinality({j \in C : j <= nth(n)}) = n
        OBVIOUS
    <2>1. \E i \in C : Cardinality({j \in C : j <= i}) = n
        BY <1>1, Ranked
    <2> QED BY <2>1
<1>3. Selected(b) = required \o t
    BY DEF Selected, Chosen
<1> HIDE DEF nth, C
<1>4. q \in [1..m -> C]
    BY <1>2
<1>5. IsInjective(q)
    <2>1. ASSUME NEW x \in 1..m, NEW y \in 1..m, nth(x) = nth(y) PROVE x = y
        BY <1>2, <2>1
    <2>2. DOMAIN q = 1..m /\ \A x \in 1..m : q[x] = nth(x)
        OBVIOUS
    <2> HIDE DEF q
    <2> QED BY <2>1, <2>2 DEF IsInjective
<1>6. t = [n \in 1..m |-> groups[q[n]]]
    OBVIOUS
<1> HIDE DEF q, t
<1>7. t \in Shuffles(groups, C)
    BY <1>4, <1>5, <1>6 DEF Shuffles
<1> QED BY <1>3, <1>7 DEF C

\* What the search answers with: its best selection.
LEMMA SearchAnswer ==
    ASSUME Asked, Grouped, groups \in Shuffles(optional, Positive), NEW b, NEW v, IsBest(b, v)
    PROVE  MayAnswer(Succeeded(Selected(b), FeeOf(Selected(b)), v - target))
<1> DEFINE C == Chosen(b)
<1>1. b \in Seq(BOOLEAN) /\ Len(b) <= Len(groups) /\ Window(C) /\ v = WorthOf(C)
    BY DEF IsBest
<1>2. groups \in Seq(Coins) /\ Len(groups) \in Nat /\ DOMAIN groups = Positions
    BY ListOf DEF Grouped, Positions
<1>3. C \in SUBSET Positions
    BY <1>1, <1>2, ChosenPositions
<1>4. PICK t \in Shuffles(groups, C) : Selected(b) = required \o t
    BY <1>1, <1>2, ChosenList
<1> HIDE DEF C
<1>5. /\ t \in Seq(Coins) /\ Len(t) = Cardinality(C) /\ Cardinality(C) \in Nat
      /\ \E q : Numbers(q, t, groups, C)
    BY <1>2, <1>3, ShuffleIs
<1>6. PICK q : Numbers(q, t, groups, C)
    BY <1>5
<1>7. Positive \in SUBSET DOMAIN optional
    BY DEF Positive
<1>8. PICK p : Numbers(p, groups, optional, Positive)
    BY <1>7, ShuffleIs DEF Asked
<1>9. Len(groups) = Cardinality(Positive)
    BY <1>7, ShuffleIs DEF Asked
<1> DEFINE f == [i \in 1..Len(t) |-> p[q[i]]]
<1>10. /\ q \in [1..Len(t) -> C] /\ (\A x, y \in 1..Len(t) : q[x] = q[y] => x = y)
       /\ \A i \in 1..Len(t) : t[i] = groups[q[i]]
    BY <1>5, <1>6 DEF Numbers, IsInjective
<1>11. /\ p \in [Positions -> Positive] /\ (\A x, y \in Positions : p[x] = p[y] => x = y)
       /\ \A i \in Positions : groups[i] = optional[p[i]]
    BY <1>8, <1>9 DEF Numbers, IsInjective, Positions
<1>12. f \in [1..Len(t) -> DOMAIN optional]
    BY <1>3, <1>7, <1>10, <1>11
<1>13. \A x, y \in 1..Len(t) : f[x] = f[y] => x = y
    BY <1>3, <1>10, <1>11
<1>14. \A i \in 1..Len(t) : t[i] = optional[f[i]]
    BY <1>3, <1>10, <1>11
<1> HIDE DEF f
<1>15. required \o t \in Seq(Coins) /\ required \in Seq(Coins)
    BY <1>5, ConcatProperties DEF Asked
<1>16. EffectiveOf(required \o t) = v
    <2>1. Effectives \in [Coins -> Int]
        BY AmountTypes
    <2>2. Over(Effectives, required \o t) = Over(Effectives, required) + Over(Effectives, t)
        BY <1>5, <1>15, <2>1, OverJoined
    <2>3. Over(Effectives, t) = At(Effectives, C, groups)
        BY <1>2, <1>3, <2>1, OverShuffled
    <2>4. At(Effectives, C, groups) = Adds(C)
        <3>1. \A i \in C : groups[i] \in Coins
            BY <1>2, <1>3, ListOf
        <3>2. [i \in C |-> Effectives[groups[i]]] = [i \in C |-> Effective(groups[i])]
            BY <3>1 DEF Effectives
        <3> QED BY <3>2, SumIsSumOf DEF At, Adds
    <2>5. EffectiveOf(required \o t) = Over(Effectives, required \o t) /\ EffectiveOf(required) = Over(Effectives, required)
        BY <1>15, AmountsAre
    <2>6. v = EffectiveOf(required) + Adds(C)
        BY <1>1, <1>3, WorthType
    <2> QED BY <2>2, <2>3, <2>4, <2>5, <2>6
<1>17. /\ ValueOf(required \o t) = v + FeeOf(required \o t) /\ v \in Int
       /\ FeeOf(required \o t) \in Nat /\ target \in Nat
    BY <1>15, <1>16, ValueIs DEF Asked
<1>18. v >= target
    BY <1>1 DEF Window
<1> DEFINE fee == FeeOf(required \o t)
           remaining == v - target
<1>19. fee \in Int /\ remaining \in Nat /\ ValueOf(required \o t) = target + fee + remaining
    BY <1>17, <1>18
<1>20. fee = FeeOf(required \o t)
    OBVIOUS
<1> HIDE DEF fee, remaining
<1>21. MayAnswer(Succeeded(required \o t, fee, remaining))
    BY <1>5, <1>12, <1>13, <1>14, <1>19, <1>20, AnswerSound
<1> QED BY <1>4, <1>21 DEF fee, remaining

\* A best selection that is not empty is one.
LEMMA NewBestIsOne ==
    ASSUME Asked, Searching
    PROVE  /\ best # <<>> => IsBest(best, best_value)
           /\ NewBest # <<>> => IsBest(NewBest, NewBestValue)
<1>1. best # <<>> => IsBest(best, best_value)
    BY DEF Searching, BestReal
<1>2. CASE ~Better
    BY <1>1, <1>2 DEF NewBest, NewBestValue
<1>3. CASE Better
    <2>1. NewBest = selection
        BY <1>3 DEF NewBest
    <2> QED BY <1>1, <2>1, NewBestReal
<1> QED BY <1>1, <1>2, <1>3

\* A step that answers is a step of the promise.
LEMMA AnswerStep ==
    ASSUME NEW r, MayAnswer(r), phase # "done", Return(r), UNCHANGED inputs
    PROVE  Caller!coin_select
<1>1. phase' = "done" /\ result' = r /\ UNCHANGED <<required, optional, rate, target>>
    BY DEF Return, inputs
<1>2. \/ result' = Caller!Failure /\ Caller!MayFail(required, optional, rate, target)
      \/ Caller!Successful(result', required, optional, rate, target)
    BY <1>1, CallerAmounts DEF MayAnswer
<1> QED BY <1>1, <1>2 DEF Caller!coin_select, Caller!asked

\* A step that does not answer is not seen.
LEMMA QuietStep ==
    ASSUME UNCHANGED inputs, UNCHANGED result, phase = "done" <=> phase' = "done"
    PROVE  UNCHANGED Caller!vars
BY DEF inputs, Caller!vars, Caller!asked

\* The end of a search, with an answer or with the fallback.
LEMMA StopStep ==
    ASSUME Searched, Drawn, phase = "search", NEW b, NEW v, Stop(b, v), b # <<>> => IsBest(b, v)
    PROVE  [Caller!coin_select]_(Caller!vars)
<1>1. Asked /\ Grouped /\ groups \in Shuffles(optional, Positive)
    BY DEF Searched, Searching, Drawn
<1>2. UNCHANGED inputs /\ EndSearch(b, v)
    BY DEF Stop
<1>3. CASE b = <<>>
    BY <1>2, <1>3, QuietStep DEF EndSearch
<1>4. CASE b # <<>>
    <2> DEFINE r == Succeeded(Selected(b), FeeOf(Selected(b)), v - target)
    <2>1. Return(r)
        BY <1>2, <1>4 DEF EndSearch
    <2>2. MayAnswer(r)
        BY <1>1, <1>4, SearchAnswer
    <2> HIDE DEF r
    <2> QED BY <1>2, <2>1, <2>2, AnswerStep
<1> QED BY <1>3, <1>4

\* Every step of coin_select is one of the promise, or is not seen.
LEMMA PromiseStep == Searched /\ Drawn /\ [Next]_vars => [Caller!coin_select]_(Caller!vars)
<1> SUFFICES ASSUME Searched, Drawn, [Next]_vars PROVE [Caller!coin_select]_(Caller!vars)
    OBVIOUS
<1>1. Asked /\ (phase = "search" => Searching)
    BY DEF Searched
<1>2. CASE SelectSorted
    <2>1. PICK l \in Shuffles(optional, DOMAIN optional) : Return(select_sorted_utxos(required, l))
        BY <1>2 DEF SelectSorted
    <2> QED BY <1>1, <1>2, <2>1, SortedAnswers, AnswerStep DEF SelectSorted
<1>3. CASE StartInsufficient
    <2>1. MayAnswer(Failed)
        BY <1>1, <1>3, InsufficientFails DEF StartInsufficient, MayAnswer
    <2> QED BY <1>3, <2>1, AnswerStep DEF StartInsufficient
<1>4. CASE StartRequiredSuffice
    <2>1. MayAnswer(Succeeded(required, FeeOf(required), EffectiveOf(required) - target))
        BY <1>1, <1>4, RequiredAnswer DEF StartRequiredSuffice
    <2> QED BY <1>4, <2>1, AnswerStep DEF StartRequiredSuffice
<1>5. CASE StartSearch
    BY <1>5, QuietStep DEF StartSearch
<1>6. CASE TriesExhausted
    BY <1>1, <1>6, NewBestIsOne, StopStep DEF TriesExhausted
<1>7. CASE PerfectMatch
    BY <1>1, <1>7, NewBestIsOne, StopStep DEF PerfectMatch
<1>8. CASE Exhausted
    BY <1>1, <1>8, NewBestIsOne, StopStep DEF Exhausted
<1>9. CASE Backtrack
    BY <1>9, QuietStep DEF Backtrack
<1>10. CASE Forward
    BY <1>10, QuietStep DEF Forward
<1>11. CASE Fallback
    <2>1. PICK l \in Shuffles(optional, DOMAIN optional) : Return(select_sorted_utxos(required, l))
        BY <1>11 DEF Fallback
    <2> QED BY <1>1, <1>11, <2>1, SortedAnswers, AnswerStep DEF Fallback
<1>12. CASE UNCHANGED vars
    BY <1>12, QuietStep DEF vars
<1> QED BY <1>2, <1>3, <1>4, <1>5, <1>6, <1>7, <1>8, <1>9, <1>10, <1>11, <1>12 DEF Next

\* The coins of a search stay those it was given.
LEMMA DrawnAlways == Spec => []Drawn
<1>1. Init => Drawn
    BY DEF Init, Drawn
<1>2. Drawn /\ [Next]_vars => Drawn'
    <2> SUFFICES ASSUME Drawn, [Next]_vars, phase' = "search" PROVE groups' \in Shuffles(optional', Positive')
        BY DEF Drawn
    <2>1. UNCHANGED <<optional, rate>>
        BY DEF Next, SelectSorted, StartInsufficient, StartRequiredSuffice, StartSearch, TriesExhausted,
               PerfectMatch, Exhausted, Backtrack, Forward, Fallback, Stop, vars, inputs
    <2>2. Positive' = Positive
        BY <2>1 DEF Positive, Effective, Fee
    <2>3. CASE StartSearch
        BY <2>1, <2>2, <2>3 DEF StartSearch
    <2>4. CASE phase = "search" /\ UNCHANGED groups
        BY <2>1, <2>2, <2>4 DEF Drawn
    <2> QED BY <2>3, <2>4 DEF Next, SelectSorted, StartInsufficient, StartRequiredSuffice, TriesExhausted,
               PerfectMatch, Exhausted, Backtrack, Forward, Fallback, Stop, EndSearch, Return, vars, search
<1> QED BY <1>1, <1>2, PTL DEF Spec

\* Every algorithm keeps the promise create_tx relies on, for any coins, rates,
\* targets and number of tries: whatever the search went through and whether or
\* not it falls back, coin_select answers at most once, and what it answers is
\* sound.
THEOREM EveryAnswerSound == Spec => Caller!Sound
<1>1. Init => Caller!Init
    <2>1. Init => ~(phase = "done") /\ result = Caller!Failure
        BY CallerAmounts DEF Init
    <2> QED BY <2>1 DEF Caller!Init
<1> QED BY <1>1, PromiseStep, SearchedAlways, DrawnAlways, PTL DEF Spec, Caller!Sound

\* Termination is all that is left of the promise.
THEOREM PromiseKept == Spec /\ <>(phase = "done") => KeepsPromise
BY EveryAnswerSound, PTL DEF KeepsPromise, Caller!Spec
=============================================================================

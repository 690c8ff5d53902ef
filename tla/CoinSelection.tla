---------------------------- MODULE CoinSelection ----------------------------
(***************************************************************************)
(* Coin selection (src/src/wallet/coin_selection.rs): the branch and bound *)
(* search, one step per iteration of its loop, the algorithms that pick    *)
(* from a sorted or shuffled list, and the fallback from the first to the  *)
(* second.                                                                 *)
(*                                                                         *)
(* A coin is a value and a weight.  The fee for a weight is rounded up, as *)
(* FeeRate * Weight is, to units of FeeUnit (1000 in the library: rates    *)
(* are in satoshi per 1000 weight units).                                  *)
(***************************************************************************)
EXTENDS Integers, Sequences, FiniteSets, FiniteSetsExt, Functions

CONSTANTS
    Coins,         \* the coins that may be offered: [value, weight]
    MaxRequired,   \* at most so many required coins,
    MaxOptional,   \* and so many optional ones
    Rates,         \* fee rates
    Targets,       \* target amounts
    FeeUnit,       \* weight units a rate is given for
    ChangeWeight,  \* weight of BnB's change output (size_of_change)
    DrainWeight,   \* weight of the drain output
    Dust,          \* smallest amount of the drain script that is not dust
    MaxTries       \* BNB_TOTAL_TRIES

ASSUME CoinsAssumption ==
    /\ \A c \in Coins : c.value \in Nat /\ c.weight \in Nat
    /\ MaxRequired \in Nat /\ MaxOptional \in Nat
    /\ Rates \subseteq Nat /\ Targets \subseteq Nat
    /\ FeeUnit \in Nat \ {0}
    /\ ChangeWeight \in Nat /\ DrainWeight \in Nat /\ Dust \in Nat
    /\ MaxTries \in Nat \ {0}

VARIABLES
    algorithm,   \* "bnb", "largest" or "list" (oldest first, random draw)
    required, optional,  \* sequences of coins
    rate, target,
    groups,      \* BnB's optional_utxos: coins of positive effective value, sorted
    selection,   \* current_selection: a decision for a prefix of groups
    curr_value, curr_available,
    best,        \* best_selection
    best_value,  \* best_selection_value, -1 for None
    tries,       \* iterations left
    phase,       \* "start", "search", "fallback", "done"
    result       \* what coin_select returned

inputs == <<algorithm, required, optional, rate, target>>
search == <<groups, selection, curr_value, curr_available, best, best_value, tries>>
vars == <<inputs, search, phase, result>>

-----------------------------------------------------------------------------
Fee(weight) == (rate * weight + FeeUnit - 1) \div FeeUnit
Effective(c) == c.value - Fee(c.weight)
Sum(f) == FoldFunction(+, 0, f)
EffectiveOf(s) == Sum([i \in DOMAIN s |-> Effective(s[i])])
ValueOf(s) == Sum([i \in DOMAIN s |-> s[i].value])
FeeOf(s) == Sum([i \in DOMAIN s |-> Fee(s[i].weight)])
WeightOf(s) == Sum([i \in DOMAIN s |-> s[i].weight])

\* The coins of a sequence at some positions, in all orders.
Shuffles(s, S) ==
    {[i \in 1..Cardinality(S) |-> s[p[i]]] :
        p \in {f \in [1..Cardinality(S) -> S] : IsInjective(f)}}

Failed == [ok |-> FALSE, selected |-> <<>>, fee |-> 0, remaining |-> 0, change |-> -1]

\* A seeded bug: the change output does not pay for itself.
decide_change_free(remaining) == IF remaining < Dust THEN -1 ELSE remaining

\* decide_change: the amount of a change output, or -1 for none (NoChange).
decide_change(remaining) ==
    LET change_fee == Fee(DrainWeight)
        drain == IF remaining >= change_fee THEN remaining - change_fee ELSE 0
    IN  IF drain < Dust THEN -1 ELSE drain

Succeeded(selected, fee, remaining) ==
    [ok |-> TRUE, selected |-> selected, fee |-> fee, remaining |-> remaining,
     change |-> decide_change(remaining)]

\* select_sorted_utxos: all of must, then coins of the list for as long as what
\* is selected does not cover target and fee; the fee is for the total weight.
select_sorted_utxos(must, list) ==
    LET taken(n) == must \o SubSeq(list, 1, n)
        needed(n) == target + Fee(WeightOf(taken(n)))
        covered == {n \in 0..Len(list) : ValueOf(taken(n)) >= needed(n)}
        n == IF covered = {} THEN Len(list) ELSE Min(covered)
    IN  IF covered = {} THEN Failed
        ELSE Succeeded(taken(n), Fee(WeightOf(taken(n))), ValueOf(taken(n)) - needed(n))

-----------------------------------------------------------------------------
\* Coins are listed by value and weight; every algorithm reorders them anyway.
Listed(s) == \A i \in 1..Len(s) - 1 : \/ s[i].value < s[i + 1].value
                                      \/ s[i].value = s[i + 1].value /\ s[i].weight <= s[i + 1].weight
Lists(n) == {s \in UNION {[1..m -> Coins] : m \in 0..n} : Listed(s)}

Init ==
    /\ algorithm \in {"bnb", "largest", "list"}
    /\ required \in Lists(MaxRequired)
    /\ optional \in Lists(MaxOptional)
    /\ rate \in Rates
    /\ target \in Targets
    /\ groups = <<>> /\ selection = <<>> /\ best = <<>>
    /\ curr_value = 0 /\ curr_available = 0 /\ best_value = -1 /\ tries = MaxTries
    /\ phase = "start"
    /\ result = Failed

Return(r) == phase' = "done" /\ result' = r

\* LargestFirst (ties in any order), and the algorithms whose order depends on
\* confirmation times or on chance.
SelectSorted ==
    /\ phase = "start"
    /\ algorithm # "bnb"
    /\ \E list \in Shuffles(optional, DOMAIN optional) :
         /\ algorithm = "largest" => \A i \in 1..Len(list) - 1 : list[i].value >= list[i + 1].value
         /\ Return(select_sorted_utxos(required, list))
    /\ UNCHANGED <<inputs, search>>

\* The positions of the optional coins with a positive effective value, and
\* what these coins add up to.
Positive == {i \in DOMAIN optional : Effective(optional[i]) > 0}
Available == Sum([i \in Positive |-> Effective(optional[i])])

\* coin_select up to the call of bnb: insufficient funds, or the required
\* coins alone exceed the target, or the search begins.
Enough == EffectiveOf(required) + Available >= target

StartInsufficient ==
    /\ phase = "start" /\ algorithm = "bnb"
    /\ ~Enough
    /\ Return(Failed)
    /\ UNCHANGED <<inputs, search>>

StartRequiredSuffice ==
    /\ phase = "start" /\ algorithm = "bnb"
    /\ Enough
    /\ EffectiveOf(required) > target
    /\ Return(Succeeded(required, FeeOf(required), EffectiveOf(required) - target))
    /\ UNCHANGED <<inputs, search>>

StartSearch ==
    /\ phase = "start" /\ algorithm = "bnb"
    /\ Enough
    /\ EffectiveOf(required) <= target
    /\ \E s \in Shuffles(optional, Positive) :
         /\ \A i \in 1..Len(s) - 1 : Effective(s[i]) >= Effective(s[i + 1])
         /\ groups' = s
    /\ curr_value' = EffectiveOf(required)
    /\ curr_available' = Available
    /\ phase' = "search"
    /\ UNCHANGED <<inputs, selection, best, best_value, tries, result>>

-----------------------------------------------------------------------------
(***************************************************************************)
(* One iteration of the loop of bnb.                                       *)
(***************************************************************************)
CostOfChange == Fee(ChangeWeight)
\* A seeded bug: branches that cannot reach the target are followed.
OnlyOvershoots == curr_value > target + CostOfChange
OutOfReach == \/ curr_value + curr_available < target
              \/ curr_value > target + CostOfChange
InRange == ~OutOfReach /\ curr_value >= target

\* A seeded bug: the most expensive selection is kept.
Worse == InRange /\ (best_value = -1 \/ curr_value > best_value)

\* The best selection once this iteration has looked at the current one.
Better == InRange /\ (best_value = -1 \/ curr_value < best_value)
NewBest == IF Better THEN selection ELSE best
NewBestValue == IF Better THEN curr_value ELSE best_value

\* After the loop: a best selection that is empty counts as none.
Selected(b) ==
    LET chosen == {i \in DOMAIN b : b[i]}
        nth(n) == CHOOSE i \in chosen : Cardinality({j \in chosen : j <= i}) = n
    IN  required \o [n \in 1..Cardinality(chosen) |-> groups[nth(n)]]
EndSearch(b, v) ==
    IF b = <<>> THEN phase' = "fallback" /\ UNCHANGED result
    ELSE Return(Succeeded(Selected(b), FeeOf(Selected(b)), v - target))

Stop(b, v) ==
    /\ best' = b
    /\ best_value' = v
    /\ EndSearch(b, v)
    /\ UNCHANGED <<inputs, groups, selection, curr_value, curr_available, tries>>

TriesExhausted ==
    /\ phase = "search"
    /\ tries = 0
    /\ Stop(best, best_value)

\* A selection that meets the target exactly ends the search.
PerfectMatch ==
    /\ phase = "search"
    /\ tries > 0
    /\ InRange
    /\ curr_value = target
    /\ Stop(NewBest, NewBestValue)

\* Backtracking drops the trailing omissions and turns the last inclusion into
\* an omission; when there is none, every branch has been searched.
LastIncluded == Max({0} \cup {i \in DOMAIN selection : selection[i]})

Exhausted ==
    /\ phase = "search"
    /\ tries > 0
    /\ OutOfReach \/ (InRange /\ curr_value # target)
    /\ LastIncluded = 0
    /\ Stop(NewBest, NewBestValue)

\* A seeded bug: the coins jumped over do not become available again.
BacktrackForgets ==
    /\ phase = "search"
    /\ tries > 0
    /\ OutOfReach \/ (InRange /\ curr_value # target)
    /\ LastIncluded > 0
    /\ best' = NewBest
    /\ best_value' = NewBestValue
    /\ selection' = [SubSeq(selection, 1, LastIncluded) EXCEPT ![LastIncluded] = FALSE]
    /\ curr_value' = curr_value - Effective(groups[LastIncluded])
    /\ tries' = tries - 1
    /\ UNCHANGED <<inputs, groups, curr_available, phase, result>>

Backtrack ==
    /\ phase = "search"
    /\ tries > 0
    /\ OutOfReach \/ (InRange /\ curr_value # target)
    /\ LastIncluded > 0
    /\ best' = NewBest
    /\ best_value' = NewBestValue
    /\ selection' = [SubSeq(selection, 1, LastIncluded) EXCEPT ![LastIncluded] = FALSE]
    /\ curr_available' = curr_available
         + Sum([i \in LastIncluded + 1..Len(selection) |-> Effective(groups[i])])
    /\ curr_value' = curr_value - Effective(groups[LastIncluded])
    /\ tries' = tries - 1
    /\ UNCHANGED <<inputs, groups, phase, result>>

\* Moving forward includes the next coin; the code indexes groups there.
Forward ==
    /\ phase = "search"
    /\ tries > 0
    /\ ~OutOfReach
    /\ ~InRange
    /\ LET c == groups[Len(selection) + 1]
       IN  /\ curr_available' = curr_available - Effective(c)
           /\ curr_value' = curr_value + Effective(c)
    /\ selection' = Append(selection, TRUE)
    /\ tries' = tries - 1
    /\ UNCHANGED <<inputs, groups, best, best_value, phase, result>>

\* bnb found nothing: the fallback starts over with all optional coins, those
\* with a negative effective value included, in random order.
Fallback ==
    /\ phase = "fallback"
    /\ \E list \in Shuffles(optional, DOMAIN optional) : Return(select_sorted_utxos(required, list))
    /\ UNCHANGED <<inputs, search>>

Next ==
    \/ SelectSorted
    \/ StartInsufficient \/ StartRequiredSuffice \/ StartSearch
    \/ TriesExhausted \/ PerfectMatch \/ Exhausted \/ Backtrack \/ Forward
    \/ Fallback

\* coin_select is a loop nothing interrupts: it goes on while it can.
Spec == Init /\ [][Next]_vars /\ WF_vars(Next)

-----------------------------------------------------------------------------
(***************************************************************************)
(* Properties.                                                             *)
(***************************************************************************)

\* The running totals of the search are the sums they stand for: after any
\* number of inclusions, omissions and jumps back, curr_value is the effective
\* value of the required and the included coins, curr_available that of the
\* coins not decided yet.
SearchAccounts ==
    phase = "search" =>
        /\ curr_value = EffectiveOf(required)
             + Sum([i \in {j \in DOMAIN selection : selection[j]} |-> Effective(groups[i])])
        /\ curr_available = Sum([i \in Len(selection) + 1..Len(groups) |-> Effective(groups[i])])

\* The search never indexes past its coins: when it moves forward there is a
\* coin left to decide.
ForwardInBounds ==
    (phase = "search" /\ ~OutOfReach /\ ~InRange) => Len(selection) < Len(groups)

\* The optional coins of a set of positions, and what they add to the required.
WorthOf(S) == EffectiveOf(required) + Sum([i \in S |-> Effective(groups[i])])
Window(S) == S # {} /\ WorthOf(S) >= target /\ WorthOf(S) <= target + CostOfChange

\* Branch and bound is exact: when it ends before its tries do, it has found
\* the cheapest selection that needs no change, and falls back only if no
\* selection of optional coins does.
SearchIsOptimal ==
    (phase \in {"fallback", "done"} /\ algorithm = "bnb" /\ groups # <<>> /\ tries > 0) =>
        LET worths == {WorthOf(S) : S \in {T \in SUBSET DOMAIN groups : Window(T)}}
        IN  IF best = <<>> THEN worths = {} \/ EffectiveOf(required) = target
            ELSE worths # {} /\ best_value = Min(worths)

\* Every algorithm keeps the promise create_tx relies on: seen from the caller,
\* however many iterations the search takes and whether or not it falls back,
\* it answers exactly once, and with the required coins, distinct optional
\* coins, a fee for these inputs and change that pays for itself; it gives up
\* only if the coins, with or without those that cost more than they are worth,
\* do not suffice.  The promise includes that it answers.
Caller == INSTANCE SelectionPromise WITH answered <- (phase = "done")
KeepsPromise == Caller!Spec
=============================================================================

------------------------------ MODULE Condition ------------------------------
(***************************************************************************)
(* Time locks: what a spending policy demands of a transaction             *)
(* (src/src/descriptor/policy.rs, Condition) and what a transaction's      *)
(* nLockTime and nSequence fields grant (src/src/wallet/utils.rs).         *)
(*                                                                         *)
(* A lock time is a block height or a time.  A sequence is one of the      *)
(* values that disable relative locks ("max", "final-1", "rbf", that is    *)
(* 0xFFFFFFFF, 0xFFFFFFFE and 0xFFFFFFFD) or a lock in blocks or in time.  *)
(***************************************************************************)
EXTENDS Integers

Blocks(n) == [unit |-> "blocks", n |-> n]
Time(n) == [unit |-> "time", n |-> n]
Disabled(kind) == [unit |-> kind, n |-> 0]
None == [unit |-> "none", n |-> 0]

\* The values of a lock, and of a sequence field.
TimeLocks == [unit : {"blocks", "time"}, n : Nat]
SequenceValues == TimeLocks \cup {Disabled(k) : k \in {"max", "final-1", "rbf"}}

IsLock(x) == x.unit \in {"blocks", "time"}   \* is_relative_lock_time of a sequence
SameUnit(a, b) == a.unit = b.unit
SignalsRbf(s) == s.unit \notin {"max", "final-1"}  \* at most 0xFFFFFFFD

\* Condition: an optional sequence and an optional lock time.
Condition(csv, timelock) == [ok |-> TRUE, csv |-> csv, timelock |-> timelock]
Conditions == [ok : BOOLEAN, csv : TimeLocks \cup {None}, timelock : TimeLocks \cup {None}]
NoCondition == Condition(None, None)
Incompatible == [ok |-> FALSE, csv |-> None, timelock |-> None]
is_null(c) == c = NoCondition

\* merge_nlocktime and merge_nsequence: the later of two locks of one unit.
Later(a, b) == IF b.n > a.n THEN b ELSE a
Mergeable(a, b) == a = None \/ b = None \/ SameUnit(a, b)
MergeLock(a, b) == IF a = None THEN b ELSE IF b = None THEN a ELSE Later(a, b)

\* merge: MixedTimelockUnits when either pair of locks has two units.
merge(a, b) ==
    IF /\ a.ok /\ b.ok
       /\ Mergeable(a.csv, b.csv) /\ Mergeable(a.timelock, b.timelock)
    THEN Condition(MergeLock(a.csv, b.csv), MergeLock(a.timelock, b.timelock))
    ELSE Incompatible

\* check_nsequence_rbf: the sequence grants the relative lock csv demands.
check_nsequence_rbf(sequence, csv) ==
    IsLock(sequence) /\ SameUnit(sequence, csv) /\ sequence.n >= csv.n
=============================================================================

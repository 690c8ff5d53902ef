------------------------------- MODULE Policy -------------------------------
(***************************************************************************)
(* Spending policies (src/src/descriptor/policy.rs): what a descriptor     *)
(* demands of a spend, how much of it the wallet's signers can contribute, *)
(* and how much a PSBT satisfies already.                                  *)
(*                                                                         *)
(* A script is a sequence of nodes, each after the nodes below it; the     *)
(* last one is the root.  A policy is a table with an entry for each node. *)
(* The identifiers of policy items are the places of their nodes, instead  *)
(* of a checksum of what they hold; two equal subtrees would share one, so *)
(* a script has no equal choices.  andor(x, y, z) is or(and(x, y), z).     *)
(***************************************************************************)
EXTENDS Integers, Sequences, FiniteSets, FiniteSetsExt, SequencesExt, Functions, TLC, Condition

\* The nodes of a script; wrappers around a node are left out.
Node(t, key, keys, k, subs, lock) ==
    [t |-> t, key |-> key, keys |-> keys, k |-> k, subs |-> subs, lock |-> lock]
Pk(key) == Node("pk", key, <<>>, 1, <<>>, None)
Multi(k, keys) == Node("multi", 0, keys, k, <<>>, None)
After(lock) == Node("after", 0, <<>>, 1, <<>>, lock)
Older(lock) == Node("older", 0, <<>>, 1, <<>>, lock)
Hash == Node("hash", 0, <<>>, 1, <<>>, None)
Literal(t) == Node(t, 0, <<>>, 0, <<>>, None)  \* "true", "false"
And(a, b) == Node("and", 0, <<>>, 2, <<a, b>>, None)
Or(a, b) == Node("or", 0, <<>>, 1, <<a, b>>, None)
Thresh(k, subs) == Node("thresh", 0, <<>>, k, subs, None)
Tree(subs) == Node("tree", 0, <<>>, 1, subs, None)  \* a taproot key and its leaves

KeysOf(script) ==
    UNION {ToSet(script[n].keys) \cup (IF script[n].t = "pk" THEN {script[n].key} ELSE {}) :
             n \in DOMAIN script}

-----------------------------------------------------------------------------
(***************************************************************************)
(* Satisfaction.  conds gives the sets of conditions: of the only item of  *)
(* a complete one, of the items of a partial one, of the combinations of   *)
(* items of a partial one that is complete.                                *)
(***************************************************************************)
Satisfaction(t, m, items, conds) == [t |-> t, m |-> m, items |-> items, conds |-> conds]
NotSatisfied == Satisfaction("none", 0, {}, <<>>)
Complete(c) == Satisfaction("complete", 0, {}, (0 :> {c}))
Partial(m) == Satisfaction("partial", m, {}, <<>>)
Reached(s) == s.t \in {"complete", "partial_complete"}
ConditionsOf(s) == UNION Range(s.conds)

\* Satisfaction::add: an item that is not complete yet is not relevant.
add(s, inner, i) ==
    IF ~Reached(inner) THEN s
    ELSE [s EXCEPT !.items = @ \cup {i}, !.conds = @ @@ (i :> ConditionsOf(inner))]

\* mix, and the fold of the choices: what a combination of items demands, for
\* every choice of a condition of each, when these are compatible.
mix(conds, chosen) ==
    {f \in [chosen -> UNION {conds[i] : i \in chosen}] : \A i \in chosen : f[i] \in conds[i]}
Folded(conds, chosen) ==
    {c \in {FoldFunction(merge, NoCondition, f) : f \in mix(conds, chosen)} : c.ok}

\* A seeded bug: alternatives of an item are taken together.
finalize_all(s) ==
    IF s.t # "partial" \/ Cardinality(s.items) < s.m THEN s
    ELSE LET all == {FoldSet(merge, NoCondition, UNION {s.conds[i] : i \in c}) : c \in kSubset(s.m, s.items)}
         IN  Satisfaction("partial_complete", s.m, s.items, (s.items :> {c \in all : c.ok}))

\* Satisfaction::finalize, with combinations.  Incompatible combinations are left
\* out; if all are, the item still counts as complete.
finalize(s) ==
    IF s.t # "partial" \/ Cardinality(s.items) < s.m THEN s
    ELSE LET useful == {c \in kSubset(s.m, s.items) : Folded(s.conds, c) # {}}
         IN  Satisfaction("partial_complete", s.m, s.items, [c \in useful |-> Folded(s.conds, c)])

-----------------------------------------------------------------------------
(***************************************************************************)
(* Extraction.  Contributes and Signed tell of a key whether the wallet    *)
(* has a signer for it and whether the PSBT has its signatures, Expired of *)
(* a lock whether it counts as satisfied.                                  *)
(***************************************************************************)
\* Policy: a table entry.  An entry of another node stands for that node's policy.
Policy(id, t, k, subs, condition, contribution, satisfaction) ==
    [id |-> id, t |-> t, k |-> k, subs |-> subs, condition |-> condition,
     contribution |-> contribution, satisfaction |-> satisfaction]
NoPolicy == Policy(0, "none", 0, <<>>, NoCondition, NotSatisfied, NotSatisfied)
FromBool(b) == IF b THEN Complete(NoCondition) ELSE NotSatisfied

\* make_generic_signature.
make_signature(id, key, signers, signed) ==
    Policy(id, "sig", 1, <<>>, NoCondition, FromBool(key \in signers), FromBool(key \in signed))

Accumulated(k, inner) == finalize(FoldLeftDomain(LAMBDA s, i : add(s, inner[i], i), Partial(k), inner))

make_multi(id, node, signers, signed) ==
    Policy(id, "multi", node.k, node.keys, NoCondition,
           Accumulated(node.k, [i \in DOMAIN node.keys |-> FromBool(node.keys[i] \in signers)]),
           Accumulated(node.k, [i \in DOMAIN node.keys |-> FromBool(node.keys[i] \in signed)]))

make_lock(id, t, condition, met) ==
    Policy(id, t, 1, <<>>, condition, Complete(condition),
           IF met THEN Complete(condition) ELSE NotSatisfied)

make_thresh(id, items, k) ==
    IF k <= 0 THEN NoPolicy
    ELSE Policy(id, "thresh", k, [i \in DOMAIN items |-> items[i].id], NoCondition,
                Accumulated(k, [i \in DOMAIN items |-> items[i].contribution]),
                Accumulated(k, [i \in DOMAIN items |-> items[i].satisfaction]))

\* make_and and make_or: without one of the two, the other.
make_pair(id, items, k) == IF Len(items) = 1 THEN items[1] ELSE make_thresh(id, items, IF items = <<>> THEN 0 ELSE k)

\* extract_policy of a script: with the keys there are signers for, the keys that have
\* signed and the locks that have expired.  Items without a policy count as chosen in a thresh.
extract_policy(script, signers, signed, expired) ==
    LET Extract(done, node) ==
            LET id == Len(done) + 1
                items == SelectSeq([i \in DOMAIN node.subs |-> done[node.subs[i]]], LAMBDA p : p.id # 0)
            IN  CASE node.t = "pk" -> make_signature(id, node.key, signers, signed)
                  [] node.t = "multi" -> make_multi(id, node, signers, signed)
                  [] node.t = "after" -> make_lock(id, "after", Condition(None, node.lock), node \in expired)
                  [] node.t = "older" -> make_lock(id, "older", Condition(node.lock, None), node \in expired)
                  [] node.t = "hash" -> Policy(id, "hash", 1, <<>>, NoCondition, NotSatisfied, NotSatisfied)
                  [] node.t \in {"true", "false"} -> NoPolicy
                  [] node.t = "tree" -> make_thresh(id, items, 1)
                  [] node.t \in {"and", "or"} -> make_pair(id, items, node.k)
                  [] node.t = "thresh" ->
                       make_thresh(id, items, node.k - (Len(node.subs) - Len(items)))
    IN  FoldLeft(LAMBDA done, node : Append(done, Extract(done, node)), <<>>, script)

-----------------------------------------------------------------------------
(***************************************************************************)
(* What a policy demands for a path, a function from the items where a     *)
(* choice was made to what was chosen.                                     *)
(***************************************************************************)
DefaultSelection(p) ==
    IF p.t = "multi" \/ (p.t = "thresh" /\ Len(p.subs) = p.k) THEN DOMAIN p.subs ELSE {}
Selection(p, path) == IF p.id \in DOMAIN path THEN path[p.id] ELSE DefaultSelection(p)

\* Without requirements the selection does not matter; else it must be within
\* range and large enough.
ThreshCondition(p, path, below) ==
    LET chosen == Selection(p, path)
    IN  IF \A i \in DOMAIN below : is_null(below[i]) THEN NoCondition
        ELSE IF ~(chosen \subseteq DOMAIN below) \/ Cardinality(chosen) < p.k THEN Incompatible
        ELSE FoldFunction(merge, NoCondition, [i \in chosen |-> below[i]])

MultiCondition(p, path) ==
    LET chosen == Selection(p, path)
    IN  IF Cardinality(chosen) >= p.k /\ chosen \subseteq DOMAIN p.subs THEN NoCondition ELSE Incompatible

\* get_condition of the policy of the last node.
get_condition(policy, path) ==
    LET Demand(below, p) ==
            CASE p.t = "thresh" -> ThreshCondition(p, path, [i \in DOMAIN p.subs |-> below[p.subs[i]]])
              [] p.t = "multi" -> MultiCondition(p, path)
              [] OTHER -> p.condition
    IN  Last(FoldLeft(LAMBDA below, p : Append(below, Demand(below, p)), <<>>, policy))

requires_path(policy) == ~get_condition(policy, <<>>).ok

-----------------------------------------------------------------------------
(***************************************************************************)
(* The reference: all the ways to choose.                                  *)
(***************************************************************************)
\* Paths that choose, at every threshold the wallet can reach, as many items as it
\* takes of those that the wallet completes.
WaysToChoose(policy) ==
    LET chooses(p, n) == p.id = n /\ p.t \in {"thresh", "multi"} /\ Reached(p.contribution)
        Extend(paths, n) ==
            IF ~chooses(policy[n], n) THEN paths
            ELSE {f @@ (n :> c) : f \in paths, c \in kSubset(policy[n].k, policy[n].contribution.items)}
    IN  FoldLeft(Extend, {<<>>}, [n \in DOMAIN policy |-> n])

\* The conditions a policy advertises for what the wallet can contribute are
\* exactly those that building a transaction along some path leads to: nothing is
\* promised that no path gives, and no way to spend is hidden.
PathsMatch(policy) ==
    LET root == Last(policy)
        demanded == {c \in {get_condition(policy, path) : path \in WaysToChoose(policy)} : c.ok}
    IN  Reached(root.contribution) => ConditionsOf(root.contribution) = demanded
=============================================================================

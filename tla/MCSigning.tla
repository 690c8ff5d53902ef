----------------------------- MODULE MCSigning ------------------------------
(***************************************************************************)
(* Instances of Signing: wallets with their scripts and parties, and the   *)
(* PSBTs that go around.                                                   *)
(***************************************************************************)
EXTENDS Signing

VARIABLES instance, left  \* the number of the case; calls that may still be made (a bound)
mc_vars == <<vars, instance, left>>

\* Extended keys 1 to 3; 5 comes from the same root as 1; 4 and 6 are single keys.
MCKeys == [k \in 1..6 |-> [single |-> k \in {4, 6}, root |-> IF k = 5 THEN 1 ELSE k]]

OfBlocks(n) == Older(Blocks(n))
\* Two of three; one key, or another one after two blocks; two of a key, another
\* and a height; alternatives with locks that do and do not go together.
Quorum == <<Multi(2, <<1, 2, 3>>)>>
Recovery == <<Pk(1), Pk(2), OfBlocks(2), And(2, 3), Or(1, 4)>>
Vault == <<Pk(1), Pk(2), After(Blocks(3)), Thresh(2, <<1, 2, 3>>)>>
Tangled == <<Pk(1), OfBlocks(2), And(1, 2), Pk(2), Older(Time(2)), And(4, 5), Or(3, 6),
             Pk(3), OfBlocks(3), Or(8, 9), And(7, 10), Literal("true"), And(11, 12)>>
Unhashed == <<Pk(1), Hash, Pk(2), Or(2, 3), Literal("false"), Or(4, 5), Thresh(2, <<1, 6>>)>>
Leaves == <<<<Pk(2)>>, <<Pk(3), OfBlocks(2), And(1, 2)>>>>

\* No choice occurs twice in a script: identifiers of policy items are checksums.
Contents(script) ==
    LET content[n \in DOMAIN script] ==
            [script[n] EXCEPT !.subs = [i \in DOMAIN @ |-> content[@[i]]]]
    IN  [n \in {m \in DOMAIN script : script[m].t \in {"multi", "and", "or", "thresh"}} |-> content[n]]
ASSUME ChoicesDiffer ==
    \A script \in {Quorum, Recovery, Vault, Tangled, Unhashed} \cup {Leaves[i] : i \in DOMAIN Leaves} :
        IsInjective(Contents(script))

Wsh(script) == [External |-> Descriptor("wsh", 0, <<script>>)]
Both(a, b) == [External |-> a, Internal |-> b]

\* Inputs that confirmed at height 1 (parent 1), or not yet (parent 2).
At(of, kind, parent, sequence) == Input(of, kind, parent, sequence)
Psbt(version, lock_time, inputs) ==
    [version |-> version, lock_time |-> Blocks(lock_time), inputs |-> inputs, derivations |-> TRUE]
Rbf == Disabled("rbf")
Fields(kind, parent) ==
    {Psbt(v, l, <<At("External", kind, parent, s)>>) :
        v \in {1, 2}, l \in {0, 3}, s \in {Disabled("max"), Rbf, Blocks(2), Blocks(3), Time(2)}}

\* Which keys and devices each party has, and the options the calls are made with.
Case(d, psbts, keys, devices, options, height) ==
    [descriptors |-> d, psbts |-> psbts, keys |-> keys, devices |-> devices,
     options |-> options, height |-> height]
Alone(keys) == [p \in Parties |-> IF p = 1 THEN keys ELSE {}]
Shared(a, b) == [p \in Parties |-> IF p = 1 THEN a ELSE b]
Defaults == {SignOptions}
Postponed == {SignOptions, [SignOptions EXCEPT !.try_finalize = FALSE]}

TapOptions ==
    {SignOptions,
     [SignOptions EXCEPT !.sign_with_tap_internal_key = FALSE],
     [SignOptions EXCEPT !.sign_with_tap_internal_key = FALSE, !.tap_leaves = {1}]}
AnyOptions ==
    {SignOptions,
     [SignOptions EXCEPT !.trust_witness_utxo = TRUE],
     [SignOptions EXCEPT !.trust_witness_utxo = TRUE, !.allow_all_sighashes = TRUE],
     [SignOptions EXCEPT !.try_finalize = FALSE]}

TwoInputs(kind) ==
    Psbt(2, 0, <<At("External", kind, 1, Rbf), At("Internal", kind, 1, Rbf)>>)
Singles(kind) == Both(Descriptor(kind, 0, <<<<Pk(4)>>>>), Descriptor(kind, 0, <<<<Pk(6)>>>>))
Mixed(kind) ==
    LET own == [At("External", kind, 1, Rbf) EXCEPT !.witness = kind # "pkh"]
    IN  {Psbt(2, 0, <<[own EXCEPT !.full = f, !.witness = @ \/ ~f, !.sighash = h],
                      [At("other", k, 2, Rbf) EXCEPT !.full = g, !.meta = m], own>>) :
            f \in BOOLEAN, h \in {"unset", "all", "default", "single"},
            k \in {"wpkh", "wsh", "tap"}, g \in BOOLEAN, m \in {FALSE}}
Tapped ==
    LET in(s) == At("External", "tap", 1, s)
    IN  {Psbt(2, 0, <<[in(s) EXCEPT !.full = f, !.sighash = h], in(Blocks(2))>>) :
            s \in {Rbf, Blocks(2)}, f \in BOOLEAN, h \in {"unset", "default", "anyone"}}

Cases == <<
    Case(Both(Descriptor("wsh", 0, <<Quorum>>), Descriptor("wsh", 0, <<Quorum>>)),
         {TwoInputs("wsh"), [TwoInputs("wsh") EXCEPT !.inputs[2].indexed = FALSE, !.inputs[2].meta = TRUE]},
         Shared({1}, {2}), Shared({3}, {}), Postponed, 3),
    Case(Wsh(Recovery), Fields("wsh", 1), Shared({2}, {1}), Alone({}), Defaults, 2),
    Case(Wsh(Recovery), Fields("wsh", 2), Shared({2}, {1}), Alone({}), Defaults, 2),
    Case(Wsh(Vault), Fields("wsh", 1), Shared({1}, {2}), Alone({}), Postponed, 2),
    Case(Wsh(Tangled), Fields("wsh", 1), Shared({1, 2}, {3}), Alone({}), Defaults, 3),
    Case(Wsh(Unhashed), Fields("wsh", 1), Shared({1}, {2}), Alone({}), Defaults, 3),
    Case([External |-> Descriptor("tap", 1, Leaves)], Tapped, Shared({1, 3}, {2}), Alone({}), TapOptions, 2),
    Case(Singles("wpkh"), Mixed("wpkh"), Alone({4, 6}), Alone({}), AnyOptions, 3),
    Case(Singles("pkh"), Mixed("pkh"), Alone({4, 6}), Alone({}), AnyOptions, 3)>>

NoSigners == [k \in {} |-> Device(1)]
Init ==
    \E n \in DOMAIN Cases : \E p \in Cases[n].psbts :
        /\ instance = n
        /\ descriptors = Cases[n].descriptors
        /\ signers = [q \in Parties |-> [k \in Keychains |-> NoSigners]]
        /\ psbt = p
        /\ parents = <<1, Unconfirmed>>
        /\ tip = Cases[n].height
        /\ outcome = [result |-> "none", by |-> 0]
        /\ left = 2

Bounded == left > 0 /\ left' = left - 1 /\ UNCHANGED instance
Free == UNCHANGED <<instance, left>>

Keymaps(p) == \E k \in Keychains : set_keymap(p, k, Cases[instance].keys[p] \cap KeysIn(descriptors[k]))
Devices(p) == \E k \in Keychains, key \in Cases[instance].devices[p], o \in {1, 200} : add_signer(p, k, o, Device(key))
Signs(p) == \E o \in Cases[instance].options, r \in SUBSET Cases[instance].devices[p] : sign(p, o, r)

Next ==
    \/ \E p \in Parties : Keymaps(p) /\ Free
    \/ \E p \in Parties : Devices(p) /\ Bounded
    \/ \E p \in Parties : Signs(p) /\ Free
    \/ \E o \in {SignOptions, [SignOptions EXCEPT !.assume_height = Blocks(MaxTip + 1)]} :
         finalize_psbt(o) /\ Bounded
    \/ try_finalize_psbt /\ Bounded
    \/ \E c \in {{}, {2}} : (c = {2} => parents[2] = Unconfirmed) /\ Block(c) /\ Bounded
    \/ Replaced(2) /\ Bounded

\* Every party is asked again and again, and does not refuse for ever.
Fairness == \A p \in Parties : []<>(outcome.by = p)
Spec == Init /\ [][Next]_mc_vars /\ Fairness
=============================================================================

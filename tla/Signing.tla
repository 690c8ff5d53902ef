------------------------------- MODULE Signing -------------------------------
(***************************************************************************)
(* Signing and finalizing a PSBT (src/src/wallet/signer.rs, Wallet::sign,  *)
(* finalize_psbt and try_finalize_psbt in src/src/wallet/mod.rs).          *)
(*                                                                         *)
(* A PSBT goes around among the parties of a wallet: all have the same     *)
(* descriptors, each has signers of its own.  Keys are numbers; an         *)
(* extended key derives the public key of each input, so it stands for all *)
(* of them.  A signature is <<key, leaf>>, leaf 0 for the key path of a    *)
(* taproot output and for ECDSA signatures.                                *)
(***************************************************************************)
EXTENDS Policy

CONSTANTS
    Keys,      \* [key -> [single, root]]: a single key, or an extended key and its fingerprint
    Parties,
    MaxTip     \* bound on the height of the chain

VARIABLES
    descriptors,  \* [keychain -> [kind, internal, leaves]]
    signers,      \* [party -> [keychain -> SignersContainer]]
    psbt,         \* [version, lock_time, inputs, derivations]
    parents,      \* [parent transaction -> height]
    tip,          \* height of the chain
    outcome       \* how the last call to sign or to finalize ended, and if it was a
                  \* party that signed with the default options and did not refuse

vars == <<descriptors, signers, psbt, parents, tip, outcome>>

Keychains == {"External", "Internal"}
\* Heights of transactions that are in no block (u32::MAX), not in the canonical view.
Unconfirmed == -1
Gone == -2

(***************************************************************************)
(* A descriptor: pkh, sh, wpkh, wsh and, with an internal key, tap.  All   *)
(* but tap have one script.  Its policy is that of the scripts put         *)
(* together.                                                               *)
(***************************************************************************)
Descriptor(kind, internal, leaves) == [kind |-> kind, internal |-> internal, leaves |-> leaves]
KeysIn(d) == (UNION {KeysOf(d.leaves[l]) : l \in DOMAIN d.leaves}) \cup ({d.internal} \ {0})
LocksIn(d) == {node \in UNION {ToSet(d.leaves[l]) : l \in DOMAIN d.leaves} : node.t \in {"after", "older"}}

\* extract_policy of a descriptor: a taproot key beside the leaves, if there are any.
Shifted(script, by) == [n \in DOMAIN script |-> [script[n] EXCEPT !.subs = [i \in DOMAIN @ |-> @[i] + by]]]
AsScript(d) ==
    IF d.kind # "tap" THEN d.leaves[1]
    ELSE IF d.leaves = <<>> THEN <<Pk(d.internal)>>
    ELSE LET all == FoldLeft(LAMBDA s, leaf : [nodes |-> s.nodes \o Shifted(leaf, Len(s.nodes)),
                                              roots |-> Append(s.roots, Len(s.nodes) + Len(leaf))],
                             [nodes |-> <<Pk(d.internal)>>, roots |-> <<1>>], d.leaves)
         IN  Append(all.nodes, Tree(all.roots))

(***************************************************************************)
(* An input: whose output it spends (a keychain's or another party's),     *)
(* whether the wallet has derived that script (indexed), the metadata and  *)
(* the previous output it comes with, its sequence and sighash type.       *)
(***************************************************************************)
Input(of, kind, parent, sequence) ==
    [of |-> of, kind |-> kind, parent |-> parent, sequence |-> sequence, indexed |-> TRUE,
     meta |-> FALSE, full |-> TRUE, witness |-> TRUE, sighash |-> "unset", sigs |-> {},
     final |-> FALSE]
HasUtxo(in) == in.full \/ in.witness
Tap(in) == in.kind = "tap"
Mine(in) == in.of \in Keychains
DescriptorOf(in) == descriptors[in.of]
KeysFor(in) == IF Mine(in) /\ in.meta THEN KeysIn(DescriptorOf(in)) ELSE {}
AllFinal(p) == \A i \in DOMAIN p.inputs : p.inputs[i].final

-----------------------------------------------------------------------------
(***************************************************************************)
(* Signers: software signers of single and of extended keys, and devices,  *)
(* which implement TransactionSigner outside of this library.              *)
(***************************************************************************)
Signer(type, key, ctx, internal) == [type |-> type, key |-> key, ctx |-> ctx, internal |-> internal]
Device(key) == Signer("device", key, "any", FALSE)

signer_id(key) == IF Keys[key].single THEN <<0, key>> ELSE <<1, Keys[key].root>>

\* SignersContainer, a map from ordering and id.
add_external(container, ordering, signer) == (<<ordering, signer_id(signer.key)>> :> signer) @@ container
ids(container) == {k[2] : k \in DOMAIN container}

\* The order of SignersContainerKey: the ordering, then the id.
CalledFirst(a, b) ==
    \/ a[1] < b[1]
    \/ a[1] = b[1] /\ a[2][1] < b[2][1]
    \/ a[1] = b[1] /\ a[2][1] = b[2][1] /\ a[2][2] < b[2][2]
SignersOf(container) == LET order == SetToSortSeq(DOMAIN container, CalledFirst) IN [i \in DOMAIN order |-> container[order[i]]]

\* SignersContainer::build, over the key map in the order of its keys.
DefaultOrdering == 100

\* A seeded bug: no signer knows that its key is the internal one.
build_external(keys, d) ==
    FoldLeft(LAMBDA c, key : add_external(c, DefaultOrdering,
                                          Signer(IF Keys[key].single THEN "single" ELSE "xprv", key,
                                                 IF d.kind = "tap" THEN "tap" ELSE "segwit", FALSE)),
             [k \in {} |-> Device(0)], SetToSortSeq(keys, <))

build(keys, d) ==
    LET ctx == CASE d.kind = "tap" -> "tap" [] d.kind \in {"wpkh", "wsh"} -> "segwit" [] OTHER -> "legacy"
        signer(key) == Signer(IF Keys[key].single THEN "single" ELSE "xprv", key, ctx, d.internal = key)
    IN  FoldLeft(LAMBDA c, key : add_external(c, DefaultOrdering, signer(key)),
                 [k \in {} |-> Device(0)], SetToSortSeq(keys, <))

set_keymap(party, keychain, keys) ==
    /\ keychain \in DOMAIN descriptors
    /\ signers' = [signers EXCEPT ![party][keychain] = build(keys, descriptors[keychain])]
    /\ UNCHANGED <<descriptors, psbt, parents, tip, outcome>>

add_signer(party, keychain, ordering, signer) ==
    /\ signers' = [signers EXCEPT ![party][keychain] = add_external(@, ordering, signer)]
    /\ UNCHANGED <<descriptors, psbt, parents, tip, outcome>>

-----------------------------------------------------------------------------
(***************************************************************************)
(* Signing.  A step of it takes [inputs, ok] to [inputs, ok]; once ok is   *)
(* FALSE nothing more happens, but the signatures made so far are kept.    *)
(***************************************************************************)
SignOptions ==
    [trust_witness_utxo |-> FALSE, assume_height |-> None, allow_all_sighashes |-> FALSE,
     try_finalize |-> TRUE, tap_leaves |-> 1..9, sign_with_tap_internal_key |-> TRUE]

Failed(s) == [s EXCEPT !.ok = FALSE]
WithSigs(s, i, sigs) == [s EXCEPT !.inputs[i].sigs = @ \cup sigs]

\* Sighash types: unset, all, default (taproot only), single, and all with
\* anyone-can-pay.  The signer's context tells whether one counts as "all".
Standard(in) == in.sighash \in {"unset", "all", "default"}
is_sighash_all(in, ctx) == in.sighash \in {"unset", "all"} \/ (ctx = "tap" /\ in.sighash = "default")

\* sighash_ecdsa (bitcoin): the output must be known, its script too, and not taproot.
HashableEcdsa(in) ==
    /\ HasUtxo(in)
    /\ ~Tap(in)
    /\ in.kind \in {"sh", "wsh"} => in.meta
    /\ in.sighash # "default"

\* compute_tap_sighash: it commits to the outputs of all inputs, or of its own.
HashableTap(s, i) ==
    IF s.inputs[i].sighash = "anyone" THEN HasUtxo(s.inputs[i])
    ELSE \A j \in DOMAIN s.inputs : HasUtxo(s.inputs[j])

\* What a taproot signer adds to an input: for the internal key, and for the
\* leaves with its key, as far as the options want it.
TapSigs(in, signer, options) ==
    LET d == DescriptorOf(in)
        key == signer.key
        keyPath == signer.internal /\ key = d.internal /\ options.sign_with_tap_internal_key
        leaves == {l \in DOMAIN d.leaves \cap options.tap_leaves : key \in KeysOf(d.leaves[l])}
    IN  IF Mine(in) /\ in.meta /\ Tap(in)
        THEN {<<key, l>> : l \in leaves \cup (IF keyPath THEN {0} ELSE {})} ELSE {}

\* sign_input of a single key.  An ECDSA key signs every input, whoever's it is.
SignWithKey(s, i, signer, options) ==
    LET in == s.inputs[i]
        sigs == IF signer.ctx = "tap" THEN TapSigs(in, signer, options) ELSE {<<signer.key, 0>>}
    IN  IF in.final THEN s
        ELSE IF ~options.allow_all_sighashes /\ ~is_sighash_all(in, signer.ctx) THEN Failed(s)
        ELSE IF sigs \subseteq in.sigs THEN s
        ELSE IF ~(IF signer.ctx = "tap" THEN HashableTap(s, i) ELSE HashableEcdsa(in)) THEN Failed(s)
        ELSE WithSigs(s, i, sigs)

\* sign_input of an extended key: only inputs whose metadata has a key it derives.
SignWithXprv(s, i, signer, options) ==
    IF signer.key \notin KeysFor(s.inputs[i]) THEN s ELSE SignWithKey(s, i, signer, options)

\* A device signs what it has the key of.
SignWithDevice(s, i, signer) ==
    LET in == s.inputs[i]
        d == DescriptorOf(in)
        leaves == {l \in DOMAIN d.leaves : signer.key \in KeysOf(d.leaves[l])}
                     \cup (IF d.internal = signer.key THEN {0} ELSE {})
    IN  IF in.final \/ signer.key \notin KeysFor(in) THEN s
        ELSE WithSigs(s, i, {<<signer.key, IF Tap(in) THEN l ELSE 0>> : l \in leaves})

\* sign_transaction: the inputs in their order, up to the first error.  The user of
\* a device may refuse.
sign_transaction(s, signer, options, refusing) ==
    LET Step(t, i) ==
            IF ~t.ok THEN t
            ELSE CASE signer.type = "single" -> SignWithKey(t, i, signer, options)
                   [] signer.type = "xprv" -> SignWithXprv(t, i, signer, options)
                   [] signer.type = "device" -> SignWithDevice(t, i, signer)
    IN  IF ~s.ok THEN s
        ELSE IF signer.type = "device" /\ signer.key \in refusing THEN Failed(s)
        ELSE FoldLeft(Step, s, [i \in DOMAIN s.inputs |-> i])

\* update_psbt_with_descriptor: inputs, then outputs, get the metadata of the
\* descriptor.  It stops at a legacy input without its full previous transaction
\* (miniscript).
Updatable(in) == in.indexed /\ Mine(in) /\ HasUtxo(in)
UpdateStops(p) == {i \in DOMAIN p.inputs :
    Updatable(p.inputs[i]) /\ p.inputs[i].kind \in {"pkh", "sh"} /\ ~p.inputs[i].full}
update_psbt_with_descriptor(p) ==
    LET stops == UpdateStops(p)
    IN  [p EXCEPT !.derivations = @ \/ stops = {},
                  !.inputs = [i \in DOMAIN @ |->
                                IF Updatable(@[i]) /\ \A j \in stops : i < j
                                THEN [@[i] EXCEPT !.meta = TRUE] ELSE @[i]]]

\* MissingNonWitnessUtxo and NonStandardSighash.
Refused(p, options) ==
    \/ ~options.trust_witness_utxo
         /\ \E i \in DOMAIN p.inputs :
               LET in == p.inputs[i]
               IN  ~in.final /\ ~in.full /\ ~(Tap(in) /\ in.meta)
    \/ ~options.allow_all_sighashes /\ \E i \in DOMAIN p.inputs : ~Standard(p.inputs[i])

-----------------------------------------------------------------------------
(***************************************************************************)
(* Finalizing.  Time locks count if the transaction's own fields grant     *)
(* them, in finalize_psbt also if the chain has reached them.              *)
(***************************************************************************)
\* PsbtInputSatisfier (miniscript).
Granted(p, in, node) ==
    IF node.t = "after"
    THEN in.sequence.unit # "max" /\ SameUnit(p.lock_time, node.lock) /\ p.lock_time.n >= node.lock.n
    ELSE p.version >= 2 /\ check_nsequence_rbf(in.sequence, node.lock)

\* After and Older: the height as a number against the lock as a number, so times
\* are never reached.  Parents that are not canonical count as created at height 0.
Reaches(height, parent, node) ==
    /\ node.lock.unit = "blocks"
    /\ height >= node.lock.n + (IF node.t = "after" \/ parent = Gone THEN 0 ELSE parent)

\* satisfy (miniscript) of a script by signatures for its keys, and by locks that hold.
Satisfies(script, signed, held) ==
    LET Met(below, node) ==
            CASE node.t = "pk" -> node.key \in signed
              [] node.t = "multi" -> Cardinality({i \in DOMAIN node.keys : node.keys[i] \in signed}) >= node.k
              [] node.t \in {"after", "older"} -> node \in held
              [] node.t = "hash" -> FALSE
              [] node.t \in {"true", "false"} -> node.t = "true"
              [] OTHER -> Cardinality({i \in DOMAIN node.subs : below[node.subs[i]]}) >= node.k
    IN  Last(FoldLeft(LAMBDA below, node : Append(below, Met(below, node)), <<>>, script))

KeySpend(in) == Tap(in) /\ <<DescriptorOf(in).internal, 0>> \in in.sigs
CanSatisfy(in, held) ==
    LET d == DescriptorOf(in)
    IN  KeySpend(in) \/ \E l \in DOMAIN d.leaves :
            Satisfies(d.leaves[l], {sig[1] : sig \in {s \in in.sigs : s[2] = IF Tap(in) THEN l ELSE 0}}, held)

\* The height of an unconfirmed parent is u32::MAX, and adding the lock to it
\* overflows: an expect in check_older, reached unless the sequence grants the lock.
Overflows(p, in) ==
    /\ parents[in.parent] = Unconfirmed
    /\ ~KeySpend(in)
    /\ \E l \in DOMAIN DescriptorOf(in).leaves : \E n \in DOMAIN DescriptorOf(in).leaves[l] :
          LET node == DescriptorOf(in).leaves[l][n] IN node.t = "older" /\ ~Granted(p, in, node)

\* The descriptor is that of the previous output, if known, else what the metadata says.
HasDescriptor(in) == Mine(in) /\ (in.meta \/ (in.indexed /\ HasUtxo(in)))

\* A seeded bug: the input is cleared before it is known to be satisfied.
Cleared(in, done) == [in EXCEPT !.meta = FALSE, !.sigs = {}, !.sighash = "unset", !.final = done]

\* What is left of an input: its final witness and its previous output.
FinalInput(in, done) ==
    IF ~done THEN in ELSE [in EXCEPT !.meta = FALSE, !.sigs = {}, !.sighash = "unset", !.final = TRUE]

\* try_finalize_psbt_with, up to a panic.  height: None to go by the fields alone.
try_finalize_psbt_with(p, height) ==
    LET chain == height # None
        Finalize(s, i) ==
            LET in == p.inputs[i]
                held == {node \in LocksIn(DescriptorOf(in)) :
                            Granted(p, in, node) \/ (chain /\ Reaches(height.n, parents[in.parent], node))}
            IN  IF s.panic \/ in.final \/ ~HasDescriptor(in) THEN s
                ELSE IF chain /\ Overflows(p, in) THEN [s EXCEPT !.panic = TRUE]
                ELSE [s EXCEPT !.inputs[i] = FinalInput(in, CanSatisfy(in, held))]
    IN  FoldLeft(Finalize, [inputs |-> p.inputs, panic |-> FALSE], [i \in DOMAIN p.inputs |-> i])

\* The PSBT after an attempt, and how it ended.  finalize_psbt also clears the
\* derivations of the outputs, once all inputs are final.
Attempt(p, height, clear) ==
    LET s == try_finalize_psbt_with(p, height)
        q == [p EXCEPT !.inputs = s.inputs]
    IN  [psbt |-> IF clear /\ ~s.panic /\ AllFinal(q) THEN [q EXCEPT !.derivations = FALSE] ELSE q,
         result |-> IF s.panic THEN "panic" ELSE IF AllFinal(q) THEN "finalized" ELSE "pending"]
Finalized(p, options) ==
    Attempt(p, IF options.assume_height = None THEN Blocks(tip) ELSE options.assume_height, TRUE)

\* A seeded bug: signatures that do not complete the PSBT are thrown away.
SignAllOrNothing(p, called, options, refusing) ==
    LET updated == update_psbt_with_descriptor(p)
        s == FoldLeft(LAMBDA t, signer : sign_transaction(t, signer, options, refusing),
                      [inputs |-> updated.inputs, ok |-> TRUE], called)
        attempt == Finalized([updated EXCEPT !.inputs = s.inputs], options)
    IN  IF attempt.result = "finalized" THEN attempt ELSE [psbt |-> updated, result |-> "pending"]

\* sign_with_signers.
sign_with_signers(p, called, options, refusing) ==
    LET updated == update_psbt_with_descriptor(p)
        s == FoldLeft(LAMBDA t, signer : sign_transaction(t, signer, options, refusing),
                      [inputs |-> updated.inputs, ok |-> TRUE], called)
        signed == [updated EXCEPT !.inputs = s.inputs]
    IN  IF UpdateStops(p) # {} \/ Refused(updated, options) THEN [psbt |-> updated, result |-> "error"]
        ELSE IF ~s.ok THEN [psbt |-> signed, result |-> "error"]
        ELSE IF options.try_finalize THEN Finalized(signed, options)
        ELSE [psbt |-> signed, result |-> "pending"]
SignersOfParty(party) == SignersOf(signers[party]["External"]) \o SignersOf(signers[party]["Internal"])

-----------------------------------------------------------------------------
(***************************************************************************)
(* The calls.                                                              *)
(***************************************************************************)
Ends(attempt, party) ==
    /\ psbt' = attempt.psbt
    /\ outcome' = [result |-> attempt.result, by |-> party]
    /\ UNCHANGED <<descriptors, signers, parents, tip>>

sign(party, options, refusing) ==
    Ends(sign_with_signers(psbt, SignersOfParty(party), options, refusing),
         IF options = SignOptions /\ refusing = {} THEN party ELSE 0)
finalize_psbt(options) == Ends(Finalized(psbt, options), 0)
try_finalize_psbt == Ends(Attempt(psbt, None, FALSE), 0)

\* A block, with one of the parents perhaps; a parent that is replaced.
Block(confirmed) ==
    /\ tip < MaxTip
    /\ tip' = tip + 1
    /\ parents' = [t \in DOMAIN parents |-> IF t \in confirmed THEN tip + 1 ELSE parents[t]]
    /\ UNCHANGED <<descriptors, signers, psbt, outcome>>
Replaced(t) ==
    /\ parents[t] = Unconfirmed
    /\ parents' = [parents EXCEPT ![t] = Gone]
    /\ UNCHANGED <<descriptors, signers, psbt, tip, outcome>>

-----------------------------------------------------------------------------
(***************************************************************************)
(* What the policies say about all this.                                   *)
(***************************************************************************)
\* find_signature, of a key in the PSBT: all inputs must have one of its signatures.
FoundIn(in, key) ==
    LET alike == {k \in KeysFor(in) : Keys[k].root = Keys[key].root /\ ~Keys[k].single}
        found == IF Keys[key].single THEN key ELSE Min(alike)
    IN  (Keys[key].single \/ alike # {}) /\ \E sig \in in.sigs : sig[1] = found
find_signature(key) == \A i \in DOMAIN psbt.inputs : FoundIn(psbt.inputs[i], key)

\* The locks of BuildSatisfaction::PsbtTimelocks: reached, and granted in every input.
InputMaxHeight == Max({parents[psbt.inputs[i].parent] : i \in DOMAIN psbt.inputs})

\* A seeded bug: a lock the chain has reached, whatever the transaction says.
ReachedOnly(node) == Reaches(tip, InputMaxHeight, node)

Expired(node) ==
    /\ Reaches(tip, InputMaxHeight, node)
    /\ \A i \in DOMAIN psbt.inputs : Granted(psbt, psbt.inputs[i], node)

PolicyOf(keychain, keys) ==
    LET d == descriptors[keychain]
    IN  extract_policy(AsScript(d), keys, {key \in KeysIn(d) : find_signature(key)}, {node \in LocksIn(d) : Expired(node)})
policies(party, keychain) ==
    PolicyOf(keychain, {key \in KeysIn(descriptors[keychain]) : signer_id(key) \in ids(signers[party][keychain])})

\* The conditions are granted by the fields of the transaction, for one input.
Grants(in, c) ==
    /\ c.csv # None => Granted(psbt, in, Older(c.csv))
    /\ c.timelock # None => Granted(psbt, in, After(c.timelock))

\* Nothing but signatures is missing: every input spends an output of the wallet
\* that its descriptor can be found for, along with the full previous transaction,
\* is to be signed as a whole, and does not make the finalizer panic.
Signable ==
    \A i \in DOMAIN psbt.inputs :
        LET in == psbt.inputs[i]
        IN  in.final \/ /\ Mine(in) /\ in.indexed /\ in.full
                        /\ in.sighash \in {"unset", "all"}
                        /\ ~Overflows(psbt, in)

\* The keys of the descriptors have different signer ids, and every key has one place.
Distinct ==
    LET all == UNION {KeysIn(descriptors[k]) : k \in DOMAIN descriptors}
    IN  \A a, b \in all : signer_id(a) = signer_id(b) => a = b
OnePlace ==
    \A k \in DOMAIN descriptors :
        LET d == descriptors[k]
        IN  \A l, m \in DOMAIN d.leaves :
              /\ l # m => KeysOf(d.leaves[l]) \cap KeysOf(d.leaves[m]) = {}
              /\ d.internal \notin KeysOf(d.leaves[l])

\* A single ECDSA key tries to sign taproot inputs too, and fails.
NoMixture ==
    \A j, k \in DOMAIN descriptors : (descriptors[j].kind = "tap") = (descriptors[k].kind = "tap")

\* Some of the conditions under which signers complete the policies are granted.
Covered(has(_, _)) ==
    \A i \in DOMAIN psbt.inputs :
        LET in == psbt.inputs[i]
            policy == PolicyOf(in.of, {key \in KeysIn(descriptors[in.of]) : has(key, in.of)})
            root == Last(policy).contribution
        IN  in.final \/ (Reached(root) /\ \E c \in ConditionsOf(root) : Grants(in, c))

-----------------------------------------------------------------------------
(***************************************************************************)
(* Properties.                                                             *)
(***************************************************************************)
\* The conditions advertised by the wallet's policies are those that its policy
\* paths lead to (Policy::get_condition against Satisfaction::finalize), for
\* whatever signers a party has.
PoliciesMatchPaths ==
    \A party \in Parties, k \in DOMAIN descriptors : PathsMatch(policies(party, k))

\* A wallet that says its signers complete the policy can spend: if the fields of
\* the transaction grant one of the conditions it names, and nothing but
\* signatures is missing, sign finalizes the PSBT at once, whatever others signed
\* before.  (Keys with one root fingerprint overwrite each other in the container,
\* and single keys fail at a taproot input beside theirs: neither is claimed here.)
ContributionHonest ==
    \A party \in Parties :
        (/\ Signable
         /\ Distinct
         /\ NoMixture
         /\ Covered(LAMBDA key, keychain : signer_id(key) \in ids(signers[party][keychain])))
            => sign_with_signers(psbt, SignersOfParty(party), SignOptions, {}).result = "finalized"

\* A policy that a PSBT is said to satisfy, signatures and expired locks, is no
\* empty word: the PSBT can be finalized.  (A signature for one leaf counts for
\* other leaves with the same key: not claimed.)
SatisfiedIsFinalizable ==
    \A k \in DOMAIN descriptors :
        (/\ \A i \in DOMAIN psbt.inputs :
              LET in == psbt.inputs[i] IN in.of = k /\ HasDescriptor(in) /\ parents[in.parent] >= 0
         /\ Distinct /\ OnePlace
         /\ LET policy == PolicyOf(k, KeysIn(descriptors[k])) IN Reached(Last(policy).satisfaction))
            => /\ Attempt(psbt, None, FALSE).result = "finalized"
               /\ Finalized(psbt, SignOptions).result = "finalized"

\* Signatures are only ever lost to a final witness, and that is never lost: not
\* when a later signer fails, when the finalizer cannot complete an input or when
\* a party signs again what is final.
SignaturesKept ==
    [][\A i \in DOMAIN psbt.inputs :
          LET old == psbt.inputs[i]
              new == psbt'.inputs[i]
          IN  /\ new.final \/ old.sigs \subseteq new.sigs
              /\ old.final => new.final]_vars

\* Parties that are asked again and again complete the PSBT, in whatever order,
\* and whatever devices refuse in between, once their signers together cover it.
TogetherFinal ==
    <>[](/\ Signable /\ Distinct /\ NoMixture
         /\ Covered(LAMBDA key, keychain : \E p \in Parties : signer_id(key) \in ids(signers[p][keychain])))
        => <>AllFinal(psbt)

\* The addition in check_older is expected not to overflow ("Overflowing addition").
NeverPanics == outcome.result # "panic"
=============================================================================

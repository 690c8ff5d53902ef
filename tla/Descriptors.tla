----------------------------- MODULE Descriptors -----------------------------
(***************************************************************************)
(* From what a caller gives to the descriptor of a wallet                  *)
(* (src/src/descriptor/mod.rs, template.rs and dsl.rs).  A descriptor is   *)
(* its type, the operator it holds, a threshold and its keys.              *)
(***************************************************************************)
EXTENDS Keys

Descriptor(type, shape, k, keys) == [type |-> type, shape |-> shape, k |-> k, keys |-> keys]
is_taproot(d) == d.type = "tr"
is_witness(d) == d.type \in {"wpkh", "sh_wpkh", "wsh", "sh_wsh"}
has_wildcard(d) == \E i \in DOMAIN d.keys : d.keys[i].wildcard # "none"
is_multipath(d) == \E i \in DOMAIN d.keys : d.keys[i].type = "multi"
WithKeys(d, Of(_)) == [d EXCEPT !.keys = [i \in DOMAIN @ |-> Of(@[i])]]

\* What a fallible step answers: a descriptor and its secret keys, or an error.
Ok(d, keymap) == [error |-> "", desc |-> d, keymap |-> keymap]
Err(error) == [error |-> error]
Then(answer, Continue(_)) == IF answer.error = "" THEN Continue(answer) ELSE answer

(***************************************************************************)
(* The script of an index; descriptor_id is the hash of the first one, in  *)
(* which origins and networks are lost and sorted keys have no order.      *)
(***************************************************************************)
PublicKeyAt(key, index) ==
    [id |-> key.id, at |-> key.at \o key.paths[1] \o IF key.wildcard = "none" THEN <<>> ELSE <<Soft(index)>>]
ScriptAt(d, index) ==
    [type |-> d.type, shape |-> d.shape, k |-> d.k,
     keys |-> {<<IF d.shape = "sortedmulti" THEN 0 ELSE i, PublicKeyAt(d.keys[i], index)>> : i \in DOMAIN d.keys}]
descriptor_id(d) == ScriptAt(d, 0)

-----------------------------------------------------------------------------
(***************************************************************************)
(* descriptor! and fragment!: a descriptor, its secret keys and the kinds  *)
(* of network it suits, from those of its operands.                        *)
(***************************************************************************)
TemplateOut(type, shape, k, fragment) ==
    [desc |-> Descriptor(type, shape, k, fragment.keys), keymap |-> fragment.keymap, kinds |-> fragment.kinds]

impl_node_opcode_two(a, b) == Joined(a, b)
impl_node_opcode_three(a, b, c) == Joined(Joined(a, b), c)
thresh_vec(items) == Join(items)
parse_tap_tree(a, b) == Joined(a, b)

impl_top_level_pk(type, descriptor_key) == TemplateOut(type, "pk", 1, extract(descriptor_key))
impl_top_level_sh(type, fragment) == TemplateOut(type, "other", 1, fragment)
impl_sortedmulti(type, k, descriptor_keys) == TemplateOut(type, "sortedmulti", k, expand_multi_keys(descriptor_keys))
impl_top_level_tr(descriptor_key, tap_tree) == TemplateOut("tr", "other", 1, Joined(extract(descriptor_key), tap_tree))

(***************************************************************************)
(* Templates: of one key, and of a BIP's standard path below or above a    *)
(* key.                                                                    *)
(***************************************************************************)
P2Pkh(descriptor_key) == impl_top_level_pk("pkh", descriptor_key)
P2Wpkh_P2Sh(descriptor_key) == impl_top_level_pk("sh_wpkh", descriptor_key)
P2Wpkh(descriptor_key) == impl_top_level_pk("wpkh", descriptor_key)
P2TR(descriptor_key) == impl_top_level_pk("tr", descriptor_key)

CoinType(kind) == IF kind = "main" THEN Hard(2) ELSE Hard(1)
KeychainStep(keychain) == IF keychain = "External" THEN Soft(0) ELSE Soft(1)

make_bipxx_private(bip, key, keychain, kind) ==
    derive(key, NoOrigin, <<Hard(bip), CoinType(kind), Hard(0), KeychainStep(keychain)>>)

\* A seeded bug: the coin type of the main network in every origin.
make_bipxx_public_main(bip, key, fingerprint, keychain, kind) ==
    derive(key, Origin(fingerprint, <<Hard(bip), CoinType("main"), Hard(0)>>), <<KeychainStep(keychain)>>)

make_bipxx_public(bip, key, fingerprint, keychain, kind) ==
    derive(key, Origin(fingerprint, <<Hard(bip), CoinType(kind), Hard(0)>>), <<KeychainStep(keychain)>>)

Bip44(key, keychain, kind) == P2Pkh(make_bipxx_private(44, key, keychain, kind))
Bip49(key, keychain, kind) == P2Wpkh_P2Sh(make_bipxx_private(49, key, keychain, kind))
Bip84(key, keychain, kind) == P2Wpkh(make_bipxx_private(84, key, keychain, kind))
Bip86(key, keychain, kind) == P2TR(make_bipxx_private(86, key, keychain, kind))
Bip44Public(key, fingerprint, keychain, kind) == P2Pkh(make_bipxx_public(44, key, fingerprint, keychain, kind))
Bip49Public(key, fingerprint, keychain, kind) == P2Wpkh_P2Sh(make_bipxx_public(49, key, fingerprint, keychain, kind))
Bip84Public(key, fingerprint, keychain, kind) == P2Wpkh(make_bipxx_public(84, key, fingerprint, keychain, kind))
Bip86Public(key, fingerprint, keychain, kind) == P2TR(make_bipxx_public(86, key, fingerprint, keychain, kind))

\* The forms a caller may give a descriptor in.  A BIP's template is built when the network
\* is known.
Text(d, checksum) == [form |-> "text", desc |-> d, checksum |-> checksum]
Pair(d, keymap) == [form |-> "pair", desc |-> d, keymap |-> keymap]
Dsl(out) == [form |-> "dsl", out |-> out]
Bip(bip, key, keychain) == [form |-> "bip", bip |-> bip, key |-> key, keychain |-> keychain]
BipPublic(bip, key, fingerprint, keychain) ==
    [form |-> "bip_public", bip |-> bip, key |-> key, fingerprint |-> fingerprint, keychain |-> keychain]

build(source, kind) ==
    CASE source.form = "dsl" -> source.out
      [] source.form = "bip" ->
            (CASE source.bip = 44 -> Bip44(source.key, source.keychain, kind)
               [] source.bip = 49 -> Bip49(source.key, source.keychain, kind)
               [] source.bip = 84 -> Bip84(source.key, source.keychain, kind)
               [] source.bip = 86 -> Bip86(source.key, source.keychain, kind))
      [] source.form = "bip_public" ->
            (CASE source.bip = 44 -> Bip44Public(source.key, source.fingerprint, source.keychain, kind)
               [] source.bip = 49 -> Bip49Public(source.key, source.fingerprint, source.keychain, kind)
               [] source.bip = 84 -> Bip84Public(source.key, source.fingerprint, source.keychain, kind)
               [] source.bip = 86 -> Bip86Public(source.key, source.fingerprint, source.keychain, kind))

-----------------------------------------------------------------------------
(***************************************************************************)
(* into_wallet_descriptor: a descriptor and its keys, for one kind of      *)
(* network.                                                                *)
(***************************************************************************)
\* Descriptor::parse_descriptor: the secret keys in the text go to the key map.
Parsed(d) ==
    IF \E i \in DOMAIN d.keys : ~CanBePublic(d.keys[i]) THEN Err("Miniscript")
    ELSE LET secrets == {d.keys[i] : i \in {j \in DOMAIN d.keys : d.keys[j].secret}}
         IN  Ok(WithKeys(d, to_public),
                [k \in {to_public(s) : s \in secrets} |-> CHOOSE s \in secrets : to_public(s) = k])

\* (ExtendedDescriptor, KeyMap): every public key must be valid for the network.
ForNetwork(given, kind) ==
    IF \A i \in DOMAIN given.desc.keys : kind \in AsItStands(given.desc.keys[i]).kinds THEN given
    ELSE Err("InvalidNetworkKind")

\* DescriptorTemplateOut: keys made for another network than they are used on are set
\* right, in the descriptor and in the key map.
FixNetwork(out, kind) ==
    LET fixed(key) == IF key.network = "any" THEN key ELSE [key EXCEPT !.network = kind]
    IN  IF kind \notin out.kinds THEN Err("InvalidNetworkKind")
        ELSE Ok(WithKeys(out.desc, fixed),
                [p \in {fixed(k) : k \in DOMAIN out.keymap} |->
                    fixed(out.keymap[CHOOSE k \in DOMAIN out.keymap : fixed(k) = p])])

into_wallet_descriptor(source, kind) ==
    CASE source.form = "text" ->
            IF source.checksum = "wrong" THEN Err("InvalidDescriptorChecksum")
            ELSE Then(Parsed(source.desc), LAMBDA given : ForNetwork(given, kind))
      [] source.form = "pair" -> ForNetwork(Ok(source.desc, source.keymap), kind)
      [] source.form \notin {"text", "pair"} -> FixNetwork(build(source, kind), kind)

\* make_descriptor_to_extract (which = 0) and make_two_path_descriptor_to_extract, for the
\* first or the second of the two paths.
ToExtract(source, which) == [source |-> source, which |-> which]
OnePath(which, key) == IF key.type = "multi" THEN [key EXCEPT !.type = "xkey", !.paths = <<@[which]>>] ELSE key
HasTwoPaths(d) ==
    is_multipath(d) /\ \A i \in DOMAIN d.keys : d.keys[i].type = "multi" => Len(d.keys[i].paths) = 2
SinglePath(given, which) ==
    IF which = 0 THEN given
    ELSE IF HasTwoPaths(given.desc) THEN Ok(WithKeys(given.desc, LAMBDA key : OnePath(which, key)), given.keymap)
    ELSE Err("MultiPath")
make_desc(to_extract, kind) ==
    Then(into_wallet_descriptor(to_extract.source, kind), LAMBDA given : SinglePath(given, to_extract.which))

\* check_wallet_descriptor; sanity_check refuses a repeated key.
HasHardenedSteps(key) == key.type = "xkey" /\ (key.wildcard = "hardened" \/ HasHardened(key.paths[1]))
check_wallet_descriptor(given) ==
    IF \E i \in DOMAIN given.desc.keys : HasHardenedSteps(given.desc.keys[i]) THEN Err("HardenedDerivationXpub")
    ELSE IF is_multipath(given.desc) \/ ~IsInjective(given.desc.keys) THEN Err("Miniscript")
    ELSE given

-----------------------------------------------------------------------------
(***************************************************************************)
(* The descriptor of an input of a PSBT, found by the origins of its keys. *)
(* The code keeps one origin for each fingerprint: key_origins maps a      *)
(* fingerprint to [path, key].                                             *)
(***************************************************************************)
\* DescriptorXKey::matches: the length of the path before the wildcard, or {}.
Matches(xpub, path) ==
    LET prefix == IF xpub.wildcard # "none" /\ path # <<>> THEN Front(path) ELSE path
    IN  IF prefix = xpub.origin.path \o xpub.paths[1] THEN {Len(prefix)} ELSE {}

\* A seeded bug: the derived key is not compared with the one in the input.
IndexOfUnverified(xpub, key_origins) ==
    LET fingerprint == root_fingerprint(xpub)
        found == IF fingerprint \in DOMAIN key_origins THEN Matches(xpub, key_origins[fingerprint].path) ELSE {}
        rest(n) == SubSeq(key_origins[fingerprint].path, n + 1, Len(key_origins[fingerprint].path))
    IN  UNION {CASE xpub.wildcard # "none" /\ Len(rest(n)) = 1 -> {rest(n)[1].index}
                 [] xpub.wildcard = "none" /\ rest(n) = <<>> -> {0}
                 [] OTHER -> {} : n \in found}

\* The index one key leads to: {} or {index}.
IndexOf(xpub, key_origins) ==
    LET fingerprint == root_fingerprint(xpub)
        entry == key_origins[fingerprint]
        rest(n) == SubSeq(entry.path, n + 1, Len(entry.path))
        verified(n) == [id |-> xpub.id, at |-> xpub.at \o xpub.paths[1] \o rest(n)] = entry.key
        usable(n) == IF xpub.wildcard = "none" THEN rest(n) = <<>> ELSE Len(rest(n)) = 1 /\ ~HasHardened(rest(n))
        found == IF fingerprint \in DOMAIN key_origins THEN Matches(xpub, entry.path) ELSE {}
    IN  {IF xpub.wildcard = "none" THEN 0 ELSE rest(n)[1].index : n \in {m \in found : verified(m) /\ usable(m)}}

derive_from_psbt_key_origins(d, key_origins) ==
    LET hits == {i \in DOMAIN d.keys : d.keys[i].type = "xkey" /\ IndexOf(d.keys[i], key_origins) # {}}
    IN  IF hits = {} THEN {} ELSE IndexOf(d.keys[Min(hits)], key_origins)

\* What an input of a PSBT tells of its script besides: the output it spends, and the
\* script behind a hash, NoScript where the input does not have it.
NoScript == [type |-> "none"]
PsbtInput(key_origins, utxo, redeem_script, witness_script) ==
    [key_origins |-> key_origins, utxo |-> utxo, redeem_script |-> redeem_script, witness_script |-> witness_script]
explicit_script(d, index) == [ScriptAt(d, index) EXCEPT !.type = "script"]

\* A descriptor without wildcard can do without origins, if the input has its script.
HasScriptOf(d, input) ==
    CASE d.type \in {"pkh", "wpkh", "sh_wpkh", "tr"} -> input.utxo = ScriptAt(d, 0)
      [] d.type \in {"bare", "sh"} -> input.redeem_script = explicit_script(d, 0)
      [] d.type \in {"wsh", "sh_wsh"} -> input.witness_script = explicit_script(d, 0)
      [] OTHER -> FALSE

derive_from_psbt_input(d, input) ==
    LET found == derive_from_psbt_key_origins(d, input.key_origins)
    IN  IF found # {} THEN found
        ELSE IF ~has_wildcard(d) /\ HasScriptOf(d, input) THEN {0}
        ELSE {}
=============================================================================

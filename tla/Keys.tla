-------------------------------- MODULE Keys --------------------------------
(***************************************************************************)
(* Keys and what callers may give for one (src/src/keys/mod.rs and         *)
(* bip39.rs).  A key is a point of a BIP32 tree: the secret it starts from *)
(* (id) and the path down to it (at).  A fingerprint is that point.  The   *)
(* text of a key, its entropy and its words are left out.                  *)
(***************************************************************************)
EXTENDS Naturals, Sequences, SequencesExt, FiniteSetsExt

Hard(n) == [index |-> n, hardened |-> TRUE]
Soft(n) == [index |-> n, hardened |-> FALSE]
HasHardened(path) == \E i \in DOMAIN path : path[i].hardened

Fingerprint(id, at) == [id |-> id, at |-> at]
NoOrigin == [fingerprint |-> Fingerprint("", <<>>), path |-> <<>>]
Origin(fingerprint, path) == [fingerprint |-> fingerprint, path |-> path]

\* DescriptorPublicKey and DescriptorSecretKey: a single key, or an extended key with
\* one path below it (xkey) or several (multi).
Key(type, id, at, network, secret, origin, paths, wildcard) ==
    [type |-> type, id |-> id, at |-> at, network |-> network, secret |-> secret,
     origin |-> origin, paths |-> paths, wildcard |-> wildcard]
Single(id, network, secret) == Key("single", id, <<>>, network, secret, NoOrigin, <<<<>>>>, "none")
XKey(xkey, origin, path) ==
    Key("xkey", xkey.id, xkey.at, xkey.network, xkey.secret, origin, <<path>>, "normal")

\* XKeyUtils::root_fingerprint.
root_fingerprint(key) == IF key.origin = NoOrigin THEN Fingerprint(key.id, key.at) ELSE key.origin.fingerprint

\* DescriptorSecretKey::to_public: the hardened part of the path goes to the origin.
\* A secret with several paths has no public form.
HardenedPart(path) ==
    LET last == Max({0} \cup {i \in DOMAIN path : path[i].hardened}) IN SubSeq(path, 1, last)
CanBePublic(key) == ~key.secret \/ key.type # "multi"
to_public(key) ==
    LET hard == HardenedPart(key.paths[1])
        origin == IF key.origin = NoOrigin /\ hard = <<>> THEN NoOrigin
                  ELSE Origin(root_fingerprint(key), key.origin.path \o hard)
    IN  CASE key.type = "single" -> [key EXCEPT !.secret = FALSE, !.network = "any"]
          [] key.type # "single" /\ ~key.secret -> key
          [] key.type # "single" /\ key.secret ->
                [key EXCEPT !.secret = FALSE, !.at = @ \o hard, !.origin = origin,
                            !.paths = <<SubSeq(@[1], Len(hard) + 1, Len(@[1]))>>]

-----------------------------------------------------------------------------
(***************************************************************************)
(* The networks a key is valid on.  NetworkKind is main or test.           *)
(***************************************************************************)
any_network_kind == {"main", "test"}
KindsOf(network) == IF network = "main" THEN {"main"} ELSE {"test"}
intersect_network_kinds(a, b) == a \cap b

\* IntoDescriptorKey.  A single public key is of no network; a single secret key is of one.
DescriptorKey(key, kinds) == [key |-> key, kinds |-> kinds]
FromPublic(key) == DescriptorKey(key, IF key.type = "single" THEN any_network_kind ELSE KindsOf(key.network))
FromSecret(key) == DescriptorKey(key, KindsOf(key.network))
AsItStands(key) == IF key.secret THEN FromSecret(key) ELSE FromPublic(key)
PublicKey(id) == FromPublic(Single(id, "any", FALSE))
PrivateKey(id, network) == FromSecret(Single(id, network, TRUE))
override_valid_network_kinds(descriptor_key, kinds) == [descriptor_key EXCEPT !.kinds = kinds]

\* DerivableKey: an extended key, or the seed its master key comes from, which is made for
\* the main network and valid on any.  Words and a passphrase (id stands for both) are one
\* way to have a seed.
ExtendedKey(id, at, network, secret) ==
    [form |-> "extended", id |-> id, at |-> at, network |-> network, secret |-> secret]
Seed(id) == [form |-> "seed", id |-> id]
Mnemonic(id) == Seed(id)
MasterOf(key) == IF key.form = "seed" THEN ExtendedKey(key.id, <<>>, "main", TRUE) ELSE key
into_extended_key(key) == IF key.form = "generated" THEN MasterOf(key.key) ELSE MasterOf(key)
set_valid_on_any_network_kind(descriptor_key) == override_valid_network_kinds(descriptor_key, any_network_kind)
DerivedFrom(key, origin, path) ==
    LET descriptor_key == AsItStands(XKey(into_extended_key(key), origin, path))
    IN  IF key.form = "seed" THEN set_valid_on_any_network_kind(descriptor_key) ELSE descriptor_key

\* GeneratedKey: a key with the kinds of network it was generated for.
Generated(key, kinds) == [form |-> "generated", key |-> key, kinds |-> kinds]
generate_xpriv(id, network) == Generated(ExtendedKey(id, <<>>, network, TRUE), KindsOf(network))
generate_mnemonic(id) == Generated(Mnemonic(id), any_network_kind)
generate_private_key(id, network) == override_valid_network_kinds(PrivateKey(id, network), KindsOf(network))

\* DerivableKey::into_descriptor_key: (key, path) or (key, origin, path).
derive(key, origin, path) ==
    IF key.form = "generated" THEN override_valid_network_kinds(DerivedFrom(key.key, origin, path), key.kinds)
    ELSE DerivedFrom(key, origin, path)

-----------------------------------------------------------------------------
(***************************************************************************)
(* What a fragment of a descriptor is made from: its public keys, in       *)
(* order, the secret keys by public key and the kinds of network that suit *)
(* it.                                                                     *)
(***************************************************************************)
NoKeys == [k \in {} |-> k]
\* KeyMap::extend: the entries of the other map win.
Extend(keymap, other) ==
    [k \in DOMAIN keymap \cup DOMAIN other |-> IF k \in DOMAIN other THEN other[k] ELSE keymap[k]]
Fragment(keys, keymap, kinds) == [keys |-> keys, keymap |-> keymap, kinds |-> kinds]

\* impl_leaf_opcode and its kin: an operator without keys (older, after, a hash).
Leaf == Fragment(<<>>, NoKeys, any_network_kind)

\* DescriptorKey::extract.
extract(descriptor_key) ==
    LET key == descriptor_key.key
    IN  Fragment(<<to_public(key)>>,
                 [k \in IF key.secret THEN {to_public(key)} ELSE {} |-> key], descriptor_key.kinds)

\* The first operand's keys, then the second's; both must suit the network.
Joined(a, b) ==
    Fragment(a.keys \o b.keys, Extend(a.keymap, b.keymap), intersect_network_kinds(a.kinds, b.kinds))
Join(fragments) == FoldLeft(Joined, Leaf, fragments)
expand_multi_keys(descriptor_keys) == Join([i \in DOMAIN descriptor_keys |-> extract(descriptor_keys[i])])
make_pk(descriptor_key) == extract(descriptor_key)
make_multi(descriptor_keys) == expand_multi_keys(descriptor_keys)
=============================================================================

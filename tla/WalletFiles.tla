----------------------------- MODULE WalletFiles -----------------------------
(***************************************************************************)
(* A wallet over its life: created from descriptors, closed and loaded     *)
(* again from its database, exported to a file and made again from it      *)
(* (Wallet::create_with_params and load_with_params in                     *)
(* src/src/wallet/mod.rs, params.rs, export.rs).  The transactions of the  *)
(* wallet are left out, and with them the height in a FullyNoded file.     *)
(***************************************************************************)
EXTENDS Descriptors

CONSTANTS
    Sources,      \* the descriptors callers have, in the forms they have them in
    Pairs,        \* the ones they use together, external and internal
    Networks,
    NetworkKind   \* [Networks -> {"main", "test"}]

ASSUME KindsAssumption == NetworkKind \in [Networks -> {"main", "test"}]

\* What callers have: descriptors of some type, with a key map or in a text, or what the
\* macros and templates make, from seeds, extended and generated keys.
IsDescriptor(d) == d = Descriptor(d.type, d.shape, d.k, d.keys) /\ d.type # "none"
IsKeyMap(m) == m = [k \in DOMAIN m |-> m[k]]
IsExtended(key) ==
    /\ key = ExtendedKey(key.id, key.at, key.network, key.secret)
    /\ key.at \in Seq([index : Nat, hardened : BOOLEAN])
    /\ key.network \in {"main", "test"} /\ key.secret \in BOOLEAN
IsDerivable(key) == key = Seed(key.id) \/ IsExtended(key)
IsKey(key) == IsDerivable(key) \/ (key = Generated(key.key, key.kinds) /\ IsDerivable(key.key))
IsSource(s) ==
    \/ s.form = "text" /\ IsDescriptor(s.desc)
    \/ s.form = "pair" /\ IsDescriptor(s.desc) /\ IsKeyMap(s.keymap)
    \/ s.form = "dsl" /\ IsDescriptor(s.out.desc)
    \/ s.form \in {"bip", "bip_public"} /\ s.bip \in {44, 49, 84, 86} /\ IsKey(s.key)
ASSUME SourcesAssumption ==
    /\ \A s \in Sources : IsSource(s)
    /\ \A p \in Pairs : IsSource(p[1]) /\ IsSource(p[2])

VARIABLES
    wallet,  \* the wallet that is open
    db,      \* what its database holds: a network and public descriptors
    file,    \* the last export
    made     \* how the wallet in the database was created

vars == <<wallet, db, file, made>>

Keychains == {"External", "Internal"}
NoDesc == Descriptor("none", "none", 0, <<>>)
Nothing == [network |-> "none"]
NoFile == [format |-> "none"]

-----------------------------------------------------------------------------
(***************************************************************************)
(* SignersContainer::build: one signer for each root fingerprint, or       *)
(* public key when it is a single one, which knows the kind of script and  *)
(* if its key is the internal key of a taproot output.                     *)
(***************************************************************************)
Signers(keymap, d) ==
    LET context(public) ==
            CASE is_taproot(d) -> IF d.keys[1] = public THEN "internal" ELSE "tap"
              [] is_witness(d) -> "segwit"
              [] OTHER -> "legacy"
        id(secret) == IF secret.type = "single" THEN Fingerprint(secret.id, <<>>) ELSE root_fingerprint(secret)
    IN  [i \in {id(keymap[p]) : p \in DOMAIN keymap} |->
            LET p == CHOOSE p \in DOMAIN keymap : id(keymap[p]) = i
            IN  [secret |-> keymap[p], context |-> context(p)]]

\* SignersContainer::as_key_map; the signer of a single key has lost its origin.
as_key_map(signers) ==
    LET secret(i) == IF signers[i].secret.type = "single" THEN [signers[i].secret EXCEPT !.origin = NoOrigin]
                     ELSE signers[i].secret
        secrets == {secret(i) : i \in DOMAIN signers}
    IN  [p \in {to_public(s) : s \in secrets} |-> CHOOSE s \in secrets : to_public(s) = p]

Wallet(network, external, internal, signers) ==
    [error |-> "", network |-> network, signers |-> signers,
     descriptors |-> [External |-> external, Internal |-> internal]]
map_keychain(w, keychain) == IF w.descriptors.Internal = NoDesc THEN "External" ELSE keychain
public_descriptor(w, keychain) == w.descriptors[map_keychain(w, keychain)]

(***************************************************************************)
(* create_with_params.  CreateParams: what to make the descriptors from,   *)
(* the network, and secret keys beside the ones in the descriptors.        *)
(***************************************************************************)
NotGiven == ToExtract([form |-> "none"], 0)
CreateParams(descriptor, change_descriptor, network) ==
    [network |-> network, External |-> descriptor, Internal |-> change_descriptor,
     keymap |-> [k \in Keychains |-> NoKeys]]
new_single(source, network) == CreateParams(ToExtract(source, 0), NotGiven, network)
new(source, change, network) == CreateParams(ToExtract(source, 0), ToExtract(change, 0), network)
new_two_path(source, network) == CreateParams(ToExtract(source, 1), ToExtract(source, 2), network)

\* A descriptor that passed its checks, with the keys given besides added to its own.
Absent == Ok(NoDesc, NoKeys)
Prepared(to_extract, kind, keymap) ==
    IF to_extract = NotGiven THEN Absent
    ELSE Then(Then(make_desc(to_extract, kind), check_wallet_descriptor),
              LAMBDA given : Ok(given.desc, Extend(given.keymap, keymap)))

\* The keychains must differ: the index of scripts (make_indexed_graph) has one place for
\* each descriptor.
Assembled(network, external, internal) ==
    IF internal.desc # NoDesc /\ descriptor_id(external.desc) = descriptor_id(internal.desc)
    THEN Err("ExternalAndInternalAreTheSame")
    ELSE Wallet(network, external.desc, internal.desc,
                [External |-> Signers(external.keymap, external.desc),
                 Internal |-> Signers(internal.keymap, internal.desc)])

create_with_params(params) ==
    Then(Prepared(params.External, NetworkKind[params.network], params.keymap.External), LAMBDA external :
        Then(Prepared(params.Internal, NetworkKind[params.network], params.keymap.Internal), LAMBDA internal :
            Assembled(params.network, external, internal)))

Stored(w) == [network |-> w.network, descriptor |-> w.descriptors.External, change_descriptor |-> w.descriptors.Internal]

(***************************************************************************)
(* load_with_params.  LoadParams: for each keychain no check, or that      *)
(* there is no descriptor, or that it is the one given; whether the secret *)
(* keys of the given descriptors are taken.                                *)
(***************************************************************************)
NoCheck == ToExtract([form |-> "unchecked"], 0)
LoadParams(external, internal, network, extract_keys) ==
    [External |-> external, Internal |-> internal, network |-> network, extract_keys |-> extract_keys,
     keymap |-> [k \in Keychains |-> NoKeys]]

\* A seeded bug: a descriptor that is expected is not looked at for its keys.
CheckedOnly(loaded, expected, kind, keymap, extract_keys) ==
    IF expected \in {NoCheck, NotGiven} THEN Ok(loaded, keymap)
    ELSE Then(make_desc(expected, kind), LAMBDA given :
            IF descriptor_id(loaded) = descriptor_id(given.desc) THEN Ok(loaded, keymap) ELSE Err("Mismatch"))

\* One keychain: what is loaded against what is expected.
Same(d, e) == IF NoDesc \in {d, e} THEN d = e ELSE descriptor_id(d) = descriptor_id(e)
Checked(loaded, expected, kind, keymap, extract_keys) ==
    IF expected = NoCheck THEN Ok(loaded, keymap)
    ELSE Then(IF expected = NotGiven THEN Absent ELSE make_desc(expected, kind), LAMBDA given :
            IF Same(loaded, given.desc)
            THEN Ok(loaded, IF extract_keys THEN Extend(keymap, given.keymap) ELSE keymap)
            ELSE Err("Mismatch"))

\* The secret keys of a keychain that the wallet does not have are dropped.
Loaded(d, expected, kind, keymap, extract_keys) ==
    Then(IF d = NoDesc THEN Absent ELSE check_wallet_descriptor(Ok(d, NoKeys)), LAMBDA sound :
        Then(Checked(d, expected, kind, keymap, extract_keys), LAMBDA checked :
            IF d = NoDesc THEN Absent ELSE checked))

load_with_params(stored, params) ==
    IF params.network \notin {"unchecked", stored.network} THEN Err("NetworkMismatch")
    ELSE Then(Loaded(stored.descriptor, params.External, NetworkKind[stored.network],
                     params.keymap.External, params.extract_keys), LAMBDA external :
            Then(Loaded(stored.change_descriptor, params.Internal, NetworkKind[stored.network],
                        params.keymap.Internal, params.extract_keys), LAMBDA internal :
                Assembled(stored.network, external, internal)))

\* wallet_name_from_descriptor; a checksum stands for its text.
wallet_name_from_descriptor(source, change, kind) ==
    <<into_wallet_descriptor(source, kind).desc, into_wallet_descriptor(change, kind).desc>>

-----------------------------------------------------------------------------
(***************************************************************************)
(* FullyNodedExport: the external descriptor with its secret keys.  The    *)
(* change descriptor is the same text with /1/* for every /0/*, so the     *)
(* wallet must have that one.                                              *)
(***************************************************************************)
WithSecret(w, keychain) ==
    LET keymap == as_key_map(w.signers[keychain])
    IN  WithKeys(public_descriptor(w, keychain), LAMBDA key : IF key \in DOMAIN keymap THEN keymap[key] ELSE key)

is_compatible_with_core(d) ==
    \/ d.type \in {"pkh", "wpkh", "sh_wpkh", "tr"}
    \/ d.type \in {"sh", "wsh", "sh_wsh"} /\ d.shape \in {"multi", "sortedmulti"}

EndsInZero(key) == key.wildcard = "normal" /\ key.paths[1] # <<>> /\ Last(key.paths[1]) = Soft(0)

change_descriptor(d) ==
    LET replaced == WithKeys(d, LAMBDA key : IF EndsInZero(key) THEN [key EXCEPT !.paths[1] = Append(Front(@), Soft(1))]
                                             ELSE key)
    IN  IF replaced = d THEN NoDesc ELSE replaced

\* A seeded bug: the change descriptor of the wallet is not looked at.
FullyNodedUnchecked(w) ==
    {[format |-> "FullyNoded", descriptor |-> d, of |-> w] :
        d \in {e \in {WithSecret(w, "External")} : is_compatible_with_core(e) /\ change_descriptor(e) # NoDesc}}

\* What the wallet is exported to, {} if it cannot be.
FullyNoded(w) ==
    LET d == WithSecret(w, "External")
    IN  IF is_compatible_with_core(d) /\ change_descriptor(d) = WithSecret(w, "Internal")
        THEN {[format |-> "FullyNoded", descriptor |-> d, of |-> w]}
        ELSE {}

(***************************************************************************)
(* CaravanExport: the public keys of a multisig wallet, each with the path *)
(* down to its keychains.                                                  *)
(***************************************************************************)
CaravanKey(key) ==
    [bip32_path |-> key.origin.path \o IF key.paths[1] = <<>> THEN <<>> ELSE Front(key.paths[1]),
     xpub |-> ExtendedKey(key.id, key.at, key.network, FALSE), xfp |-> key.origin.fingerprint]
Caravan(w) ==
    LET d == w.descriptors.External
    IN  IF /\ d.type \in {"sh", "wsh", "sh_wsh"} /\ d.shape = "sortedmulti"
           /\ \A i \in DOMAIN d.keys : d.keys[i].type = "xkey" /\ d.keys[i].origin # NoOrigin
        THEN {[format |-> "Caravan", address_type |-> d.type, network |-> NetworkKind[w.network],
               required_signers |-> d.k, keys |-> [i \in DOMAIN d.keys |-> CaravanKey(d.keys[i])], of |-> w]}
        ELSE {}

to_descriptors(export) ==
    [keychain \in Keychains |->
        Descriptor(export.address_type, "sortedmulti", export.required_signers,
                   [i \in DOMAIN export.keys |->
                       XKey(export.keys[i].xpub, Origin(export.keys[i].xfp, export.keys[i].bip32_path),
                            <<KeychainStep(keychain)>>)])]

-----------------------------------------------------------------------------
Init == wallet = Nothing /\ db = Nothing /\ file = NoFile /\ made = Nothing

\* PersistedWallet::create in a new database.
Created(params) ==
    LET created == create_with_params(params)
    IN  /\ wallet = Nothing
        /\ created.error = ""
        /\ wallet' = created
        /\ db' = Stored(created)
        /\ made' = params
        /\ UNCHANGED file

create_single(source, network) == db = Nothing /\ Created(new_single(source, network))
create(source, change, network) == db = Nothing /\ Created(new(source, change, network))
create_from_two_path_descriptor(source, network) == db = Nothing /\ Created(new_two_path(source, network))

\* The wallet is dropped; its database stays.
close ==
    /\ wallet # Nothing
    /\ wallet' = Nothing
    /\ UNCHANGED <<db, file, made>>

load(params) ==
    LET loaded == load_with_params(db, params)
    IN  /\ wallet = Nothing /\ db # Nothing
        /\ loaded.error = ""
        /\ wallet' = loaded
        /\ UNCHANGED <<db, file, made>>

export_fully_noded ==
    /\ wallet # Nothing
    /\ file' \in FullyNoded(wallet)
    /\ UNCHANGED <<wallet, db, made>>

export_caravan ==
    /\ wallet # Nothing
    /\ file' \in Caravan(wallet)
    /\ UNCHANGED <<wallet, db, made>>

\* A wallet made from a file, in a database of its own.
FromFullyNoded(export, network) ==
    new(Text(export.descriptor, "none"), Text(change_descriptor(export.descriptor), "none"), network)
FromCaravan(export, network) ==
    new(Text(to_descriptors(export).External, "right"), Text(to_descriptors(export).Internal, "right"), network)
import_file(network) ==
    \/ file.format = "FullyNoded" /\ Created(FromFullyNoded(file, network))
    \/ file.format = "Caravan" /\ Created(FromCaravan(file, network))

\* What a caller may expect of a keychain: a descriptor, none, or whatever there is.
Expectations == {NoCheck, NotGiven} \cup {ToExtract(s, 0) : s \in Sources}
ExpectedWith(e) ==
    {NoCheck, NotGiven} \cup {ToExtract(p[2], 0) : p \in {q \in Pairs : e \in {NoCheck, ToExtract(q[1], 0)}}}
TwoPaths == {s \in Sources : s.form = "text" /\ is_multipath(s.desc)}

Next ==
    \/ \E network \in Networks :
        \/ \E s \in Sources : create_single(s, network)
        \/ \E p \in Pairs : create(p[1], p[2], network)
        \/ \E s \in Sources : create_from_two_path_descriptor(s, network)
        \/ import_file(network)
    \/ close
    \/ \E extract_keys \in BOOLEAN, network \in {"unchecked"} \cup Networks :
        \/ \E e \in Expectations : \E i \in ExpectedWith(e) : load(LoadParams(e, i, network, extract_keys))
        \/ \E s \in TwoPaths : load(LoadParams(ToExtract(s, 1), ToExtract(s, 2), network, extract_keys))
    \/ export_fully_noded
    \/ export_caravan

Spec == Init /\ [][Next]_vars

-----------------------------------------------------------------------------
Open == wallet # Nothing
KeysOf(d) == {d.keys[i] : i \in DOMAIN d.keys}
DescriptorsOf(w) == {w.descriptors[k] : k \in Keychains} \ {NoDesc}

\* A database can always be opened again with what the wallet was created from, and the
\* wallet is then what it was, signers and their contexts included: with the secret keys
\* extracted from the expected descriptors, or given beside (LoadParams::keymap).
ReopensAsCreated ==
    db # Nothing =>
        LET kind == NetworkKind[db.network]
            keymap(to_extract) == IF to_extract = NotGiven THEN NoKeys ELSE make_desc(to_extract, kind).keymap
            given == [LoadParams(NoCheck, NoCheck, "unchecked", FALSE) EXCEPT
                         !.keymap = [k \in Keychains |-> keymap(made[k])]]
        IN  /\ load_with_params(db, LoadParams(made.External, made.Internal, made.network, TRUE)) = create_with_params(made)
            /\ load_with_params(db, given) = create_with_params(made)

\* The template of a BIP gives the same wallet from the secret master key and from the
\* account's public key and the master's fingerprint: the same descriptors, origins
\* included, so that the watch-only copy opens the database and has the same name.
TemplatesAgree ==
    (db # Nothing /\ made.External.source.form = "bip" /\ made.Internal.source.form = "bip") =>
        LET kind == NetworkKind[db.network]
            coin == IF kind = "main" THEN 2 ELSE 1
            public(source) ==
                LET master == into_extended_key(source.key)
                IN  BipPublic(source.bip,
                              ExtendedKey(master.id, master.at \o <<Hard(source.bip), Hard(coin), Hard(0)>>, kind, FALSE),
                              Fingerprint(master.id, master.at), source.keychain)
            e == made.External.source
            i == made.Internal.source
        IN  /\ create_with_params(new(public(e), public(i), db.network)).descriptors =
                  [External |-> db.descriptor, Internal |-> db.change_descriptor]
            /\ wallet_name_from_descriptor(public(e), public(i), kind) = wallet_name_from_descriptor(e, i, kind)

\* A wallet made from an export is the wallet that was exported (FullyNodedExport,
\* CaravanExport).  From a FullyNoded file: both descriptors, and the signers of their
\* keys, except a single key that has an origin: its signer forgets the origin, so the
\* export does not find the key.  From a Caravan file, which has no secrets: the external
\* descriptor exactly when its keys end in /0/* and nothing else stands between that and
\* their origin; the internal one is then the same with /1/*.
Exported(w, keychain) ==
    {i \in DOMAIN w.signers[keychain] :
        LET secret == w.signers[keychain][i].secret
        IN  to_public(secret) \in KeysOf(w.descriptors[keychain]) /\ (secret.type = "single" => secret.origin = NoOrigin)}
ForCaravan(key) == key.wildcard = "normal" /\ key.paths[1] = <<Soft(0)>>
ExportRestores ==
    /\ file.format = "FullyNoded" =>
        LET restored == create_with_params(FromFullyNoded(file, file.of.network))
        IN  /\ restored.error = ""
            /\ restored.descriptors = file.of.descriptors
            /\ \A k \in Keychains : restored.signers[k] = [i \in Exported(file.of, k) |-> file.of.signers[k][i]]
    /\ file.format = "Caravan" =>
        LET restored == create_with_params(FromCaravan(file, file.of.network))
            d == file.of.descriptors.External
        IN  /\ restored.error = ""
            /\ restored.descriptors.External = d <=> \A key \in KeysOf(d) : ForCaravan(key)
            /\ restored.descriptors.External = d => restored.descriptors.Internal = change_descriptor(d)

\* What the wallet writes into an input of index n.  There is one origin for each
\* fingerprint, that of whichever key comes last.
Entry(key, n) ==
    [fingerprint |-> root_fingerprint(key), key |-> PublicKeyAt(key, n),
     path |-> key.origin.path \o key.paths[1] \o IF key.wildcard = "none" THEN <<>> ELSE <<Soft(n)>>]
KeyOrigins(d, n) ==
    LET entries == {Entry(key, n) : key \in KeysOf(d)}
    IN  {f \in [{e.fingerprint : e \in entries} -> entries] : \A p \in DOMAIN f : f[p].fingerprint = p}
InputsOf(d, n) ==
    {PsbtInput(origins, ScriptAt(d, n),
               IF d.type = "sh" THEN explicit_script(d, n) ELSE NoScript,
               IF d.type \in {"wsh", "sh_wsh"} THEN explicit_script(d, n) ELSE NoScript) : origins \in KeyOrigins(d, n)}

\* A fixed extended key beside one with a wildcard leads to index 0, and so may a fixed key
\* whose origin takes the place of another's.
FixedKey(key) == key.wildcard = "none"
LeadToOneIndex(d) ==
    has_wildcard(d) =>
        \A f \in {key \in KeysOf(d) : FixedKey(key)} :
            /\ f.type = "single"
            /\ \A key \in KeysOf(d) : ~FixedKey(key) => root_fingerprint(key) # root_fingerprint(f)

\* A descriptor of the wallet finds its own inputs at their index, also when keys of one
\* root overwrite each other's origins, unless it mixes keys that lead to different indices;
\* it finds an input of any descriptor, even one with the same origins, only at an index
\* where a key of its own is one of the keys of that input.
InputsRecognised ==
    Open => \A d \in DescriptorsOf(wallet), n \in 0..1 :
        /\ LeadToOneIndex(d) =>
              \A input \in InputsOf(d, n) : derive_from_psbt_input(d, input) = {IF has_wildcard(d) THEN n ELSE 0}
        /\ \A s \in Sources :
              LET other == into_wallet_descriptor(s, NetworkKind[wallet.network])
              IN  (other.error = "" /\ ~is_multipath(other.desc)) =>
                    \A input \in InputsOf(other.desc, n) : \A found \in derive_from_psbt_input(d, input) :
                        \E mine \in KeysOf(d), theirs \in KeysOf(other.desc) :
                            PublicKeyAt(mine, found) = PublicKeyAt(theirs, n)
=============================================================================

-------------------------- MODULE WalletFiles_proofs --------------------------
(***************************************************************************)
(* Proofs about WalletFiles, for all descriptors, networks and forms a     *)
(* caller may give them in: a database opens again as the wallet it was    *)
(* created as, and a template gives the same wallet from the secret and    *)
(* from the public key.                                                    *)
(***************************************************************************)
EXTENDS WalletFiles, SequenceTheorems, TLAPS

\* What create and load take for a keychain: a source, or one of its two paths.
IsGiven(e) == e = ToExtract(e.source, e.which) /\ IsSource(e.source) /\ e.which \in {0, 1, 2}

\* An answer that is a descriptor and its keys.
IsOk(answer) ==
    /\ answer = Ok(answer.desc, answer.keymap)
    /\ IsDescriptor(answer.desc) /\ IsKeyMap(answer.keymap)

-----------------------------------------------------------------------------
(***************************************************************************)
(* What the forms of a descriptor are turned into.                         *)
(***************************************************************************)
\* Answers.
LEMMA OkIs ==
    ASSUME NEW x, NEW d, NEW m, x = Ok(d, m)
    PROVE  /\ x.error = "" /\ x.desc = d /\ x.keymap = m
           /\ IsDescriptor(d) /\ IsKeyMap(m) => IsOk(x)
BY DEF Ok, IsOk
\* The fields of an answer.
LEMMA OkParts == \A d, m : Ok(d, m).error = "" /\ Ok(d, m).desc = d /\ Ok(d, m).keymap = m
BY DEF Ok
\* The answer for a keychain that is not there.
LEMMA AbsentIs == Absent.error = "" /\ Absent.desc = NoDesc /\ Absent.keymap = NoKeys
BY DEF Absent, Ok
\* No descriptor is the mark for none.
LEMMA NoDescIs == \A d : IsDescriptor(d) => d # NoDesc
<1>1. NoDesc.type = "none"
    BY DEF NoDesc, Descriptor
<1> QED BY <1>1, Zenon DEF IsDescriptor
\* An error is one.
LEMMA ErrIs ==
    /\ Err("InvalidDescriptorChecksum").error # "" /\ Err("InvalidNetworkKind").error # ""
    /\ Err("Miniscript").error # "" /\ Err("MultiPath").error # ""
    /\ Err("HardenedDerivationXpub").error # ""
BY DEF Err

\* Changing the keys of a descriptor leaves one.
LEMMA NewKeys ==
    ASSUME NEW d, IsDescriptor(d), NEW keys
    PROVE  /\ [d EXCEPT !.keys = keys] = Descriptor(d.type, d.shape, d.k, keys)
           /\ IsDescriptor([d EXCEPT !.keys = keys])
<1>1. [d EXCEPT !.keys = keys] = Descriptor(d.type, d.shape, d.k, keys)
    BY DEF IsDescriptor, Descriptor
<1>2. IsDescriptor(Descriptor(d.type, d.shape, d.k, keys))
    BY DEF IsDescriptor, Descriptor
<1> QED BY <1>1, <1>2, Zenon
\* The same, key by key.
LEMMA WithKeysIs ==
    ASSUME NEW d, IsDescriptor(d), NEW Of(_)
    PROVE  /\ WithKeys(d, Of) = Descriptor(d.type, d.shape, d.k, [i \in DOMAIN d.keys |-> Of(d.keys[i])])
           /\ IsDescriptor(WithKeys(d, Of))
BY DEF IsDescriptor, WithKeys, Descriptor

\* Of a text.
LEMMA ParsedIs ==
    ASSUME NEW d, IsDescriptor(d), Parsed(d).error = ""
    PROVE  IsOk(Parsed(d))
<1> DEFINE secrets == {d.keys[i] : i \in {j \in DOMAIN d.keys : d.keys[j].secret}}
           map == [k \in {to_public(s) : s \in secrets} |-> CHOOSE s \in secrets : to_public(s) = k]
<1>1. Parsed(d) = Ok(WithKeys(d, to_public), map)
    BY DEF Parsed, Err
<1>2. IsKeyMap(map)
    BY DEF IsKeyMap
<1>3. IsDescriptor(WithKeys(d, to_public))
    BY WithKeysIs
<1> HIDE DEF map
<1> QED BY <1>1, <1>2, <1>3, OkIs, Zenon

\* Of macros and templates.
LEMMA FixNetworkIs ==
    ASSUME NEW out, NEW kind, IsDescriptor(out.desc), FixNetwork(out, kind).error = ""
    PROVE  IsOk(FixNetwork(out, kind))
<1> DEFINE fixed(key) == IF key.network = "any" THEN key ELSE [key EXCEPT !.network = kind]
           map == [p \in {fixed(k) : k \in DOMAIN out.keymap} |->
                    fixed(out.keymap[CHOOSE k \in DOMAIN out.keymap : fixed(k) = p])]
<1>1. FixNetwork(out, kind) = Ok(WithKeys(out.desc, fixed), map)
    BY DEF FixNetwork, Err
<1>2. IsKeyMap(map)
    <2> DEFINE F(p) == fixed(out.keymap[CHOOSE k \in DOMAIN out.keymap : fixed(k) = p])
               D == {fixed(k) : k \in DOMAIN out.keymap}
    <2>1. map = [p \in D |-> F(p)]
        OBVIOUS
    <2> HIDE DEF F, D, map
    <2> QED BY <2>1 DEF IsKeyMap
<1>3. IsDescriptor(WithKeys(out.desc, fixed))
    BY WithKeysIs
<1> HIDE DEF map, fixed
<1> QED BY <1>1, <1>2, <1>3, OkIs, Zenon

\* A template has a descriptor.
LEMMA BuildIs ==
    ASSUME NEW source, NEW kind, IsSource(source), source.form \notin {"text", "pair"}
    PROVE  IsDescriptor(build(source, kind).desc)
<1>1. CASE source.form = "dsl"
    BY <1>1 DEF IsSource, build
<1>2. ASSUME NEW type \in {"pkh", "sh_wpkh", "wpkh", "tr"}, NEW key
      PROVE  IsDescriptor(impl_top_level_pk(type, key).desc)
    BY DEF impl_top_level_pk, TemplateOut, IsDescriptor, Descriptor
<1>3. CASE source.form = "bip"
    <2>1. source.bip \in {44, 49, 84, 86}
        BY <1>3 DEF IsSource
    <2> QED BY <1>2, <1>3, <2>1 DEF build, Bip44, Bip49, Bip84, Bip86, P2Pkh, P2Wpkh_P2Sh, P2Wpkh, P2TR
<1>4. CASE source.form = "bip_public"
    <2>1. source.bip \in {44, 49, 84, 86}
        BY <1>4 DEF IsSource
    <2> QED BY <1>2, <1>4, <2>1 DEF build, Bip44Public, Bip49Public, Bip84Public, Bip86Public,
                                    P2Pkh, P2Wpkh_P2Sh, P2Wpkh, P2TR
<1> QED BY <1>1, <1>3, <1>4 DEF IsSource

\* Whatever a caller gives becomes a descriptor and its keys, or an error.
LEMMA IntoIs ==
    ASSUME NEW source, NEW kind, IsSource(source), into_wallet_descriptor(source, kind).error = ""
    PROVE  IsOk(into_wallet_descriptor(source, kind))
<1>1. CASE source.form = "text"
    <2>1. /\ IsDescriptor(source.desc)
          /\ into_wallet_descriptor(source, kind) =
                IF source.checksum = "wrong" THEN Err("InvalidDescriptorChecksum")
                ELSE IF Parsed(source.desc).error = "" THEN ForNetwork(Parsed(source.desc), kind)
                ELSE Parsed(source.desc)
        BY <1>1 DEF IsSource, into_wallet_descriptor, Then
    <2>2. Parsed(source.desc).error = "" /\ into_wallet_descriptor(source, kind) = Parsed(source.desc)
        <3>1. ForNetwork(Parsed(source.desc), kind) \in {Parsed(source.desc), Err("InvalidNetworkKind")}
            BY DEF ForNetwork
        <3> QED BY <2>1, <3>1, ErrIs, Zenon
    <2> QED BY <2>1, <2>2, ParsedIs
<1>2. CASE source.form = "pair"
    <2>1. IsDescriptor(source.desc) /\ IsKeyMap(source.keymap)
        BY <1>2 DEF IsSource
    <2>2. into_wallet_descriptor(source, kind) = Ok(source.desc, source.keymap)
        <3>1. into_wallet_descriptor(source, kind) = ForNetwork(Ok(source.desc, source.keymap), kind)
            BY <1>2 DEF into_wallet_descriptor
        <3>2. ForNetwork(Ok(source.desc, source.keymap), kind)
                \in {Ok(source.desc, source.keymap), Err("InvalidNetworkKind")}
            BY DEF ForNetwork
        <3> QED BY <3>1, <3>2, ErrIs, Zenon
    <2> QED BY <2>1, <2>2, OkIs, Zenon
<1>3. CASE source.form \notin {"text", "pair"}
    <2>1. into_wallet_descriptor(source, kind) = FixNetwork(build(source, kind), kind)
        BY <1>3 DEF into_wallet_descriptor
    <2> QED BY <1>3, <2>1, BuildIs, FixNetworkIs
<1> QED BY <1>1, <1>2, <1>3

\* The same, of one of its paths.
LEMMA MakeDescIs ==
    ASSUME NEW e, NEW kind, IsGiven(e), make_desc(e, kind).error = ""
    PROVE  IsOk(make_desc(e, kind))
<1> DEFINE given == into_wallet_descriptor(e.source, kind)
<1>1. make_desc(e, kind) = IF given.error = "" THEN SinglePath(given, e.which) ELSE given
    BY DEF make_desc, Then
<1>2. given.error = "" /\ make_desc(e, kind) = SinglePath(given, e.which)
    BY <1>1
<1>3. IsOk(given)
    BY <1>2, IntoIs DEF IsGiven
<1> HIDE DEF given
<1> DEFINE d == [given.desc EXCEPT !.keys = [i \in DOMAIN @ |-> OnePath(e.which, @[i])]]
<1>4. SinglePath(given, e.which) \in {given, Ok(d, given.keymap), Err("MultiPath")}
    <2>1. SinglePath(given, e.which) =
            IF e.which = 0 THEN given
            ELSE IF HasTwoPaths(given.desc) THEN Ok(d, given.keymap) ELSE Err("MultiPath")
        BY Zenon DEF SinglePath, WithKeys
    <2> HIDE DEF d
    <2> QED BY <2>1, Zenon
<1>5. IsDescriptor(d)
    BY <1>3, NewKeys, Zenon DEF IsOk
<1> HIDE DEF d
<1>6. IsKeyMap(given.keymap)
    BY <1>3 DEF IsOk
<1> QED BY <1>2, <1>3, <1>4, <1>5, <1>6, OkIs, ErrIs, Zenon

-----------------------------------------------------------------------------
(***************************************************************************)
(* Creating and loading.                                                   *)
(***************************************************************************)
\* Keys given beside: none.
LEMMA ExtendNone ==
    ASSUME NEW m
    PROVE  Extend(NoKeys, m) = Extend(m, NoKeys) /\ (IsKeyMap(m) => Extend(m, NoKeys) = m)
<1>1. DOMAIN NoKeys = {}
    BY DEF NoKeys
<1>2. Extend(NoKeys, m) = [k \in DOMAIN m |-> m[k]]
    BY <1>1 DEF Extend
<1>3. Extend(m, NoKeys) = [k \in DOMAIN m |-> m[k]]
    BY <1>1 DEF Extend
<1> QED BY <1>2, <1>3 DEF IsKeyMap

\* The checks of a descriptor look at nothing else.
LEMMA CheckIs ==
    ASSUME NEW given, check_wallet_descriptor(given).error = ""
    PROVE  /\ given.error = "" => check_wallet_descriptor(given) = given
           /\ \A m : check_wallet_descriptor(Ok(given.desc, m)) = Ok(given.desc, m)
<1> DEFINE Bad1(d) == \E i \in DOMAIN d.keys : HasHardenedSteps(d.keys[i])
           Bad2(d) == is_multipath(d) \/ ~IsInjective(d.keys)
<1>1. \A x : check_wallet_descriptor(x) =
                IF Bad1(x.desc) THEN Err("HardenedDerivationXpub")
                ELSE IF Bad2(x.desc) THEN Err("Miniscript") ELSE x
    BY Zenon DEF check_wallet_descriptor
<1> HIDE DEF Bad1, Bad2
<1>2. ~Bad1(given.desc) /\ ~Bad2(given.desc)
    BY <1>1, ErrIs, Zenon
<1>3. check_wallet_descriptor(given) = given
    BY <1>1, <1>2, Zenon
<1>4. ASSUME NEW m PROVE check_wallet_descriptor(Ok(given.desc, m)) = Ok(given.desc, m)
    <2>1. Ok(given.desc, m).desc = given.desc
        BY OkIs, Zenon
    <2> QED BY <1>1, <1>2, <2>1, Zenon
<1> QED BY <1>3, <1>4, Zenon

\* The same or none, and the secret keys in it.
IsParam(e) == IsGiven(e) \/ e = NotGiven
KeysGiven(e, kind) == IF e = NotGiven THEN NoKeys ELSE make_desc(e, kind).keymap

\* What a caller gives is none of the two marks.
LEMMA GivenMarks ==
    ASSUME NEW e, IsGiven(e)
    PROVE  e # NotGiven /\ e # NoCheck
<1>1. e.source.form \in {"text", "pair", "dsl", "bip", "bip_public"}
    BY DEF IsGiven, IsSource
<1>2. NotGiven.source.form = "none" /\ NoCheck.source.form = "unchecked"
    BY DEF NotGiven, NoCheck, ToExtract
<1> QED BY <1>1, <1>2
\* The two marks differ.
LEMMA NotGivenIs == NotGiven # NoCheck
BY DEF NotGiven, NoCheck, ToExtract

\* A keychain that was created.
LEMMA PreparedIs ==
    ASSUME NEW e, NEW kind, IsParam(e), Prepared(e, kind, NoKeys).error = ""
    PROVE  LET p == Prepared(e, kind, NoKeys)
           IN  /\ p = Ok(p.desc, KeysGiven(e, kind))
               /\ e = NotGiven => p = Absent /\ p.desc = NoDesc
               /\ IsGiven(e) => /\ IsOk(make_desc(e, kind)) /\ make_desc(e, kind).error = ""
                                /\ p.desc = make_desc(e, kind).desc
                                /\ IsDescriptor(p.desc)
                                /\ check_wallet_descriptor(Ok(p.desc, NoKeys)) = Ok(p.desc, NoKeys)
<1> DEFINE p == Prepared(e, kind, NoKeys)
           m == make_desc(e, kind)
           c == check_wallet_descriptor(m)
<1>1. CASE e = NotGiven
    <2>1. p = Ok(NoDesc, NoKeys) /\ ~IsGiven(e)
        BY <1>1, GivenMarks DEF Prepared, Absent
    <2> QED BY <1>1, <2>1, OkIs, Zenon DEF Absent, KeysGiven
<1>2. CASE IsGiven(e)
    <2>0. e # NotGiven
        BY <1>2, GivenMarks
    <2>1. p = IF (IF m.error = "" THEN c ELSE m).error = ""
              THEN Ok((IF m.error = "" THEN c ELSE m).desc, Extend((IF m.error = "" THEN c ELSE m).keymap, NoKeys))
              ELSE (IF m.error = "" THEN c ELSE m)
        BY <2>0, Zenon DEF Prepared, Then
    <2>2. m.error = "" /\ c.error = ""
        BY <2>1
    <2> HIDE DEF p, m, c
    <2>3. IsOk(m)
        BY <1>2, <2>2, MakeDescIs DEF m
    <2>4. c = m /\ check_wallet_descriptor(Ok(m.desc, NoKeys)) = Ok(m.desc, NoKeys)
        BY <2>2, CheckIs, Zenon DEF c
    <2>5. p = Ok(m.desc, Extend(m.keymap, NoKeys))
        BY <2>1, <2>2, <2>4, Zenon
    <2>6. IsDescriptor(m.desc) /\ Extend(m.keymap, NoKeys) = m.keymap
        BY <2>3, ExtendNone, Zenon DEF IsOk
    <2>7. p.desc = m.desc /\ p = Ok(p.desc, m.keymap) /\ KeysGiven(e, kind) = m.keymap
        BY <2>0, <2>5, <2>6, OkIs, Zenon DEF KeysGiven, m
    <2> QED BY <2>0, <2>2, <2>3, <2>4, <2>6, <2>7, Zenon DEF m, p
<1> QED BY <1>1, <1>2 DEF IsParam

\* What was created is loaded again, by what it was created from and without a check
\* with its keys beside.
LEMMA LoadedIs ==
    ASSUME NEW e, NEW kind, IsParam(e), Prepared(e, kind, NoKeys).error = ""
    PROVE  LET p == Prepared(e, kind, NoKeys)
           IN  /\ Loaded(p.desc, e, kind, NoKeys, TRUE) = p
               /\ Loaded(p.desc, NoCheck, kind, KeysGiven(e, kind), FALSE) = p
<1> DEFINE p == Prepared(e, kind, NoKeys)
           d == p.desc
           sound == IF d = NoDesc THEN Absent ELSE check_wallet_descriptor(Ok(d, NoKeys))
           first == Checked(d, e, kind, NoKeys, TRUE)
           second == Checked(d, NoCheck, kind, KeysGiven(e, kind), FALSE)
<1>1. \A x, keys, extract_keys : Loaded(d, x, kind, keys, extract_keys) =
        IF sound.error = ""
        THEN IF Checked(d, x, kind, keys, extract_keys).error = ""
             THEN IF d = NoDesc THEN Absent ELSE Checked(d, x, kind, keys, extract_keys)
             ELSE Checked(d, x, kind, keys, extract_keys)
        ELSE sound
    BY Zenon DEF Loaded, Then
<1>2. second = Ok(d, KeysGiven(e, kind))
    BY Zenon DEF Checked
<1>3. p = Ok(d, KeysGiven(e, kind))
    BY PreparedIs, Zenon
<1>4. CASE e = NotGiven
    <2>1. d = NoDesc /\ p = Absent
        BY <1>4, PreparedIs, Zenon
    <2>2. sound.error = "" /\ second.error = ""
        <3>1. sound = Absent
            BY <2>1, Zenon
        <3> HIDE DEF sound, second
        <3> QED BY <1>2, <3>1, AbsentIs, OkParts, Zenon
    <2>3. first = Ok(d, Extend(NoKeys, NoKeys))
        <3>2. Same(NoDesc, NoDesc)
            BY DEF Same
        <3>3. first = IF Absent.error = ""
                      THEN IF Same(d, Absent.desc) THEN Ok(d, Extend(NoKeys, Absent.keymap)) ELSE Err("Mismatch")
                      ELSE Absent
            BY <1>4, NotGivenIs, Zenon DEF Checked, Then
        <3> HIDE DEF d, first
        <3> QED BY <2>1, <3>2, <3>3, AbsentIs, Zenon
    <2>4. first.error = ""
        <3> HIDE DEF first
        <3> QED BY <2>3, OkParts, Zenon
    <2> HIDE DEF p, d, sound, first, second
    <2> QED BY <1>1, <2>1, <2>2, <2>4, Zenon DEF p, d, first, second
<1>5. CASE IsGiven(e)
    <2> DEFINE m == make_desc(e, kind)
    <2>0. e # NotGiven /\ e # NoCheck
        BY <1>5, GivenMarks
    <2>1. /\ m.error = "" /\ d = m.desc /\ IsDescriptor(d) /\ IsOk(m)
          /\ check_wallet_descriptor(Ok(d, NoKeys)) = Ok(d, NoKeys)
        BY <1>5, PreparedIs, Zenon
    <2>2. d # NoDesc
        BY <2>1, NoDescIs, Zenon
    <2>3. sound.error = "" /\ second.error = ""
        <3>1. sound = Ok(d, NoKeys)
            BY <2>1, <2>2, Zenon
        <3> HIDE DEF sound, second
        <3> QED BY <1>2, <3>1, OkParts, Zenon
    <2>4. Same(d, d)
        BY DEF Same
    <2>5. first = Ok(d, Extend(NoKeys, m.keymap))
        <3>1. first = IF m.error = ""
                      THEN IF Same(d, m.desc) THEN Ok(d, Extend(NoKeys, m.keymap)) ELSE Err("Mismatch")
                      ELSE m
            BY <2>0, Zenon DEF Checked, Then
        <3> HIDE DEF d, first, m
        <3> QED BY <2>1, <2>4, <3>1, Zenon
    <2>6. Extend(NoKeys, m.keymap) = KeysGiven(e, kind)
        BY <2>0, <2>1, ExtendNone, Zenon DEF KeysGiven, IsOk
    <2>7. first = p /\ second = p /\ first.error = ""
        BY <1>2, <1>3, <2>5, <2>6, OkIs, Zenon
    <2> HIDE DEF p, d, sound, first, second
    <2> QED BY <1>1, <2>2, <2>3, <2>7, Zenon DEF p, d, first, second
<1> QED BY <1>4, <1>5, Zenon DEF IsParam

-----------------------------------------------------------------------------
(***************************************************************************)
(* The wallet, its database and its files.                                 *)
(***************************************************************************)
\* How a wallet was created: from descriptors alone, without an error.
MadeSound(params) ==
    /\ params.network \in Networks
    /\ params.keymap = [k \in Keychains |-> NoKeys]
    /\ IsGiven(params.External) /\ IsParam(params.Internal)
    /\ create_with_params(params).error = ""

\* A file leads to descriptors.
FileSound(f) ==
    /\ f.format = "FullyNoded" => IsDescriptor(f.descriptor) /\ IsDescriptor(change_descriptor(f.descriptor))
    /\ f.format = "Caravan" => f.address_type # "none"

\* A wallet has an external descriptor, and perhaps an internal one.
WalletSound(w) ==
    /\ IsDescriptor(w.descriptors.External)
    /\ w.descriptors.Internal = NoDesc \/ IsDescriptor(w.descriptors.Internal)

FilesInv ==
    /\ db # Nothing => MadeSound(made) /\ db = Stored(create_with_params(made))
    /\ wallet # Nothing => WalletSound(wallet)
    /\ FileSound(file)

\* The wallet that creation without an error gives.
LEMMA CreatedIs ==
    ASSUME NEW params, MadeSound(params)
    PROVE  LET kind == NetworkKind[params.network]
               e == Prepared(params.External, kind, NoKeys)
               i == Prepared(params.Internal, kind, NoKeys)
               w == create_with_params(params)
           IN  /\ e.error = "" /\ i.error = ""
               /\ w = Assembled(params.network, e, i)
               /\ Stored(w) = [network |-> params.network, descriptor |-> e.desc, change_descriptor |-> i.desc]
               /\ w.descriptors = [External |-> e.desc, Internal |-> i.desc]
               /\ w.network = params.network
<1> DEFINE kind == NetworkKind[params.network]
           e == Prepared(params.External, kind, NoKeys)
           i == Prepared(params.Internal, kind, NoKeys)
           w == create_with_params(params)
<1>0. params.keymap.External = NoKeys /\ params.keymap.Internal = NoKeys
    BY DEF MadeSound, Keychains
<1>1. w = IF e.error = "" THEN IF i.error = "" THEN Assembled(params.network, e, i) ELSE i ELSE e
    BY <1>0, Zenon DEF create_with_params, Then
<1>2. w.error = ""
    BY DEF MadeSound
<1> HIDE DEF e, i, w
<1>3. e.error = "" /\ i.error = "" /\ w = Assembled(params.network, e, i)
    BY <1>1, <1>2
<1> DEFINE signers == [External |-> Signers(e.keymap, e.desc), Internal |-> Signers(i.keymap, i.desc)]
<1>4. Err("ExternalAndInternalAreTheSame").error # ""
    BY DEF Err
<1>5. w = Wallet(params.network, e.desc, i.desc, signers)
    <2>1. \/ Assembled(params.network, e, i) = Err("ExternalAndInternalAreTheSame")
          \/ Assembled(params.network, e, i) = Wallet(params.network, e.desc, i.desc, signers)
        BY Zenon DEF Assembled
    <2> QED BY <1>2, <1>3, <1>4, <2>1, Zenon
<1> HIDE DEF signers
<1>6. /\ w.network = params.network
      /\ w.descriptors = [External |-> e.desc, Internal |-> i.desc]
    BY <1>5 DEF Wallet
<1>7. Stored(w) = [network |-> params.network, descriptor |-> e.desc, change_descriptor |-> i.desc]
    BY <1>6 DEF Stored
<1> QED BY <1>3, <1>6, <1>7, Zenon DEF e, i, w

\* It is loaded again if each of its keychains is.
LEMMA LoadIs ==
    ASSUME NEW params, MadeSound(params), NEW lp, lp.network \in {"unchecked", params.network},
           LET kind == NetworkKind[params.network]
               e == Prepared(params.External, kind, NoKeys)
               i == Prepared(params.Internal, kind, NoKeys)
           IN  /\ Loaded(e.desc, lp.External, kind, lp.keymap.External, lp.extract_keys) = e
               /\ Loaded(i.desc, lp.Internal, kind, lp.keymap.Internal, lp.extract_keys) = i
    PROVE  load_with_params(Stored(create_with_params(params)), lp) = create_with_params(params)
<1> DEFINE kind == NetworkKind[params.network]
           e == Prepared(params.External, kind, NoKeys)
           i == Prepared(params.Internal, kind, NoKeys)
           st == Stored(create_with_params(params))
           x == Loaded(st.descriptor, lp.External, NetworkKind[st.network], lp.keymap.External, lp.extract_keys)
           y == Loaded(st.change_descriptor, lp.Internal, NetworkKind[st.network], lp.keymap.Internal, lp.extract_keys)
<1>1. /\ e.error = "" /\ i.error = ""
      /\ create_with_params(params) = Assembled(params.network, e, i)
      /\ st = [network |-> params.network, descriptor |-> e.desc, change_descriptor |-> i.desc]
    BY CreatedIs, Zenon
<1>2. load_with_params(st, lp) =
        IF lp.network \notin {"unchecked", st.network} THEN Err("NetworkMismatch")
        ELSE IF x.error = "" THEN IF y.error = "" THEN Assembled(st.network, x, y) ELSE y ELSE x
    BY Zenon DEF load_with_params, Then
<1>3. st.network = params.network /\ st.descriptor = e.desc /\ st.change_descriptor = i.desc
    <2> HIDE DEF st, e, i
    <2> QED BY <1>1
<1>4. x = e /\ y = i
    BY <1>3, Zenon
<1> HIDE DEF st, e, i, x, y
<1>5. load_with_params(st, lp) = Assembled(st.network, x, y)
    BY <1>1, <1>2, <1>3, <1>4, Zenon
<1>6. load_with_params(st, lp) = create_with_params(params)
    BY <1>1, <1>3, <1>4, <1>5, Zenon
<1> QED BY <1>6 DEF st

\* The invariant is enough to open the database again.
LEMMA ReopensHolds ==
    ASSUME FilesInv
    PROVE  ReopensAsCreated
<1> SUFFICES ASSUME db # Nothing PROVE ReopensAsCreated
    BY DEF ReopensAsCreated
<1> DEFINE kind == NetworkKind[db.network]
           keymap(to_extract) == IF to_extract = NotGiven THEN NoKeys ELSE make_desc(to_extract, kind).keymap
           first == LoadParams(made.External, made.Internal, made.network, TRUE)
           second == [LoadParams(NoCheck, NoCheck, "unchecked", FALSE) EXCEPT
                         !.keymap = [k \in Keychains |-> keymap(made[k])]]
           e == Prepared(made.External, kind, NoKeys)
           i == Prepared(made.Internal, kind, NoKeys)
<1>1. MadeSound(made) /\ db = Stored(create_with_params(made))
    BY DEF FilesInv
<1>2. db.network = made.network /\ kind = NetworkKind[made.network]
    <2>1. db = [network |-> made.network, descriptor |-> Prepared(made.External, NetworkKind[made.network], NoKeys).desc,
                change_descriptor |-> Prepared(made.Internal, NetworkKind[made.network], NoKeys).desc]
        BY <1>1, CreatedIs, Zenon
    <2> QED BY <2>1
<1>3. e.error = "" /\ i.error = "" /\ IsParam(made.External) /\ IsParam(made.Internal)
    BY <1>1, <1>2, CreatedIs, Zenon DEF MadeSound, IsParam
<1>4. /\ Loaded(e.desc, made.External, kind, NoKeys, TRUE) = e
      /\ Loaded(e.desc, NoCheck, kind, keymap(made.External), FALSE) = e
      /\ Loaded(i.desc, made.Internal, kind, NoKeys, TRUE) = i
      /\ Loaded(i.desc, NoCheck, kind, keymap(made.Internal), FALSE) = i
    BY <1>3, LoadedIs, Zenon DEF KeysGiven
<1>5. /\ first.External = made.External /\ first.Internal = made.Internal
      /\ first.network = made.network /\ first.extract_keys = TRUE
      /\ first.keymap.External = NoKeys /\ first.keymap.Internal = NoKeys
    BY DEF LoadParams, Keychains
<1>6. /\ second.External = NoCheck /\ second.Internal = NoCheck
      /\ second.network = "unchecked" /\ second.extract_keys = FALSE
      /\ second.keymap.External = keymap(made.External) /\ second.keymap.Internal = keymap(made.Internal)
    <2> HIDE DEF keymap
    <2> QED BY DEF LoadParams, Keychains
<1> HIDE DEF e, i, keymap, first, second
<1> DEFINE own == NetworkKind[made.network]
           x == Prepared(made.External, own, NoKeys)
           y == Prepared(made.Internal, own, NoKeys)
<1>7. e = x /\ i = y
    BY <1>2, Zenon DEF e, i
<1>8. load_with_params(db, first) = create_with_params(made)
    <2>1. /\ Loaded(x.desc, first.External, own, first.keymap.External, first.extract_keys) = x
          /\ Loaded(y.desc, first.Internal, own, first.keymap.Internal, first.extract_keys) = y
        BY <1>2, <1>4, <1>5, <1>7, Zenon
    <2>2. first.network \in {"unchecked", made.network}
        BY <1>5
    <2>3. load_with_params(Stored(create_with_params(made)), first) = create_with_params(made)
        BY <1>1, <2>1, <2>2, LoadIs
    <2> QED BY <1>1, <2>3, Zenon
<1>9. load_with_params(db, second) = create_with_params(made)
    <2>1. /\ Loaded(x.desc, second.External, own, second.keymap.External, second.extract_keys) = x
          /\ Loaded(y.desc, second.Internal, own, second.keymap.Internal, second.extract_keys) = y
        BY <1>2, <1>4, <1>6, <1>7, Zenon
    <2>2. second.network \in {"unchecked", made.network}
        BY <1>6
    <2>3. load_with_params(Stored(create_with_params(made)), second) = create_with_params(made)
        BY <1>1, <2>1, <2>2, LoadIs
    <2> QED BY <1>1, <2>3, Zenon
<1> QED BY <1>8, <1>9, Zenon DEF ReopensAsCreated, first, second, keymap

-----------------------------------------------------------------------------
(***************************************************************************)
(* The invariant holds: one lemma for each kind of step.                   *)
(***************************************************************************)
\* A record of both keychains.
LEMMA KeychainsOf ==
    ASSUME NEW x, NEW a, NEW b, x = [External |-> a, Internal |-> b]
    PROVE  x.External = a /\ x.Internal = b
OBVIOUS

\* The descriptors of a wallet that was created.
LEMMA MadeWallet ==
    ASSUME NEW params, MadeSound(params)
    PROVE  /\ WalletSound(create_with_params(params))
           /\ Stored(create_with_params(params)).descriptor = create_with_params(params).descriptors.External
           /\ Stored(create_with_params(params)).change_descriptor = create_with_params(params).descriptors.Internal
<1> DEFINE kind == NetworkKind[params.network]
           e == Prepared(params.External, kind, NoKeys)
           i == Prepared(params.Internal, kind, NoKeys)
           w == create_with_params(params)
<1>1. /\ e.error = "" /\ i.error = ""
      /\ w.descriptors = [External |-> e.desc, Internal |-> i.desc]
    BY CreatedIs, Zenon
<1>2. IsGiven(params.External) /\ IsParam(params.Internal) /\ IsParam(params.External)
    BY DEF MadeSound, IsParam
<1>3. IsDescriptor(e.desc)
    BY <1>1, <1>2, PreparedIs, Zenon
<1>4. i.desc = NoDesc \/ IsDescriptor(i.desc)
    BY <1>1, <1>2, PreparedIs, Zenon DEF IsParam
<1> HIDE DEF e, i, w
<1>5. w.descriptors.External = e.desc /\ w.descriptors.Internal = i.desc
    BY <1>1, KeychainsOf, Zenon
<1>6. Stored(w).descriptor = w.descriptors.External /\ Stored(w).change_descriptor = w.descriptors.Internal
    BY DEF Stored
<1> QED BY <1>3, <1>4, <1>5, <1>6, Zenon DEF WalletSound, w

\* A wallet that was created.
LEMMA CreatedKeeps ==
    ASSUME FilesInv, NEW params, Created(params), params.network \in Networks,
           params.keymap = [k \in Keychains |-> NoKeys], IsGiven(params.External), IsParam(params.Internal)
    PROVE  FilesInv'
<1>1. /\ create_with_params(params).error = ""
      /\ wallet' = create_with_params(params) /\ db' = Stored(create_with_params(params))
      /\ made' = params /\ file' = file
    BY Zenon DEF Created
<1>2. MadeSound(params)
    BY <1>1, Zenon DEF MadeSound
<1>3. WalletSound(create_with_params(params))
    BY <1>2, MadeWallet
<1>4. MadeSound(made)' /\ (db = Stored(create_with_params(made)))'
    BY <1>1, <1>2, Zenon
<1>5. WalletSound(wallet)'
    BY <1>1, <1>3, Zenon
<1>6. FileSound(file)'
    BY <1>1, Zenon DEF FilesInv
<1> QED BY <1>4, <1>5, <1>6, Zenon DEF FilesInv

\* What the constructors of CreateParams give.
LEMMA ParamsAre ==
    ASSUME NEW p, NEW a, NEW b, NEW network, p = CreateParams(a, b, network)
    PROVE  /\ p.network = network /\ p.External = a /\ p.Internal = b
           /\ p.keymap = [k \in Keychains |-> NoKeys]
BY DEF CreateParams

\* A source that is given whole or by one of its paths.
LEMMA SourceGiven ==
    ASSUME NEW source, IsSource(source), NEW which \in {0, 1, 2}
    PROVE  IsGiven(ToExtract(source, which))
BY DEF IsGiven, ToExtract

\* A text is a source.
LEMMA TextIsSource ==
    ASSUME NEW d, IsDescriptor(d), NEW checksum
    PROVE  IsSource(Text(d, checksum))
BY DEF IsSource, Text

\* Creation from two sources.
LEMMA NewKeeps ==
    ASSUME FilesInv, NEW source, NEW change, NEW network \in Networks, IsSource(source), IsSource(change),
           Created(new(source, change, network))
    PROVE  FilesInv'
<1>1. IsGiven(ToExtract(source, 0)) /\ IsParam(ToExtract(change, 0))
    BY SourceGiven DEF IsParam
<1> DEFINE p == new(source, change, network)
<1>2. p = CreateParams(ToExtract(source, 0), ToExtract(change, 0), network)
    BY DEF new
<1> HIDE DEF p
<1>3. /\ p.network = network /\ p.External = ToExtract(source, 0) /\ p.Internal = ToExtract(change, 0)
      /\ p.keymap = [k \in Keychains |-> NoKeys]
    BY <1>2, ParamsAre
<1> QED BY <1>1, <1>3, CreatedKeeps DEF p

\* Creation in a new database.
LEMMA CreateKeeps ==
    ASSUME FilesInv, NEW network \in Networks,
           \/ \E s \in Sources : create_single(s, network)
           \/ \E p \in Pairs : create(p[1], p[2], network)
           \/ \E s \in Sources : create_from_two_path_descriptor(s, network)
    PROVE  FilesInv'
<1>1. ASSUME NEW s \in Sources, create_single(s, network) PROVE FilesInv'
    <2>1. IsGiven(ToExtract(s, 0)) /\ IsParam(NotGiven)
        BY SourceGiven, SourcesAssumption DEF IsParam
    <2> DEFINE p == new_single(s, network)
    <2>2. p = CreateParams(ToExtract(s, 0), NotGiven, network)
        BY DEF new_single
    <2>3. Created(p)
        BY <1>1 DEF create_single
    <2> HIDE DEF p
    <2>4. /\ p.network = network /\ p.External = ToExtract(s, 0) /\ p.Internal = NotGiven
          /\ p.keymap = [k \in Keychains |-> NoKeys]
        BY <2>2, ParamsAre
    <2> QED BY <2>1, <2>3, <2>4, CreatedKeeps
<1>2. ASSUME NEW p \in Pairs, create(p[1], p[2], network) PROVE FilesInv'
    BY <1>2, NewKeeps, SourcesAssumption, Zenon DEF create
<1>3. ASSUME NEW s \in Sources, create_from_two_path_descriptor(s, network) PROVE FilesInv'
    <2>1. IsGiven(ToExtract(s, 1)) /\ IsParam(ToExtract(s, 2))
        BY SourceGiven, SourcesAssumption DEF IsParam
    <2> DEFINE p == new_two_path(s, network)
    <2>2. p = CreateParams(ToExtract(s, 1), ToExtract(s, 2), network)
        BY DEF new_two_path
    <2>3. Created(p)
        BY <1>3 DEF create_from_two_path_descriptor
    <2> HIDE DEF p
    <2>4. /\ p.network = network /\ p.External = ToExtract(s, 1) /\ p.Internal = ToExtract(s, 2)
          /\ p.keymap = [k \in Keychains |-> NoKeys]
        BY <2>2, ParamsAre
    <2> QED BY <2>1, <2>3, <2>4, CreatedKeeps
<1> QED BY <1>1, <1>2, <1>3

\* Creation from a file.
LEMMA ImportKeeps ==
    ASSUME FilesInv, NEW network \in Networks, import_file(network)
    PROVE  FilesInv'
<1>0. FileSound(file)
    BY DEF FilesInv
<1>1. CASE file.format = "FullyNoded" /\ Created(FromFullyNoded(file, network))
    <2>1. IsDescriptor(file.descriptor) /\ IsDescriptor(change_descriptor(file.descriptor))
        BY <1>0, <1>1 DEF FileSound
    <2>2. IsSource(Text(file.descriptor, "none")) /\ IsSource(Text(change_descriptor(file.descriptor), "none"))
        BY <2>1, TextIsSource
    <2> QED BY <1>1, <2>2, NewKeeps, Zenon DEF FromFullyNoded
<1>2. CASE file.format = "Caravan" /\ Created(FromCaravan(file, network))
    <2> DEFINE keys(k) == [i \in DOMAIN file.keys |->
                              XKey(file.keys[i].xpub, Origin(file.keys[i].xfp, file.keys[i].bip32_path), <<KeychainStep(k)>>)]
               d(k) == Descriptor(file.address_type, "sortedmulti", file.required_signers, keys(k))
    <2>1. file.address_type # "none"
        BY <1>0, <1>2 DEF FileSound
    <2>2. to_descriptors(file) = [k \in Keychains |-> d(k)]
        BY Zenon DEF to_descriptors
    <2> HIDE DEF keys
    <2>3. IsDescriptor(d("External")) /\ IsDescriptor(d("Internal"))
        BY <2>1 DEF IsDescriptor, Descriptor
    <2> HIDE DEF d
    <2>4. to_descriptors(file).External = d("External") /\ to_descriptors(file).Internal = d("Internal")
        BY <2>2 DEF Keychains
    <2>5. IsSource(Text(to_descriptors(file).External, "right")) /\ IsSource(Text(to_descriptors(file).Internal, "right"))
        BY <2>3, <2>4, TextIsSource
    <2> QED BY <1>2, <2>5, NewKeeps, Zenon DEF FromCaravan
<1> QED BY <1>1, <1>2 DEF import_file

\* Loading takes the descriptors from the database: g is what is expected, c what the
\* comparison answers, sound the checks of the descriptor.
LEMMA LoadKeeps ==
    ASSUME FilesInv, NEW params, load(params)
    PROVE  FilesInv'
<1> DEFINE x == Loaded(db.descriptor, params.External, NetworkKind[db.network],
                       params.keymap.External, params.extract_keys)
           y == Loaded(db.change_descriptor, params.Internal, NetworkKind[db.network],
                       params.keymap.Internal, params.extract_keys)
           w == load_with_params(db, params)
           signers == [External |-> Signers(x.keymap, x.desc), Internal |-> Signers(y.keymap, y.desc)]
<1>1. db # Nothing /\ w.error = "" /\ wallet' = w /\ db' = db /\ file' = file /\ made' = made
    BY Zenon DEF load
<1>2. w = IF params.network \notin {"unchecked", db.network} THEN Err("NetworkMismatch")
          ELSE IF x.error = "" THEN IF y.error = "" THEN Assembled(db.network, x, y) ELSE y ELSE x
    BY Zenon DEF load_with_params, Then
<1>3. \/ Assembled(db.network, x, y) = Err("ExternalAndInternalAreTheSame")
      \/ Assembled(db.network, x, y) = Wallet(db.network, x.desc, y.desc, signers)
    BY Zenon DEF Assembled
<1>4. Err("NetworkMismatch").error # "" /\ Err("ExternalAndInternalAreTheSame").error # ""
    BY DEF Err
<1>5. x.error = "" => x.desc = db.descriptor
    <2> DEFINE d == db.descriptor
               sound == IF d = NoDesc THEN Absent ELSE check_wallet_descriptor(Ok(d, NoKeys))
               c == Checked(d, params.External, NetworkKind[db.network], params.keymap.External, params.extract_keys)
               g == IF params.External = NotGiven THEN Absent ELSE make_desc(params.External, NetworkKind[db.network])
               keymap == IF params.extract_keys THEN Extend(params.keymap.External, g.keymap) ELSE params.keymap.External
    <2>1. x = IF sound.error = "" THEN IF c.error = "" THEN IF d = NoDesc THEN Absent ELSE c ELSE c ELSE sound
        BY Zenon DEF Loaded, Then
    <2>2. \/ c = Ok(d, params.keymap.External)
          \/ c = IF g.error = "" THEN IF Same(d, g.desc) THEN Ok(d, keymap) ELSE Err("Mismatch") ELSE g
        BY Zenon DEF Checked, Then
    <2> HIDE DEF x, d, sound, c, g, keymap
    <2>3. SUFFICES ASSUME x.error = "" PROVE x.desc = d
        BY DEF d
    <2>4. Err("Mismatch").error # ""
        BY DEF Err
    <2>5. c.error = "" /\ x = IF d = NoDesc THEN Absent ELSE c
        BY <2>1, <2>3, Zenon
    <2>6. c.desc = d
        BY <2>2, <2>4, <2>5, OkParts, Zenon
    <2> QED BY <2>5, <2>6, AbsentIs, Zenon
<1>6. y.error = "" => y.desc = db.change_descriptor
    <2> DEFINE d == db.change_descriptor
               sound == IF d = NoDesc THEN Absent ELSE check_wallet_descriptor(Ok(d, NoKeys))
               c == Checked(d, params.Internal, NetworkKind[db.network], params.keymap.Internal, params.extract_keys)
               g == IF params.Internal = NotGiven THEN Absent ELSE make_desc(params.Internal, NetworkKind[db.network])
               keymap == IF params.extract_keys THEN Extend(params.keymap.Internal, g.keymap) ELSE params.keymap.Internal
    <2>1. y = IF sound.error = "" THEN IF c.error = "" THEN IF d = NoDesc THEN Absent ELSE c ELSE c ELSE sound
        BY Zenon DEF Loaded, Then
    <2>2. \/ c = Ok(d, params.keymap.Internal)
          \/ c = IF g.error = "" THEN IF Same(d, g.desc) THEN Ok(d, keymap) ELSE Err("Mismatch") ELSE g
        BY Zenon DEF Checked, Then
    <2> HIDE DEF y, d, sound, c, g, keymap
    <2>3. SUFFICES ASSUME y.error = "" PROVE y.desc = d
        BY DEF d
    <2>4. Err("Mismatch").error # ""
        BY DEF Err
    <2>5. c.error = "" /\ y = IF d = NoDesc THEN Absent ELSE c
        BY <2>1, <2>3, Zenon
    <2>6. c.desc = d
        BY <2>2, <2>4, <2>5, OkParts, Zenon
    <2> QED BY <2>5, <2>6, AbsentIs, Zenon
<1> HIDE DEF x, y, w, signers
<1>7. x.error = "" /\ y.error = "" /\ w = Wallet(db.network, x.desc, y.desc, signers)
    BY <1>1, <1>2, <1>3, <1>4, Zenon
<1>8. w.descriptors = [External |-> x.desc, Internal |-> y.desc]
    BY <1>7 DEF Wallet
<1>9. w.descriptors.External = db.descriptor /\ w.descriptors.Internal = db.change_descriptor
    <2>1. w.descriptors.External = x.desc /\ w.descriptors.Internal = y.desc
        BY <1>8, KeychainsOf, Zenon
    <2> QED BY <1>5, <1>6, <1>7, <2>1, Zenon
<1>10. MadeSound(made) /\ db = Stored(create_with_params(made))
    BY <1>1 DEF FilesInv
<1>11. WalletSound(w)
    BY <1>9, <1>10, MadeWallet, Zenon DEF WalletSound
<1>12. WalletSound(wallet)'
    BY <1>1, <1>11, Zenon
<1>13. FileSound(file)'
    BY <1>1, Zenon DEF FilesInv
<1>14. MadeSound(made)' /\ (db = Stored(create_with_params(made)))'
    BY <1>1, <1>10, Zenon
<1> QED BY <1>12, <1>13, <1>14, Zenon DEF FilesInv

\* The descriptor that is exported.
LEMMA WithSecretIs ==
    ASSUME NEW w, WalletSound(w), NEW keychain \in Keychains
    PROVE  IsDescriptor(WithSecret(w, keychain))
<1>1. IsDescriptor(public_descriptor(w, keychain))
    <2>1. CASE map_keychain(w, keychain) = "External"
        BY <2>1 DEF public_descriptor, WalletSound
    <2>2. CASE map_keychain(w, keychain) = "Internal" /\ w.descriptors.Internal # NoDesc
        BY <2>2 DEF public_descriptor, WalletSound
    <2> QED BY <2>1, <2>2 DEF map_keychain, Keychains
<1> DEFINE keymap == as_key_map(w.signers[keychain])
           d == public_descriptor(w, keychain)
           keys == [i \in DOMAIN d.keys |-> IF d.keys[i] \in DOMAIN keymap THEN keymap[d.keys[i]] ELSE d.keys[i]]
<1>2. WithSecret(w, keychain) = [d EXCEPT !.keys = keys]
    BY Zenon DEF WithSecret, WithKeys
<1> HIDE DEF d, keys
<1>3. IsDescriptor([d EXCEPT !.keys = keys])
    BY <1>1, NewKeys DEF d
<1> QED BY <1>2, <1>3, Zenon

\* An export.
LEMMA ExportKeeps ==
    ASSUME FilesInv, export_fully_noded \/ export_caravan
    PROVE  FilesInv'
<1>1. WalletSound(wallet) /\ UNCHANGED <<wallet, db, made>>
    BY DEF FilesInv, export_fully_noded, export_caravan
<1>2. CASE export_fully_noded
    <2> DEFINE d == WithSecret(wallet, "External")
    <2>1. /\ file' = [format |-> "FullyNoded", descriptor |-> d, of |-> wallet]
          /\ change_descriptor(d) = WithSecret(wallet, "Internal")
        BY <1>2, Zenon DEF export_fully_noded, FullyNoded
    <2>2. IsDescriptor(d) /\ IsDescriptor(change_descriptor(d))
        BY <1>1, <2>1, WithSecretIs DEF Keychains
    <2> HIDE DEF d
    <2>3. file'.format = "FullyNoded" /\ file'.descriptor = d
        BY <2>1
    <2>4. FileSound(file)'
        BY <2>2, <2>3 DEF FileSound
    <2> QED BY <1>1, <2>4 DEF FilesInv
<1>3. CASE export_caravan
    <2> DEFINE d == wallet.descriptors.External
               of == [format |-> "Caravan", address_type |-> d.type, network |-> NetworkKind[wallet.network],
                      required_signers |-> d.k, keys |-> [i \in DOMAIN d.keys |-> CaravanKey(d.keys[i])], of |-> wallet]
    <2>1. d.type \in {"sh", "wsh", "sh_wsh"} /\ file' = of
        BY <1>3, Zenon DEF export_caravan, Caravan
    <2>2. of.format = "Caravan" /\ of.address_type = d.type
        OBVIOUS
    <2> HIDE DEF of
    <2>3. FileSound(file)'
        BY <2>1, <2>2 DEF FileSound
    <2> QED BY <1>1, <2>3 DEF FilesInv
<1> QED BY <1>2, <1>3

-----------------------------------------------------------------------------
(***************************************************************************)
(* Templates: the key of an account, from the secret above it and from the *)
(* public key and its origin.                                              *)
(***************************************************************************)
\* The steps of a path.
Steps == [index : Nat, hardened : BOOLEAN]

\* A path of four steps, taken apart.
LEMMA FourParts ==
    ASSUME NEW a \in Steps, NEW b \in Steps, NEW c \in Steps, NEW d \in Steps
    PROVE  /\ SubSeq(<<a, b, c, d>>, 1, 3) = <<a, b, c>>
           /\ SubSeq(<<a, b, c, d>>, 4, 4) = <<d>>
<1> DEFINE path == <<a, b, c, d>>
<1>1. path \in Seq(Steps) /\ Len(path) = 4 /\ path[1] = a /\ path[2] = b /\ path[3] = c /\ path[4] = d
    OBVIOUS
<1>2. <<a, b, c>> \in Seq(Steps) /\ Len(<<a, b, c>>) = 3 /\ <<a, b, c>>[1] = a /\ <<a, b, c>>[2] = b /\ <<a, b, c>>[3] = c
    OBVIOUS
<1>3. <<d>> \in Seq(Steps) /\ Len(<<d>>) = 1 /\ <<d>>[1] = d
    OBVIOUS
<1> HIDE DEF path
<1>4. /\ SubSeq(path, 1, 3) \in Seq(Steps) /\ Len(SubSeq(path, 1, 3)) = 3
      /\ SubSeq(path, 1, 3)[1] = a /\ SubSeq(path, 1, 3)[2] = b /\ SubSeq(path, 1, 3)[3] = c
    BY <1>1, SubSeqProperties
<1>5. SubSeq(path, 4, 4) \in Seq(Steps) /\ Len(SubSeq(path, 4, 4)) = 1 /\ SubSeq(path, 4, 4)[1] = d
    BY <1>1, SubSeqProperties
<1>6. \A i \in 1..3 : i = 1 \/ i = 2 \/ i = 3
    OBVIOUS
<1>7. \A i \in 1..1 : i = 1
    OBVIOUS
<1> DEFINE s3 == SubSeq(path, 1, 3)
           t3 == <<a, b, c>>
           s1 == SubSeq(path, 4, 4)
           t1 == <<d>>
<1>8. s3 = t3
    <2> HIDE DEF s3, t3
    <2> SUFFICES \A i \in 1..Len(s3) : s3[i] = t3[i]
        BY <1>2, <1>4, SeqEqual DEF s3, t3
    <2> QED BY <1>2, <1>4, <1>6 DEF s3, t3
<1>9. s1 = t1
    <2> HIDE DEF s1, t1
    <2> SUFFICES \A i \in 1..Len(s1) : s1[i] = t1[i]
        BY <1>3, <1>5, SeqEqual DEF s1, t1
    <2> QED BY <1>3, <1>5, <1>7 DEF s1, t1
<1> QED BY <1>8, <1>9 DEF path

\* The parts of a path with three hardened steps and one that is not.
LEMMA PathParts ==
    ASSUME NEW a \in Steps, NEW b \in Steps, NEW c \in Steps, NEW step \in Steps,
           a.hardened, b.hardened, c.hardened, ~step.hardened
    PROVE  /\ HardenedPart(<<a, b, c, step>>) = <<a, b, c>>
           /\ HasHardened(<<a, b, c, step>>)
<1> DEFINE path == <<a, b, c, step>>
           S == {0} \cup {i \in DOMAIN path : path[i].hardened}
<1>1. DOMAIN path = 1..4 /\ path[1] = a /\ path[2] = b /\ path[3] = c /\ path[4] = step
    OBVIOUS
<1>2. S = {0, 1, 2, 3}
    <2>1. \A i \in 1..4 : i = 1 \/ i = 2 \/ i = 3 \/ i = 4
        OBVIOUS
    <2> HIDE DEF path
    <2> QED BY <1>1, <2>1
<1>3. Max(S) = 3
    <2>1. \A x \in S : (\A y \in S : x >= y) <=> x = 3
        BY <1>2
    <2>2. 3 \in S
        BY <1>2
    <2> HIDE DEF S
    <2> QED BY <2>1, <2>2 DEF Max
<1>4. HardenedPart(path) = SubSeq(path, 1, 3)
    BY <1>3 DEF HardenedPart
<1>5. SubSeq(path, 1, 3) = <<a, b, c>>
    BY FourParts
<1>7. HasHardened(path)
    <2> HIDE DEF path
    <2> QED BY <1>1 DEF HasHardened
<1> HIDE DEF path
<1> QED BY <1>4, <1>5, <1>7 DEF path

\* The fields of a key.
LEMMA KeyFields ==
    ASSUME NEW key, NEW type, NEW id, NEW at, NEW network, NEW secret, NEW origin, NEW paths, NEW wildcard,
           key = Key(type, id, at, network, secret, origin, paths, wildcard)
    PROVE  /\ key.type = type /\ key.id = id /\ key.at = at /\ key.network = network
           /\ key.secret = secret /\ key.origin = origin /\ key.paths = paths /\ key.wildcard = wildcard
BY Zenon DEF Key

\* The fields of an extended key.
LEMMA ExtendedFields ==
    ASSUME NEW key, NEW id, NEW at, NEW network, NEW secret, key = ExtendedKey(id, at, network, secret)
    PROVE  key.form = "extended" /\ key.id = id /\ key.at = at /\ key.network = network /\ key.secret = secret
BY DEF ExtendedKey

\* Whatever a key is made from, it is an extended key.
LEMMA ExtendedIs ==
    ASSUME NEW key, IsKey(key)
    PROVE  IsExtended(into_extended_key(key))
<1>1. ASSUME NEW k, IsDerivable(k) PROVE IsExtended(MasterOf(k)) /\ k.form # "generated"
    <2>1. CASE k = Seed(k.id)
        <3>1. k.form = "seed"
            BY <2>1 DEF Seed
        <3>2. MasterOf(k) = ExtendedKey(k.id, <<>>, "main", TRUE)
            BY <3>1 DEF MasterOf
        <3>3. MasterOf(k).id = k.id /\ MasterOf(k).at = <<>> /\ MasterOf(k).network = "main" /\ MasterOf(k).secret = TRUE
            BY <3>2 DEF ExtendedKey
        <3>4. <<>> \in Seq([index : Nat, hardened : BOOLEAN])
            OBVIOUS
        <3> QED BY <3>1, <3>2, <3>3, <3>4 DEF IsExtended
    <2>2. CASE IsExtended(k)
        <3>1. k.form = "extended"
            BY <2>2, ExtendedFields DEF IsExtended
        <3> QED BY <2>2, <3>1 DEF MasterOf
    <2> QED BY <1>1, <2>1, <2>2 DEF IsDerivable
<1>2. CASE IsDerivable(key)
    BY <1>1, <1>2 DEF into_extended_key
<1>3. CASE key = Generated(key.key, key.kinds) /\ IsDerivable(key.key)
    <2>1. key.form = "generated"
        BY <1>3 DEF Generated
    <2> QED BY <1>1, <1>3, <2>1 DEF into_extended_key
<1> QED BY <1>2, <1>3 DEF IsKey

\* What stands for a key is derived from its extended key.
LEMMA DeriveIs ==
    ASSUME NEW key, IsKey(key), NEW origin, NEW path
    PROVE  derive(key, origin, path).key = XKey(into_extended_key(key), origin, path)
<1>1. ASSUME NEW k PROVE AsItStands(k).key = k /\ DOMAIN AsItStands(k) = {"key", "kinds"}
    <2>1. AsItStands(k) = DescriptorKey(k, KindsOf(k.network)) \/ AsItStands(k) = DescriptorKey(k, any_network_kind)
        BY Zenon DEF AsItStands, FromSecret, FromPublic
    <2> QED BY <2>1 DEF DescriptorKey
<1>2. ASSUME NEW dk, NEW more PROVE override_valid_network_kinds(dk, more).key = dk.key
    BY DEF override_valid_network_kinds
<1>3. ASSUME NEW k PROVE DerivedFrom(k, origin, path).key = XKey(into_extended_key(k), origin, path)
    <2> DEFINE x == XKey(into_extended_key(k), origin, path)
    <2>1. DerivedFrom(k, origin, path) = AsItStands(x) \/ DerivedFrom(k, origin, path) = override_valid_network_kinds(AsItStands(x), any_network_kind)
        BY Zenon DEF DerivedFrom, set_valid_on_any_network_kind
    <2> HIDE DEF x
    <2> QED BY <1>1, <1>2, <2>1, Zenon DEF x
<1>4. ASSUME NEW k, IsDerivable(k) PROVE k.form # "generated"
    <2>1. CASE k = Seed(k.id)
        BY <2>1 DEF Seed
    <2>2. CASE IsExtended(k)
        BY <2>2, ExtendedFields DEF IsExtended
    <2> QED BY <1>4, <2>1, <2>2 DEF IsDerivable
<1>6. CASE IsDerivable(key)
    <2>1. derive(key, origin, path) = DerivedFrom(key, origin, path)
        BY <1>4, <1>6 DEF derive
    <2> QED BY <1>3, <2>1, Zenon
<1>7. CASE key = Generated(key.key, key.kinds) /\ IsDerivable(key.key)
    <2>1. key.form = "generated"
        BY <1>7 DEF Generated
    <2>2. key.key.form # "generated"
        BY <1>4, <1>7
    <2>3. into_extended_key(key) = into_extended_key(key.key)
        BY <2>1, <2>2 DEF into_extended_key
    <2>4. derive(key, origin, path) = override_valid_network_kinds(DerivedFrom(key.key, origin, path), key.kinds)
        BY <2>1 DEF derive
    <2>5. derive(key, origin, path).key = DerivedFrom(key.key, origin, path).key
        BY <1>2, <2>4, Zenon
    <2>6. DerivedFrom(key.key, origin, path).key = XKey(into_extended_key(key.key), origin, path)
        BY <1>3, Zenon
    <2> QED BY <2>3, <2>5, <2>6, Zenon
<1> QED BY <1>6, <1>7 DEF IsKey

\* The path of an account, and the public key a template gives for a keychain.
Account(bip, kind) == <<Hard(bip), CoinType(kind), Hard(0)>>
Below(bip, kind, keychain) == <<Hard(bip), CoinType(kind), Hard(0), KeychainStep(keychain)>>
AccountKey(master, bip, kind, keychain, network) ==
    Key("xkey", master.id, master.at \o Account(bip, kind), network, FALSE,
        Origin(Fingerprint(master.id, master.at), Account(bip, kind)), <<<<KeychainStep(keychain)>>>>, "normal")

\* The steps of a BIP's path: three are hardened, the last is not.
LEMMA StepsAre ==
    ASSUME NEW bip \in Nat, NEW kind, NEW keychain
    PROVE  /\ Hard(bip) \in Steps /\ Hard(bip).hardened /\ CoinType(kind) \in Steps /\ CoinType(kind).hardened
           /\ Hard(0) \in Steps /\ Hard(0).hardened
           /\ KeychainStep(keychain) \in Steps /\ ~KeychainStep(keychain).hardened
<1>1. \A n \in Nat : Hard(n) \in Steps /\ Hard(n).hardened
    BY DEF Hard, Steps
<1>2. \A n \in Nat : Soft(n) \in Steps /\ ~Soft(n).hardened
    BY DEF Soft, Steps
<1>3. CoinType(kind) = Hard(2) \/ CoinType(kind) = Hard(1)
    BY Zenon DEF CoinType
<1>4. KeychainStep(keychain) = Soft(0) \/ KeychainStep(keychain) = Soft(1)
    BY Zenon DEF KeychainStep
<1>5. 0 \in Nat /\ 1 \in Nat /\ 2 \in Nat
    OBVIOUS
<1> QED BY <1>1, <1>2, <1>3, <1>4, <1>5, Zenon

\* The path of an account is the hardened part of the path of its keychains.
LEMMA AccountIs ==
    ASSUME NEW bip \in Nat, NEW kind, NEW keychain
    PROVE  /\ HardenedPart(Below(bip, kind, keychain)) = Account(bip, kind)
           /\ HasHardened(Below(bip, kind, keychain))
           /\ SubSeq(Below(bip, kind, keychain), 4, 4) = <<KeychainStep(keychain)>>
           /\ Len(Below(bip, kind, keychain)) = 4 /\ Len(Account(bip, kind)) = 3
           /\ Account(bip, kind) \in Seq(Steps) /\ Account(bip, kind) # <<>>
           /\ <<>> \o Account(bip, kind) = Account(bip, kind)
<1>1. /\ HardenedPart(Below(bip, kind, keychain)) = Account(bip, kind)
      /\ HasHardened(Below(bip, kind, keychain))
    BY StepsAre, PathParts DEF Below, Account
<1>2. SubSeq(Below(bip, kind, keychain), 4, 4) = <<KeychainStep(keychain)>>
    BY StepsAre, FourParts DEF Below
<1>3. Len(Below(bip, kind, keychain)) = 4 /\ Len(Account(bip, kind)) = 3
    BY DEF Below, Account
<1>4. Account(bip, kind) \in Seq(Steps)
    BY StepsAre DEF Account
<1> QED BY <1>1, <1>2, <1>3, <1>4

\* The account's public key from the master's secret: to_public moves the hardened part
\* of the path to the origin.
LEMMA SecretToPublic ==
    ASSUME NEW master, master.secret = TRUE, NEW bip \in Nat, NEW kind, NEW keychain
    PROVE  to_public(XKey(master, NoOrigin, Below(bip, kind, keychain))) =
                AccountKey(master, bip, kind, keychain, master.network)
<1> DEFINE path == Below(bip, kind, keychain)
           key == XKey(master, NoOrigin, path)
           hard == HardenedPart(key.paths[1])
           origin == IF key.origin = NoOrigin /\ hard = <<>> THEN NoOrigin
                     ELSE Origin(root_fingerprint(key), key.origin.path \o hard)
           from == Origin(Fingerprint(master.id, master.at), Account(bip, kind))
<1>1. key = Key("xkey", master.id, master.at, master.network, master.secret, NoOrigin, <<path>>, "normal")
    BY DEF XKey
<1>2. /\ key.type = "xkey" /\ key.id = master.id /\ key.at = master.at /\ key.network = master.network
      /\ key.secret = TRUE /\ key.origin = NoOrigin /\ key.paths = <<path>> /\ key.wildcard = "normal"
    <2> HIDE DEF key
    <2> QED BY <1>1, KeyFields
<1>3. key.paths[1] = path
    <2> HIDE DEF key, path
    <2> QED BY <1>2
<1>4. hard = Account(bip, kind)
    <2> HIDE DEF key
    <2> QED BY <1>3, AccountIs
<1>5. root_fingerprint(key) = Fingerprint(master.id, master.at)
    <2> HIDE DEF key
    <2> QED BY <1>2, Zenon DEF root_fingerprint
<1>6. NoOrigin.path = <<>>
    BY DEF NoOrigin
<1>7. origin = from
    <2> HIDE DEF key, hard
    <2>1. hard # <<>> /\ key.origin.path \o hard = Account(bip, kind)
        BY <1>2, <1>4, <1>6, AccountIs
    <2> QED BY <1>5, <2>1, Zenon
<1>8. to_public(key) = [key EXCEPT !.secret = FALSE, !.at = key.at \o hard, !.origin = origin,
                                   !.paths = <<SubSeq(key.paths[1], Len(hard) + 1, Len(key.paths[1]))>>]
    <2> HIDE DEF key
    <2>1. key.type = "xkey" /\ key.secret
        BY <1>2
    <2> QED BY <2>1 DEF to_public
<1>9. SubSeq(key.paths[1], Len(hard) + 1, Len(key.paths[1])) = <<KeychainStep(keychain)>>
    <2> HIDE DEF key, hard, path
    <2>1. Len(hard) = 3 /\ Len(path) = 4 /\ SubSeq(path, 4, 4) = <<KeychainStep(keychain)>>
        BY <1>4, AccountIs DEF path
    <2> QED BY <1>3, <2>1
<1>10. to_public(key) = [key EXCEPT !.secret = FALSE, !.at = master.at \o Account(bip, kind), !.origin = from,
                                    !.paths = <<<<KeychainStep(keychain)>>>>]
    <2> HIDE DEF key, hard, origin, from
    <2> QED BY <1>2, <1>4, <1>7, <1>8, <1>9
<1>11. [key EXCEPT !.secret = FALSE, !.at = master.at \o Account(bip, kind), !.origin = from,
                                    !.paths = <<<<KeychainStep(keychain)>>>>] =
         Key("xkey", master.id, master.at \o Account(bip, kind), master.network, FALSE, from,
             <<<<KeychainStep(keychain)>>>>, "normal")
    <2> DEFINE no == FALSE
               at == master.at \o Account(bip, kind)
               paths == <<<<KeychainStep(keychain)>>>>
    <2> HIDE DEF key, from, no, at, paths
    <2> DEFINE k1 == Key("xkey", master.id, master.at, master.network, no, NoOrigin, <<path>>, "normal")
               k2 == Key("xkey", master.id, at, master.network, no, NoOrigin, <<path>>, "normal")
               k3 == Key("xkey", master.id, at, master.network, no, from, <<path>>, "normal")
               k4 == Key("xkey", master.id, at, master.network, no, from, paths, "normal")
    <2>1. [key EXCEPT !.secret = no] = k1
        BY <1>1 DEF Key
    <2>2. [k1 EXCEPT !.at = at] = k2
        BY DEF Key
    <2>3. [k2 EXCEPT !.origin = from] = k3
        BY DEF Key
    <2>4. [k3 EXCEPT !.paths = paths] = k4
        BY DEF Key
    <2> HIDE DEF k1, k2, k3, k4
    <2>5. [key EXCEPT !.secret = no, !.at = at, !.origin = from, !.paths = paths] =
            [[[[key EXCEPT !.secret = no] EXCEPT !.at = at] EXCEPT !.origin = from] EXCEPT !.paths = paths]
        OBVIOUS
    <2>6. [key EXCEPT !.secret = no, !.at = at, !.origin = from, !.paths = paths] = k4
        BY <2>1, <2>2, <2>3, <2>4, <2>5
    <2> QED BY <2>6, Zenon DEF no, at, paths, k4
<1> QED BY <1>10, <1>11, Zenon DEF AccountKey

\* A public key is its own.
LEMMA PublicToPublic ==
    ASSUME NEW master, master.secret = FALSE, NEW origin, NEW path
    PROVE  to_public(XKey(master, origin, path)) = XKey(master, origin, path)
<1> DEFINE key == XKey(master, origin, path)
<1>1. key.type = "xkey" /\ key.secret = FALSE
    BY DEF XKey, Key
<1> HIDE DEF key
<1>2. to_public(key) = key
    BY <1>1 DEF to_public
<1> QED BY <1>2 DEF key

\* The descriptor of a template: one key, with the network it is used on.
TypeOf(bip) == CASE bip = 44 -> "pkh" [] bip = 49 -> "sh_wpkh" [] bip = 84 -> "wpkh" [] bip = 86 -> "tr"
\* FixNetwork, of one key.
Fixed(key, kind) == IF key.network = "any" THEN key ELSE [key EXCEPT !.network = kind]

\* What the templates of a secret key build.
LEMMA PrivateBuild ==
    ASSUME NEW s, s.form = "bip", s.bip \in {44, 49, 84, 86}, NEW kind
    PROVE  build(s, kind) = impl_top_level_pk(TypeOf(s.bip), derive(s.key, NoOrigin, Below(s.bip, kind, s.keychain)))
BY DEF build, TypeOf, Bip44, Bip49, Bip84, Bip86, P2Pkh, P2Wpkh_P2Sh, P2Wpkh, P2TR, make_bipxx_private, Below

\* What the templates of a public key build.
LEMMA PublicBuild ==
    ASSUME NEW s, s.form = "bip_public", s.bip \in {44, 49, 84, 86}, NEW kind
    PROVE  build(s, kind) = impl_top_level_pk(TypeOf(s.bip),
                derive(s.key, Origin(s.fingerprint, Account(s.bip, kind)), <<KeychainStep(s.keychain)>>))
BY DEF build, TypeOf, Bip44Public, Bip49Public, Bip84Public, Bip86Public, P2Pkh, P2Wpkh_P2Sh, P2Wpkh, P2TR,
       make_bipxx_public, Account

\* The descriptor of one key that into_wallet_descriptor makes of a template.
LEMMA FixOne ==
    ASSUME NEW type, NEW dk, NEW kind
    PROVE  LET given == FixNetwork(impl_top_level_pk(type, dk), kind)
           IN  /\ given.error = "" <=> kind \in dk.kinds
               /\ kind \in dk.kinds => given.desc = Descriptor(type, "pk", 1, <<Fixed(to_public(dk.key), kind)>>)
<1> DEFINE out == impl_top_level_pk(type, dk)
           p == to_public(dk.key)
           map == [q \in {Fixed(k, kind) : k \in DOMAIN out.keymap} |->
                    Fixed(out.keymap[CHOOSE k \in DOMAIN out.keymap : Fixed(k, kind) = q], kind)]
           of == WithKeys(out.desc, LAMBDA key : Fixed(key, kind))
<1>1. out.desc = Descriptor(type, "pk", 1, <<p>>) /\ out.kinds = dk.kinds
    <2> HIDE DEF p
    <2>1. extract(dk).keys = <<p>> /\ extract(dk).kinds = dk.kinds
        BY DEF extract, Fragment, p
    <2> QED BY <2>1 DEF impl_top_level_pk, TemplateOut
<1>2. FixNetwork(out, kind) = IF kind \notin out.kinds THEN Err("InvalidNetworkKind") ELSE Ok(of, map)
    BY Zenon DEF FixNetwork, Fixed
<1>3. of = Descriptor(type, "pk", 1, <<Fixed(p, kind)>>)
    <2> HIDE DEF out, p
    <2>1. out.desc.keys = <<p>>
        BY <1>1 DEF Descriptor
    <2>2. of = [out.desc EXCEPT !.keys = [i \in DOMAIN out.desc.keys |-> Fixed(out.desc.keys[i], kind)]]
        BY Zenon DEF WithKeys
    <2>3. [i \in DOMAIN out.desc.keys |-> Fixed(out.desc.keys[i], kind)] = <<Fixed(p, kind)>>
        BY <2>1
    <2> HIDE DEF of
    <2>4. of = [Descriptor(type, "pk", 1, <<p>>) EXCEPT !.keys = <<Fixed(p, kind)>>]
        BY <1>1, <2>2, <2>3, Zenon
    <2> QED BY <2>4 DEF Descriptor
<1> HIDE DEF out, p, map, of
<1>4. CASE kind \in dk.kinds
    <2>1. FixNetwork(out, kind) = Ok(of, map)
        BY <1>1, <1>2, <1>4, Zenon
    <2>2. FixNetwork(out, kind).error = "" /\ FixNetwork(out, kind).desc = of
        BY <2>1, OkIs
    <2> QED BY <1>3, <1>4, <2>2, Zenon DEF out, p
<1>5. CASE kind \notin dk.kinds
    BY <1>1, <1>2, <1>5, ErrIs, Zenon DEF out
<1> QED BY <1>4, <1>5

\* The two routes to the public key of an account meet when its network is set right.
LEMMA FixedAccount ==
    ASSUME NEW master, NEW bip, NEW kind, NEW keychain, NEW network \in {"main", "test"}
    PROVE  Fixed(AccountKey(master, bip, kind, keychain, network), kind) = AccountKey(master, bip, kind, keychain, kind)
<1> DEFINE key == AccountKey(master, bip, kind, keychain, network)
           at == master.at \o Account(bip, kind)
           from == Origin(Fingerprint(master.id, master.at), Account(bip, kind))
           paths == <<<<KeychainStep(keychain)>>>>
           no == FALSE
           id == master.id
<1>1. key = Key("xkey", id, at, network, no, from, paths, "normal")
    BY Zenon DEF AccountKey
<1>2. AccountKey(master, bip, kind, keychain, kind) = Key("xkey", id, at, kind, no, from, paths, "normal")
    BY Zenon DEF AccountKey
<1> HIDE DEF key, at, from, paths, no, id
<1>3. key.network = network
    BY <1>1 DEF Key
<1>4. [key EXCEPT !.network = kind] = Key("xkey", id, at, kind, no, from, paths, "normal")
    BY <1>1 DEF Key
<1>5. Fixed(key, kind) = [key EXCEPT !.network = kind]
    BY <1>3 DEF Fixed
<1> QED BY <1>2, <1>4, <1>5, Zenon DEF key

\* The watch-only form of a template, and the descriptor both forms give.
PublicOf(s, kind) ==
    LET master == into_extended_key(s.key)
    IN  BipPublic(s.bip, ExtendedKey(master.id, master.at \o Account(s.bip, kind), kind, FALSE),
                  Fingerprint(master.id, master.at), s.keychain)
Template(s, kind) ==
    Descriptor(TypeOf(s.bip), "pk", 1, <<AccountKey(into_extended_key(s.key), s.bip, kind, s.keychain, kind)>>)

\* The watch-only form is valid on its network and gives that descriptor.
LEMMA PublicTemplate ==
    ASSUME NEW s, IsSource(s), s.form = "bip", NEW kind \in {"main", "test"}
    PROVE  /\ IsSource(PublicOf(s, kind))
           /\ into_wallet_descriptor(PublicOf(s, kind), kind).error = ""
           /\ into_wallet_descriptor(PublicOf(s, kind), kind).desc = Template(s, kind)
<1> DEFINE master == into_extended_key(s.key)
           at == master.at \o Account(s.bip, kind)
           x == ExtendedKey(master.id, at, kind, FALSE)
           q == PublicOf(s, kind)
           origin == Origin(Fingerprint(master.id, master.at), Account(s.bip, kind))
           path == <<KeychainStep(s.keychain)>>
           key == XKey(x, origin, path)
           dk == derive(x, origin, path)
<1>1. s.bip \in {44, 49, 84, 86} /\ s.bip \in Nat /\ IsKey(s.key)
    BY DEF IsSource
<1>2. master.at \in Seq(Steps)
    BY <1>1, ExtendedIs DEF IsExtended, Steps
<1>3. at \in Seq(Steps)
    <2> HIDE DEF master
    <2>1. Account(s.bip, kind) \in Seq(Steps)
        BY <1>1, AccountIs
    <2> QED BY <1>2, <2>1
<1> HIDE DEF master, at
<1>4. x.form = "extended" /\ x.id = master.id /\ x.at = at /\ x.network = kind /\ x.secret = FALSE
    BY DEF ExtendedKey
<1>5. IsKey(x)
    <2> HIDE DEF x
    <2>1. x = ExtendedKey(x.id, x.at, x.network, x.secret)
        BY <1>4 DEF x
    <2>2. IsExtended(x)
        BY <1>3, <1>4, <2>1 DEF IsExtended, Steps
    <2> QED BY <2>2 DEF IsKey, IsDerivable
<1>6. q.form = "bip_public" /\ q.bip = s.bip /\ q.key = x /\ q.keychain = s.keychain
      /\ q.fingerprint = Fingerprint(master.id, master.at)
    <2> HIDE DEF x
    <2> QED BY DEF PublicOf, BipPublic, x, at, master
<1> HIDE DEF q, x
<1>7. IsSource(q)
    BY <1>1, <1>5, <1>6 DEF IsSource
<1>8. build(q, kind) = impl_top_level_pk(TypeOf(s.bip), dk)
    <2>1. build(q, kind) = impl_top_level_pk(TypeOf(q.bip),
                derive(q.key, Origin(q.fingerprint, Account(q.bip, kind)), <<KeychainStep(q.keychain)>>))
        BY <1>1, <1>6, PublicBuild
    <2> QED BY <1>6, <2>1, Zenon
<1>9. into_extended_key(x) = x
    BY <1>4 DEF into_extended_key, MasterOf
<1>10. dk.key = key
    BY <1>5, <1>9, DeriveIs, Zenon
<1>11. key.secret = FALSE /\ key.type = "xkey" /\ key.network = kind
    BY <1>4 DEF XKey, Key
<1>12. dk = DescriptorKey(key, KindsOf(kind))
    <2>1. dk = AsItStands(key)
        BY <1>4, <1>9 DEF derive, DerivedFrom
    <2> HIDE DEF key, dk
    <2>2. AsItStands(key) = DescriptorKey(key, KindsOf(kind))
        BY <1>11 DEF AsItStands, FromPublic
    <2> QED BY <2>1, <2>2, Zenon
<1>13. kind \in dk.kinds
    <2>1. kind \in KindsOf(kind)
        BY DEF KindsOf
    <2> HIDE DEF dk, key
    <2> QED BY <1>12, <2>1 DEF DescriptorKey
<1>14. key = AccountKey(master, s.bip, kind, s.keychain, kind)
    <2>1. key = Key("xkey", x.id, x.at, x.network, x.secret, origin, <<path>>, "normal")
        BY Zenon DEF XKey
    <2>2. key = Key("xkey", master.id, at, kind, FALSE, origin, <<path>>, "normal")
        BY <1>4, <2>1
    <2> QED BY <2>2, Zenon DEF AccountKey, at
<1>15. to_public(key) = key
    BY <1>4, PublicToPublic, Zenon
<1>16. Fixed(to_public(dk.key), kind) = AccountKey(master, s.bip, kind, s.keychain, kind)
    <2>1. Fixed(AccountKey(master, s.bip, kind, s.keychain, kind), kind) = AccountKey(master, s.bip, kind, s.keychain, kind)
        BY FixedAccount
    <2> HIDE DEF key, dk
    <2> QED BY <1>10, <1>14, <1>15, <2>1, Zenon
<1>17. into_wallet_descriptor(q, kind) = FixNetwork(impl_top_level_pk(TypeOf(s.bip), dk), kind)
    BY <1>6, <1>8 DEF into_wallet_descriptor
<1> HIDE DEF dk
<1>18. /\ into_wallet_descriptor(q, kind).error = ""
       /\ into_wallet_descriptor(q, kind).desc = Descriptor(TypeOf(s.bip), "pk", 1, <<Fixed(to_public(dk.key), kind)>>)
    <2> DEFINE type == TypeOf(s.bip)
               given == FixNetwork(impl_top_level_pk(type, dk), kind)
    <2> HIDE DEF type
    <2>1. given.error = "" /\ given.desc = Descriptor(type, "pk", 1, <<Fixed(to_public(dk.key), kind)>>)
        BY <1>13, FixOne
    <2> HIDE DEF given
    <2> QED BY <1>17, <2>1 DEF type, given
<1> QED BY <1>7, <1>16, <1>18, Zenon DEF q, Template, master

\* What a template is made from.
LEMMA BipSource ==
    ASSUME NEW s, IsSource(s), s.form = "bip"
    PROVE  s.bip \in {44, 49, 84, 86} /\ s.bip \in Nat /\ IsKey(s.key)
BY DEF IsSource

\* The keys of a template's descriptor.
LEMMA OneKey ==
    ASSUME NEW type, NEW key
    PROVE  /\ Descriptor(type, "pk", 1, <<key>>).keys = <<key>>
           /\ DOMAIN Descriptor(type, "pk", 1, <<key>>).keys = {1}
           /\ Descriptor(type, "pk", 1, <<key>>).keys[1] = key
<1>1. Descriptor(type, "pk", 1, <<key>>).keys = <<key>>
    BY DEF Descriptor
<1>2. DOMAIN <<key>> = {1} /\ <<key>>[1] = key
    OBVIOUS
<1> QED BY <1>1, <1>2

\* An extended key with this path below it.
EndsWith(key, path) == key.type = "xkey" /\ key.paths[1] = path /\ key.wildcard = "normal"

\* Setting the network of a key leaves its path.
LEMMA OnNetwork ==
    ASSUME NEW master, NEW origin, NEW path, NEW network
    PROVE  EndsWith(Fixed(XKey(master, origin, path), network), path)
<1> DEFINE paths == <<path>>
           key == XKey(master, origin, path)
<1>1. paths[1] = path
    OBVIOUS
<1> HIDE DEF paths
<1>2. key.type = "xkey" /\ key.paths = paths /\ key.wildcard = "normal"
    BY DEF XKey, Key, paths
<1>3. /\ [key EXCEPT !.network = network].type = "xkey" /\ [key EXCEPT !.network = network].paths = paths
      /\ [key EXCEPT !.network = network].wildcard = "normal"
    BY DEF XKey, Key, paths
<1> HIDE DEF key
<1>4. Fixed(key, network).type = "xkey" /\ Fixed(key, network).paths = paths /\ Fixed(key, network).wildcard = "normal"
    BY <1>2, <1>3, Zenon DEF Fixed
<1>5. Fixed(key, network).type = "xkey" /\ Fixed(key, network).paths[1] = path /\ Fixed(key, network).wildcard = "normal"
    BY <1>1, <1>4, Zenon
<1> QED BY <1>5, Zenon DEF key, EndsWith

\* A wallet that was created from a template has a secret key: the checks of the wallet
\* refuse the hardened path below a public one.
LEMMA PrivateTemplate ==
    ASSUME NEW s, IsSource(s), s.form = "bip", NEW kind \in {"main", "test"},
           NEW which \in {0, 1, 2}, Prepared(ToExtract(s, which), kind, NoKeys).error = ""
    PROVE  /\ Prepared(ToExtract(s, which), kind, NoKeys).desc = Template(s, kind)
           /\ into_wallet_descriptor(s, kind).desc = Template(s, kind)
           /\ check_wallet_descriptor(Ok(Template(s, kind), NoKeys)) = Ok(Template(s, kind), NoKeys)
<1> DEFINE e == ToExtract(s, which)
           master == into_extended_key(s.key)
           path == Below(s.bip, kind, s.keychain)
           key == XKey(master, NoOrigin, path)
           dk == derive(s.key, NoOrigin, path)
           K == Fixed(to_public(dk.key), kind)
           given == into_wallet_descriptor(s, kind)
           type == TypeOf(s.bip)
           m == make_desc(e, kind)
<1>1. s.bip \in {44, 49, 84, 86} /\ s.bip \in Nat /\ IsKey(s.key)
    BY BipSource, Zenon
<1>1a. IsKey(s.key)
    BY <1>1
<1>1b. s.bip \in Nat
    BY <1>1
<1>2. IsExtended(master)
    BY <1>1, ExtendedIs
<1>3. IsGiven(e) /\ e.source = s /\ e.which = which
    <2>1. IsGiven(e)
        BY SourceGiven
    <2> QED BY <2>1 DEF ToExtract
<1>4. /\ m.error = "" /\ Prepared(e, kind, NoKeys).desc = m.desc
      /\ check_wallet_descriptor(Ok(m.desc, NoKeys)) = Ok(m.desc, NoKeys)
    BY <1>3, PreparedIs, Zenon DEF IsParam
<1>5. m = IF given.error = "" THEN SinglePath(given, which) ELSE given
    BY <1>3 DEF make_desc, Then
<1>6. given = FixNetwork(impl_top_level_pk(type, dk), kind)
    <2>1. build(s, kind) = impl_top_level_pk(type, dk)
        BY <1>1, PrivateBuild
    <2> HIDE DEF dk, type
    <2> QED BY <2>1 DEF into_wallet_descriptor
<1>7. given.error = ""
    <2> HIDE DEF given, m
    <2> QED BY <1>4, <1>5
<1>8. given.desc = Descriptor(type, "pk", 1, <<K>>)
    <2> DEFINE fix == FixNetwork(impl_top_level_pk(type, dk), kind)
    <2> HIDE DEF given, dk, type
    <2>1. fix.error = "" => fix.desc = Descriptor(type, "pk", 1, <<Fixed(to_public(dk.key), kind)>>)
        BY FixOne
    <2> HIDE DEF fix
    <2> QED BY <1>6, <1>7, <2>1 DEF fix
<1>9. dk.key = key
    BY <1>1a, DeriveIs, Zenon
<1>10. master.secret \in BOOLEAN /\ master.network \in {"main", "test"}
    BY <1>2 DEF IsExtended
<1> HIDE DEF given, m, dk, type, master, e
<1>11. K.type = "xkey" /\ (master.secret = FALSE => K.paths[1] = path /\ K.wildcard = "normal")
    <2>1. CASE master.secret = TRUE
        <3>1. to_public(key) = AccountKey(master, s.bip, kind, s.keychain, master.network)
            BY <1>1b, <2>1, SecretToPublic, Zenon
        <3>2. K = AccountKey(master, s.bip, kind, s.keychain, kind)
            <4>1. Fixed(AccountKey(master, s.bip, kind, s.keychain, master.network), kind) =
                    AccountKey(master, s.bip, kind, s.keychain, kind)
                BY <1>10, FixedAccount, Zenon
            <4> QED BY <1>9, <3>1, <4>1, Zenon
        <3> HIDE DEF K
        <3> QED BY <2>1, <3>2 DEF AccountKey, Key
    <2>2. CASE master.secret = FALSE
        <3>1. to_public(key) = key
            BY <2>2, PublicToPublic
        <3>2. K = Fixed(key, kind)
            BY <1>9, <3>1, Zenon
        <3>3. EndsWith(Fixed(key, kind), path)
            BY OnNetwork, Zenon
        <3> HIDE DEF K, key, path
        <3> QED BY <3>2, <3>3, Zenon DEF EndsWith
    <2> QED BY <1>10, <2>1, <2>2
<1> DEFINE d == given.desc
<1>12. d.keys = <<K>> /\ DOMAIN d.keys = {1} /\ d.keys[1] = K
    <2>1. d = Descriptor(type, "pk", 1, <<K>>)
        BY <1>8, Zenon
    <2> HIDE DEF K, d
    <2>2. /\ Descriptor(type, "pk", 1, <<K>>).keys = <<K>>
          /\ DOMAIN Descriptor(type, "pk", 1, <<K>>).keys = {1}
          /\ Descriptor(type, "pk", 1, <<K>>).keys[1] = K
        BY OneKey, Zenon
    <2> QED BY <2>1, <2>2, Zenon
<1> HIDE DEF K, d
<1>13. ~is_multipath(d)
    BY <1>11, <1>12 DEF is_multipath
<1>14. m = given
    <2>1. m = SinglePath(given, which)
        BY <1>5, <1>7
    <2>2. ~HasTwoPaths(given.desc)
        BY <1>13 DEF HasTwoPaths, d
    <2>3. m = given \/ m = Err("MultiPath")
        BY <2>1, <2>2, Zenon DEF SinglePath
    <2> QED BY <1>4, <2>3, ErrIs, Zenon
<1>15. master.secret = TRUE
    <2> SUFFICES ASSUME master.secret = FALSE PROVE FALSE
        BY <1>10
    <2>1. HasHardened(path)
        BY <1>1, AccountIs
    <2> HIDE DEF path
    <2>3. HasHardenedSteps(d.keys[1])
        BY <1>11, <1>12, <2>1 DEF HasHardenedSteps
    <2> DEFINE ok == Ok(d, NoKeys)
    <2>4. ok.desc = d /\ ok.error = ""
        BY OkParts, Zenon
    <2> HIDE DEF ok
    <2>5. \E i \in DOMAIN ok.desc.keys : HasHardenedSteps(ok.desc.keys[i])
        BY <1>12, <2>3, <2>4
    <2>6. check_wallet_descriptor(ok) = Err("HardenedDerivationXpub")
        BY <2>5, Zenon DEF check_wallet_descriptor
    <2>7. check_wallet_descriptor(ok) = ok
        BY <1>4, <1>14, Zenon DEF ok, d
    <2> QED BY <2>4, <2>6, <2>7, ErrIs, Zenon
<1>16. K = AccountKey(master, s.bip, kind, s.keychain, kind)
    <2>1. to_public(key) = AccountKey(master, s.bip, kind, s.keychain, master.network)
        BY <1>1b, <1>15, SecretToPublic, Zenon
    <2>2. Fixed(AccountKey(master, s.bip, kind, s.keychain, master.network), kind) =
            AccountKey(master, s.bip, kind, s.keychain, kind)
        BY <1>10, FixedAccount, Zenon
    <2> QED BY <1>9, <2>1, <2>2, Zenon DEF K
<1>17. d = Template(s, kind)
    BY <1>8, <1>16, Zenon DEF d, Template, type, master
<1> QED BY <1>4, <1>14, <1>17, Zenon DEF d, e, given

\* The watch-only form passes the checks that the secret one passed.
LEMMA WatchOnlyPrepared ==
    ASSUME NEW s, IsSource(s), s.form = "bip", NEW kind \in {"main", "test"},
           check_wallet_descriptor(Ok(Template(s, kind), NoKeys)) = Ok(Template(s, kind), NoKeys)
    PROVE  LET p == Prepared(ToExtract(PublicOf(s, kind), 0), kind, NoKeys)
           IN  p.error = "" /\ p.desc = Template(s, kind)
<1> DEFINE q == PublicOf(s, kind)
           e == ToExtract(q, 0)
           p == Prepared(e, kind, NoKeys)
           given == into_wallet_descriptor(q, kind)
           m == make_desc(e, kind)
           d == Template(s, kind)
           c == check_wallet_descriptor(m)
<1>1. IsSource(q) /\ given.error = "" /\ given.desc = d
    BY PublicTemplate, Zenon
<1>2. given = Ok(d, given.keymap)
    <2> HIDE DEF q, given, d
    <2> QED BY <1>1, IntoIs DEF given, IsOk
<1>3. IsGiven(e) /\ e.source = q /\ e.which = 0
    <2>1. IsGiven(e)
        BY <1>1, SourceGiven
    <2> QED BY <2>1 DEF ToExtract
<1>4. m = given
    <2>1. m = IF given.error = "" THEN SinglePath(given, 0) ELSE given
        BY <1>3 DEF make_desc, Then
    <2> QED BY <1>1, <2>1, Zenon DEF SinglePath
<1>5. c = m
    <2> DEFINE ok == Ok(d, NoKeys)
    <2>1. ok.desc = d /\ ok.error = ""
        BY OkParts, Zenon
    <2>2. check_wallet_descriptor(ok) = ok
        OBVIOUS
    <2> HIDE DEF ok, d, given
    <2>3. \A keymap : check_wallet_descriptor(Ok(d, keymap)) = Ok(d, keymap)
        BY <2>1, <2>2, CheckIs, Zenon
    <2> QED BY <1>2, <1>4, <2>3, Zenon
<1>6. e # NotGiven
    BY <1>3, GivenMarks
<1>7. p = IF (IF m.error = "" THEN c ELSE m).error = ""
          THEN Ok((IF m.error = "" THEN c ELSE m).desc, Extend((IF m.error = "" THEN c ELSE m).keymap, NoKeys))
          ELSE (IF m.error = "" THEN c ELSE m)
    BY <1>6, Zenon DEF Prepared, Then
<1> HIDE DEF p, m, c, given, d
<1>8. p = Ok(d, Extend(m.keymap, NoKeys))
    BY <1>1, <1>4, <1>5, <1>7, Zenon
<1>9. p.error = "" /\ p.desc = d
    <2> DEFINE keymap == Extend(m.keymap, NoKeys)
    <2>1. Ok(d, keymap).error = "" /\ Ok(d, keymap).desc = d
        BY OkParts, Zenon
    <2> HIDE DEF keymap
    <2> QED BY <1>8, <2>1, Zenon DEF keymap
<1> QED BY <1>9 DEF p, d

\* The two forms give the same wallet, for every template the database was created from.
LEMMA TemplatesHold ==
    ASSUME FilesInv
    PROVE  TemplatesAgree
<1> SUFFICES ASSUME db # Nothing, made.External.source.form = "bip", made.Internal.source.form = "bip"
             PROVE  TemplatesAgree
    BY Zenon DEF TemplatesAgree
<1> DEFINE kind == NetworkKind[db.network]
           a == made.External.source
           b == made.Internal.source
           pa == PublicOf(a, kind)
           pb == PublicOf(b, kind)
           x == Prepared(made.External, kind, NoKeys)
           y == Prepared(made.Internal, kind, NoKeys)
           u == Prepared(ToExtract(pa, 0), kind, NoKeys)
           v == Prepared(ToExtract(pb, 0), kind, NoKeys)
           w == create_with_params(new(pa, pb, db.network))
<1>1. MadeSound(made) /\ db = Stored(create_with_params(made))
    BY DEF FilesInv
<1>2. /\ db.network = made.network /\ db.network \in Networks
      /\ db.descriptor = x.desc /\ db.change_descriptor = y.desc
      /\ x.error = "" /\ y.error = ""
      /\ create_with_params(made) = Assembled(db.network, x, y) /\ create_with_params(made).error = ""
    <2> DEFINE own == NetworkKind[made.network]
               x1 == Prepared(made.External, own, NoKeys)
               y1 == Prepared(made.Internal, own, NoKeys)
    <2>1. /\ db = [network |-> made.network, descriptor |-> x1.desc, change_descriptor |-> y1.desc]
          /\ x1.error = "" /\ y1.error = ""
          /\ create_with_params(made) = Assembled(made.network, x1, y1)
        BY <1>1, CreatedIs, Zenon
    <2>2. made.network \in Networks /\ create_with_params(made).error = ""
        BY <1>1, Zenon DEF MadeSound
    <2> HIDE DEF x1, y1
    <2>3. db.network = made.network /\ db.descriptor = x1.desc /\ db.change_descriptor = y1.desc
        BY <2>1
    <2>4. x = x1 /\ y = y1
        BY <2>3, Zenon DEF x1, y1
    <2> HIDE DEF x, y
    <2> QED BY <2>1, <2>2, <2>3, <2>4, Zenon
<1>3. kind \in {"main", "test"}
    BY <1>2, KindsAssumption
<1>4. IsGiven(made.External) /\ IsGiven(made.Internal)
    <2>1. IsGiven(made.External) /\ IsParam(made.Internal)
        BY <1>1, Zenon DEF MadeSound
    <2>2. NotGiven.source.form = "none"
        BY DEF NotGiven, ToExtract
    <2>3. made.Internal # NotGiven
        BY <2>2
    <2> QED BY <2>1, <2>3, Zenon DEF IsParam
<1>5. /\ made.External = ToExtract(a, made.External.which) /\ IsSource(a) /\ made.External.which \in {0, 1, 2}
      /\ made.Internal = ToExtract(b, made.Internal.which) /\ IsSource(b) /\ made.Internal.which \in {0, 1, 2}
    BY <1>4, Zenon DEF IsGiven
<1> HIDE DEF kind, a, b, x, y
<1>6. /\ x.desc = Template(a, kind) /\ into_wallet_descriptor(a, kind).desc = Template(a, kind)
      /\ check_wallet_descriptor(Ok(Template(a, kind), NoKeys)) = Ok(Template(a, kind), NoKeys)
    <2>1. a.form = "bip"
        BY DEF a
    <2>2. x = Prepared(ToExtract(a, made.External.which), kind, NoKeys)
        BY <1>5, Zenon DEF x
    <2> QED BY <1>2, <1>3, <1>5, <2>1, <2>2, PrivateTemplate, Zenon
<1>7. /\ y.desc = Template(b, kind) /\ into_wallet_descriptor(b, kind).desc = Template(b, kind)
      /\ check_wallet_descriptor(Ok(Template(b, kind), NoKeys)) = Ok(Template(b, kind), NoKeys)
    <2>1. b.form = "bip"
        BY DEF b
    <2>2. y = Prepared(ToExtract(b, made.Internal.which), kind, NoKeys)
        BY <1>5, Zenon DEF y
    <2> QED BY <1>2, <1>3, <1>5, <2>1, <2>2, PrivateTemplate, Zenon
<1>8. u.error = "" /\ u.desc = x.desc /\ v.error = "" /\ v.desc = y.desc
    <2>1. a.form = "bip" /\ b.form = "bip"
        BY DEF a, b
    <2> QED BY <1>3, <1>5, <1>6, <1>7, <2>1, WatchOnlyPrepared, Zenon
<1>9. /\ into_wallet_descriptor(pa, kind).desc = into_wallet_descriptor(a, kind).desc
      /\ into_wallet_descriptor(pb, kind).desc = into_wallet_descriptor(b, kind).desc
    <2>1. a.form = "bip" /\ b.form = "bip"
        BY DEF a, b
    <2> QED BY <1>3, <1>5, <1>6, <1>7, <2>1, PublicTemplate, Zenon
<1>10. w = IF u.error = "" THEN IF v.error = "" THEN Assembled(db.network, u, v) ELSE v ELSE u
    <2> DEFINE p == new(pa, pb, db.network)
    <2>1. p = CreateParams(ToExtract(pa, 0), ToExtract(pb, 0), db.network)
        BY Zenon DEF new
    <2> HIDE DEF p, pa, pb
    <2>2. /\ p.network = db.network /\ p.External = ToExtract(pa, 0) /\ p.Internal = ToExtract(pb, 0)
          /\ p.keymap = [k \in Keychains |-> NoKeys]
        BY <2>1, ParamsAre
    <2>3. p.keymap.External = NoKeys /\ p.keymap.Internal = NoKeys
        BY <2>2 DEF Keychains
    <2> DEFINE r == Prepared(p.External, NetworkKind[p.network], p.keymap.External)
               t == Prepared(p.Internal, NetworkKind[p.network], p.keymap.Internal)
    <2>4. r = u /\ t = v
        BY <2>2, <2>3, Zenon DEF kind
    <2>5. create_with_params(p) = IF r.error = "" THEN IF t.error = "" THEN Assembled(p.network, r, t) ELSE t ELSE r
        BY Zenon DEF create_with_params, Then
    <2> HIDE DEF r, t, u, v
    <2>6. create_with_params(p) = IF u.error = "" THEN IF v.error = "" THEN Assembled(db.network, u, v) ELSE v ELSE u
        BY <2>2, <2>4, <2>5, Zenon
    <2> QED BY <2>6 DEF p
<1> HIDE DEF u, v, w
<1>11. w = Assembled(db.network, u, v)
    BY <1>8, <1>10, Zenon
<1>12. w.descriptors = [External |-> u.desc, Internal |-> v.desc]
    <2> DEFINE same(i, j) == j.desc # NoDesc /\ descriptor_id(i.desc) = descriptor_id(j.desc)
               signers == [External |-> Signers(u.keymap, u.desc), Internal |-> Signers(v.keymap, v.desc)]
    <2>1. Assembled(db.network, x, y) = Err("ExternalAndInternalAreTheSame") \/ ~same(x, y)
        BY Zenon DEF Assembled
    <2>2. Err("ExternalAndInternalAreTheSame").error # ""
        BY DEF Err
    <2>3. ~same(x, y)
        <3> HIDE DEF same
        <3> QED BY <1>2, <2>1, <2>2, Zenon
    <2>4. ~same(u, v)
        BY <1>8, <2>3, Zenon
    <2>5. Assembled(db.network, u, v) = Wallet(db.network, u.desc, v.desc, signers)
        BY <2>4, Zenon DEF Assembled
    <2> HIDE DEF signers
    <2>6. w = Wallet(db.network, u.desc, v.desc, signers)
        BY <1>11, <2>5, Zenon
    <2> QED BY <2>6 DEF Wallet
<1>13. w.descriptors = [External |-> db.descriptor, Internal |-> db.change_descriptor]
    BY <1>2, <1>8, <1>12
<1>14. wallet_name_from_descriptor(pa, pb, kind) = wallet_name_from_descriptor(a, b, kind)
    BY <1>9, Zenon DEF wallet_name_from_descriptor
<1> DEFINE coin == IF kind = "main" THEN 2 ELSE 1
           public(source) ==
                LET master == into_extended_key(source.key)
                IN  BipPublic(source.bip,
                              ExtendedKey(master.id, master.at \o <<Hard(source.bip), Hard(coin), Hard(0)>>, kind, FALSE),
                              Fingerprint(master.id, master.at), source.keychain)
<1>15. Hard(coin) = CoinType(kind)
    BY Zenon DEF CoinType
<1>16. \A s : public(s) = PublicOf(s, kind)
    <2> HIDE DEF coin
    <2> QED BY <1>15, Zenon DEF PublicOf, Account
<1> HIDE DEF coin, public
<1>17. public(a) = pa /\ public(b) = pb
    BY <1>16, Zenon
<1>18. /\ create_with_params(new(public(a), public(b), db.network)).descriptors =
            [External |-> db.descriptor, Internal |-> db.change_descriptor]
       /\ wallet_name_from_descriptor(public(a), public(b), kind) = wallet_name_from_descriptor(a, b, kind)
    <2> HIDE DEF pa, pb
    <2>1. w = create_with_params(new(pa, pb, db.network))
        BY DEF w
    <2> QED BY <1>13, <1>14, <1>17, <2>1, Zenon
<1> QED BY <1>18, Zenon DEF TemplatesAgree, kind, coin, public, a, b

-----------------------------------------------------------------------------
\* The invariant of every state: the database holds what creation from known parameters
\* stored, an open wallet has descriptors, and so does a file.
THEOREM FilesInvAlways == Spec => []FilesInv
<1>1. Init => FilesInv
    <2>1. NoFile.format = "none"
        BY DEF NoFile
    <2> QED BY <2>1 DEF Init, FilesInv, FileSound
<1>2. FilesInv /\ [Next]_vars => FilesInv'
    <2> SUFFICES ASSUME FilesInv, [Next]_vars PROVE FilesInv'
        OBVIOUS
    <2>1. ASSUME NEW network \in Networks, \E s \in Sources : create_single(s, network) PROVE FilesInv'
        BY <2>1, CreateKeeps
    <2>2. ASSUME NEW network \in Networks, \E p \in Pairs : create(p[1], p[2], network) PROVE FilesInv'
        BY <2>2, CreateKeeps
    <2>3. ASSUME NEW network \in Networks, \E s \in Sources : create_from_two_path_descriptor(s, network)
          PROVE  FilesInv'
        BY <2>3, CreateKeeps
    <2>4. ASSUME NEW network \in Networks, import_file(network) PROVE FilesInv'
        BY <2>4, ImportKeeps
    <2>5. CASE close
        BY <2>5 DEF close, FilesInv
    <2>6. ASSUME NEW params, load(params) PROVE FilesInv'
        BY <2>6, LoadKeeps
    <2>7. CASE export_fully_noded \/ export_caravan
        BY <2>7, ExportKeeps
    <2>8. CASE UNCHANGED vars
        BY <2>8 DEF vars, FilesInv
    <2> QED BY <2>1, <2>2, <2>3, <2>4, <2>5, <2>6, <2>7, <2>8, Zenon DEF Next
<1> QED BY <1>1, <1>2, PTL DEF Spec

\* A database opens again with what its wallet was created from, in whatever form the
\* descriptors were given, or unchecked with the keys beside, and load_with_params gives
\* the wallet create_with_params gave, signers included.
THEOREM DatabaseReopens == Spec => []ReopensAsCreated
<1>1. FilesInv => ReopensAsCreated
    BY ReopensHolds
<1> QED BY <1>1, FilesInvAlways, PTL

\* The BIP templates give the same descriptors, origins included, and the same wallet name
\* from a secret key and from the public key of its account, for every master key, network
\* and BIP: to_public puts the hardened part of the path where make_bipxx_public puts it.
THEOREM WatchOnlyAgrees == Spec => []TemplatesAgree
<1>1. FilesInv => TemplatesAgree
    BY TemplatesHold
<1> QED BY <1>1, FilesInvAlways, PTL
=============================================================================

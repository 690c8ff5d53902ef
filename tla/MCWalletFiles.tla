---------------------------- MODULE MCWalletFiles ----------------------------
(***************************************************************************)
(* Instances of WalletFiles: descriptors in all the forms callers have.    *)
(***************************************************************************)
EXTENDS WalletFiles

MCNetworkKind == [n \in Networks |-> IF n = "bitcoin" THEN "main" ELSE "test"]

Root(id) == Fingerprint(id, <<>>)
Account == <<Hard(84), Hard(1), Hard(0)>>
Cosigner == <<Hard(48)>>
Xpub(id, at) == ExtendedKey(id, at, "test", FALSE)
Xprv(id, at, network) == ExtendedKey(id, at, network, TRUE)
Wpkh(key) == Descriptor("wpkh", "pk", 1, <<key>>)
Sorted(key1, key2) == Descriptor("wsh", "sortedmulti", 2, <<key1, key2>>)
Plain(d) == Text(d, "none")

\* wpkh in text: from the master key, from the account's secret key without an origin, and
\* watch-only; two and three paths; a key of B that claims to come from A.
Master(n) == Plain(Wpkh(XKey(Xprv("A", <<>>, "test"), NoOrigin, Account \o <<Soft(n)>>)))
OfAccount(n) == Plain(Wpkh(XKey(Xprv("A", Account, "test"), NoOrigin, <<Soft(n)>>)))
Watch(n) == Text(Wpkh(XKey(Xpub("A", Account), Origin(Root("A"), Account), <<Soft(n)>>)), "right")
Paths(secret, paths) ==
    Plain(Wpkh(Key("multi", "A", Account, "test", secret, Origin(Root("A"), Account), paths, "normal")))
TwoPath == Paths(FALSE, <<<<Soft(0)>>, <<Soft(1)>>>>)
Mislabelled == Plain(Wpkh(XKey(Xpub("B", Account), Origin(Root("A"), Account), <<Soft(0)>>)))
FixedAtZero == Plain(Wpkh(Key("xkey", "A", Account, "test", FALSE, Origin(Root("A"), Account), <<<<Soft(0), Soft(0)>>>>, "none")))

\* Multisig with a secret key of each kind, and watch-only.
Cosigned(n) == Plain(Sorted(XKey(Xprv("A", <<>>, "test"), NoOrigin, Cosigner \o <<Soft(n)>>),
                            XKey(Xpub("B", Cosigner), Origin(Root("B"), Cosigner), <<Soft(n)>>)))
ByWords(n) == Dsl(impl_sortedmulti("wsh", 2,
                  <<derive(Mnemonic("A"), NoOrigin, Cosigner \o <<Soft(n)>>),
                    AsItStands(XKey(Xpub("B", Cosigner), Origin(Root("B"), Cosigner), <<Soft(n)>>))>>))
Deeper == Plain(Sorted(XKey(Xpub("A", Cosigner), Origin(Root("A"), Cosigner), <<Soft(5), Soft(0)>>),
                       XKey(Xpub("B", Cosigner), Origin(Root("B"), Cosigner), <<Soft(0)>>)))
\* Keys of one root: with wildcards, with a fixed key, and with a single one; a fixed key
\* of another root that comes first.
Leaves(keys) == Plain(Descriptor("wsh", "multi", 1, keys))
KeyAt(id, at, n) == XKey(Xpub(id, at), Origin(Root(id), at), <<Soft(n)>>)
FixedAt(id, n) == Key("xkey", id, Cosigner, "test", FALSE, Origin(Root(id), Cosigner), <<<<Soft(n)>>>>, "none")
SingleFrom(id, root, secret) ==
    Key("single", id, <<>>, IF secret THEN "test" ELSE "any", secret, Origin(Root(root), Account), <<<<>>>>, "none")
SameRoot(n) == Leaves(<<KeyAt("A", Account, n), KeyAt("A", Cosigner, n)>>)
FixedLast == Leaves(<<KeyAt("A", Account, 0), FixedAt("A", 7)>>)
FixedFirst == Leaves(<<FixedAt("B", 7), KeyAt("A", Account, 0)>>)
OnlyFixed == Leaves(<<FixedAt("A", 6), FixedAt("A", 7), SingleFrom("D", "A", FALSE)>>)
SingleOfRoot(n) == Leaves(<<KeyAt("A", Account, n), SingleFrom("D", "A", FALSE)>>)
WithOrigin(n) ==
    Leaves(<<XKey(Xprv("A", <<>>, "test"), NoOrigin, Account \o <<Soft(n)>>), SingleFrom("D", "B", TRUE)>>)
\* A script with a lock, from a generated key and a single one; a single key alone.
Recovery(n) ==
    Dsl(impl_top_level_sh("wsh", impl_node_opcode_two(
        make_pk(derive(generate_xpriv("C", "test"), NoOrigin, <<Soft(n)>>)),
        impl_node_opcode_two(make_pk(generate_private_key("D", "test")), Leaf))))
\* The same in a tree of two leaves below a taproot key, and all three ways to join keys.
Tree(n) ==
    Dsl(impl_top_level_tr(derive(generate_mnemonic("A"), NoOrigin, <<Soft(n)>>),
        parse_tap_tree(impl_node_opcode_three(make_pk(PrivateKey("D", "test")), Leaf, Leaf),
                       thresh_vec(<<make_multi(<<derive(Xpub("B", Cosigner), Origin(Root("B"), Cosigner), <<Soft(n)>>)>>),
                                    make_pk(PublicKey("E")), Leaf>>))))

Words(bip, k) == Bip(bip, Mnemonic("A"), k)
Main(bip, k) == Bip(bip, Xprv("B", <<>>, "main"), k)
AccountOf(bip) == <<Hard(bip), Hard(1), Hard(0)>>
Public(bip, k) == BipPublic(bip, Xpub("A", AccountOf(bip)), Root("A"), k)
WithCosigner == Pair(Sorted(to_public(XKey(Xprv("A", <<>>, "test"), NoOrigin, Cosigner \o <<Soft(0)>>)),
                            XKey(Xpub("B", Cosigner), Origin(Root("B"), Cosigner), <<Soft(0)>>)), NoKeys)
Alone == Dsl(P2Wpkh(PrivateKey("D", "test")))

\* Descriptors of one form for both keychains, of two forms, and ones that do not go together.
MCPairs ==
    {<<Master(0), Master(1)>>, <<OfAccount(0), OfAccount(1)>>, <<Watch(0), Watch(1)>>,
     <<Cosigned(0), Cosigned(1)>>, <<ByWords(0), ByWords(1)>>, <<Recovery(0), Recovery(1)>>, <<Tree(0), Tree(1)>>}
    \cup {<<Words(bip, "External"), Words(bip, "Internal")>> : bip \in {44, 49, 84, 86}}
    \cup {<<Main(bip, "External"), Main(bip, "Internal")>> : bip \in {84, 86}}
    \cup {<<Public(bip, "External"), Public(bip, "Internal")>> : bip \in {44, 49, 84, 86}}
    \cup {<<Master(0), Watch(1)>>,
          <<Cosigned(0), ByWords(1)>>, <<WithCosigner, Cosigned(1)>>, <<Deeper, Cosigned(1)>>,
          <<SameRoot(0), SameRoot(1)>>, <<WithOrigin(0), WithOrigin(1)>>, <<FixedFirst, SameRoot(1)>>,
          <<FixedLast, SingleOfRoot(1)>>, <<OnlyFixed, WithOrigin(1)>>,
          <<Master(0), Master(0)>>, <<Watch(0), FixedAtZero>>, <<Master(1), Master(0)>>,
          <<Mislabelled, Watch(1)>>, <<Alone, Watch(1)>>, <<Words(84, "External"), Words(86, "External")>>}

MCSources ==
    UNION {{p[1], p[2]} : p \in MCPairs}
    \cup {TwoPath, Paths(TRUE, <<<<Soft(0)>>, <<Soft(1)>>>>), Paths(FALSE, <<<<Soft(0)>>, <<Soft(1)>>, <<Soft(2)>>>>),
          Text(Watch(0).desc, "wrong"), Plain(Wpkh(XKey(Xpub("A", <<>>), NoOrigin, <<Hard(0)>>))),
          Dsl(P2Pkh(PublicKey("E")))}
=============================================================================

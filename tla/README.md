# bdk_wallet in TLA+

A verification project for `bdk_wallet` (the Litecoin fork): TLA+ modules that
model the wallet, its persistence, its events, the building, signing and replacing
of transactions, its policies, descriptors and keys, and the MWEB store; TLC
configurations that check them on small instances; TLAPS proofs of the
properties that matter most for every instance.

All source paths are relative to the repository, e.g. `src/src/wallet/mod.rs`.

## 1. The system

`bdk_wallet` is a library. A program owns one `Wallet` value, calls its methods
one at a time (`&mut self`), and gives it chain data fetched elsewhere. Nothing
runs concurrently inside the library; what makes it hard is that the same state
lives in several places that are updated at different times (memory, stage,
database, cached view, the caller's own picture), that chain data arrives in any
order and is taken back by reorganizations, that a process may end between any two
calls, and that a PSBT goes through several hands before it is complete.

| component | state | operations | interacts with |
|---|---|---|---|
| `Wallet` (`wallet/mod.rs`) | descriptors, `LocalChain`, `TxGraph`, script index (revealed, used, indexed outpoints), locked outpoints, canonical view, stage | reveal, mark, lock, `apply_update`, `apply_block*`, `apply_unconfirmed_txs`, `apply_evicted_txs`, `insert_txout`, `create_tx`, `build_fee_bump`, `sign`, `finalize_psbt` | every other part; stages a `ChangeSet` for each change |
| bdk_chain (external crate) | – | chain connection, graph merge, canonicalization, script scanning | called by `Wallet` |
| `ChangeSet` (`changeset.rs`, `locked_outpoints.rs`) | the aggregate of changes | `merge`, `is_empty`, `from_sqlite`, `persist_to_sqlite`, `From` impls | stage, database |
| `PersistedWallet` (`persisted.rs`, `params.rs`) | wallet + database | `create`, `load`, `persist` and async variants; persisters for SQLite and bdk_file_store | `Wallet`, `ChangeSet` |
| events (`event.rs`) | – | `events_helper`, `wallet_events` | compares two views of `Wallet` for the caller |
| coin selection (`coin_selection.rs`) | search state | branch and bound, largest/oldest first, single random draw, `decide_change` | called by `create_tx` |
| `TxBuilder` (`tx_builder.rs`) | `TxParams` | setters, `finish` | `create_tx`, `filter_utxos`, fee bumps |
| signers (`signer.rs`) | an ordered container for each keychain | `add_signer`, `set_keymap`, `sign`, `finalize_psbt`, `try_finalize_psbt` | PSBT, policies |
| policies (`descriptor/policy.rs`) | – | `extract_policy`, `get_condition`, `requires_path` | `create_tx`, signers |
| descriptors, keys (`descriptor/*`, `keys/*`) | – | parsing, checks, templates, macros, key maps, recognition of inputs | `create`, `load`, signers |
| MWEB facade (`mweb.rs`) | `MwebStore`: coin database with its own stage | sync, disconnect, persist, coin selection, peg-in/out | beside `Wallet`, not in its `ChangeSet` |
| export, migration (`export.rs`, `migration.rs`) | – | format conversion, reading pre-1.0 databases | `Wallet`, SQLite |
| PSBT with bdk-tx (`psbt/params.rs`, part of `mod.rs`) | `PsbtParams` | `create_psbt`, `replace_by_fee` | gated by a feature the fork declares unsupported |

What makes each part correct, and the hazards at which each property aims, are in
`PROJECT.json` (`hazards`, each at its line). In short: nothing a method changes
may be missing from stage and database together; a failed or repeated write must
do no harm; a database must always load to the wallet that wrote it; the cached
canonical view must never be stale; a listener must be able to rebuild the
wallet's picture from events; an address must not be handed out twice; coin
selection must end with a selection that pays for itself; a transaction must spend
no coin twice, pay the fee asked for and carry the locks it needs; a replacement
must replace; parties whose signers cover a PSBT must get it final; a wallet that is
closed, loaded, exported and made again must stay the same wallet.

## 2. Modules

```
BdkChain      pure operators for the external bdk_chain crate
  ChangeSet     the changeset, its merge and its two database formats
    Wallet        the wallet in memory: one action per method
      PersistedWallet   + database, failures, restarts          (MCPersistedWallet)
        AddressReuse      + which scripts were handed out       (MCAddressReuse)
        PersistedWallet_proofs  about both                      (TLAPS)
      WalletEvents      + events and a listener                 (MCWalletEvents)
SelectionContract   what create_tx relies on in a coin selection
  SelectionPromise    the abstract specification: one sound answer, in the end
  CoinSelection       the algorithms; refines SelectionPromise  (MCCoinSelection)
    Sums_proofs, CoinSelection_proofs                           (TLAPS)
Condition           time locks: what is demanded, what is granted
  Spending            the view a spend is built from
    TxBuilder           TxBuilder, create_tx, build_fee_bump
    DraftContract       what a caller relies on in a draft
      CreatePsbt          PsbtParams, create_psbt, replace_by_fee (both: MCSpending)
    Spending_proofs, TxBuilder_proofs, CreatePsbt_proofs        (TLAPS)
  Policy              spending policies
    Signing             signers, signing parties, finalization  (MCSigning)
Keys                keys and what callers give for one
  Descriptors         templates, macros, checks, recognition of inputs
    WalletFiles         create, load, export and import         (MCWalletFiles)
    WalletFiles_proofs                                          (TLAPS)
MwebStore           the MWEB coin store beside the wallet       (MCMwebStore)
  MwebStore_proofs                                              (TLAPS)
```

**BdkChain** (external; modelled from how `wallet/` uses it). A chain is a sparse
function from heights to block hashes; `CanConnect`/`Connected` are
`LocalChain::apply_update`. A graph is a record of transactions, floating
outputs, anchors and mempool times; `GraphDiff` is the changeset an update
yields. `Canonical` considers transactions by priority (anchored in the chain,
then last seen, then anchored elsewhere) and keeps those that do not conflict.
`Matched` is the scan of the script index: what it finds depends on the order,
because an output that is found reveals its index and so derives further
scripts.

**ChangeSet.** The maps of the code are total functions with a value for "no
entry". `Merge` is the code's `merge`; `PersistToSqlite` is *not* a merge: the
tables overwrite indices and times, delete removed blocks and unlocked
outpoints. `LoadImage` is what `load_with_params` takes from a changeset.

**Wallet.** One action per method. An action changes the fields the method
changes, merges into `stage` exactly what the method stages, and ends, where the
method does, with `update_canonical_view`. Methods that return an error before
changing anything are disabled in that state. `create_tx` is here the part of
the method that changes the wallet: finding, revealing, staging and marking the
change script.

**PersistedWallet.** `Create`, `Load`, `Persist` and their failing variants. A
write that fails may or may not have taken effect. `Close` is both a clean drop
and a crash: memory is lost, the database stays. `backend` chooses between
SQLite and the file store once.

**WalletEvents.** `events_helper` around every method with an `_events` variant;
`told` is the picture a caller keeps that sees nothing but the events.

**AddressReuse.** `PersistedWallet` with the discipline the docs ask for (persist
before closing) and counters of what was handed out.

**CoinSelection.** Each iteration of the branch-and-bound loop is a step. A coin
is a value and a weight; fees round up as `FeeRate * Weight` does.
`SelectionContract` has the operators a caller's expectations are made of
(`Successful`, `MayFail`, `decide_change`); `SelectionPromise` is the abstract
specification over them, and `KeepsPromise` is CoinSelection's refinement of it:
required and optional coins, rate and target map to themselves, `answered` to
`phase = "done"`. `Sound` is the safety part of the promise, `Spec` adds that there is
an answer. TxBuilder selects coins in one step with the same contract, so the
two compose.

**Spending, TxBuilder, CreatePsbt.** `Spending` is the graph with its heights and
locked outpoints: enough for `list_unspent`, conflicts, descendants and fees. Every
setter of `TxBuilder` that decides what is spent is an action; `finish` is
`create_tx` from its first early return to its last, with policy conditions,
version, sequence, lock time, `filter_utxos`, selection, change, `get_psbt_input`.
A builder borrows the wallet, so nothing happens to the wallet while one is open.
`PsbtParams` does not, so in `CreatePsbt` blocks, transactions and locks come
between the calls (`Meanwhile`), and what was collected may be stale when it is
used. Weights are in units of an input; all outputs weigh the same. The counts of
inputs and outputs weigh more from `CountLimit` on (253 in a transaction), and each
part the code computes a fee for is rounded up by itself, to `FeeUnit`ths (a rate is
per 1000 units of weight).
`DraftContract` states what a draft must satisfy in the wallet of that moment.
`BuilderSpec` and `PsbtSpec` are the general specifications the theorems are about:
any wallet (`GraphSound`: inputs name earlier transactions, amounts are natural
numbers), any arguments of the setters, any transactions and blocks meanwhile.
`MCSpending` runs both on wallets and arguments of its own.

**Policy, Signing.** A script is a sequence of nodes, the root last; a policy is a
table with an entry for each node, computed by folds. `Signing` sends a PSBT around
among parties with the same descriptors and signers of their own. A signature is
named by its key and leaf; hashing is a condition on what the input carries
(previous transaction, witness output, sighash). `sign` is the loop over signers,
each failing where the code returns, then the finalization; `finalize_psbt` and
`try_finalize_psbt` are actions too, blocks arrive, and an unconfirmed parent may be
replaced. The satisfaction of miniscript (external) is the evaluation of the script
over the signatures and locks at hand.

**Keys, Descriptors, WalletFiles.** A key is a point of a BIP32 tree: the secret it
starts from and the path down to it; a fingerprint is that point. A descriptor is a
kind of script, a shape, a threshold and keys. Each form a caller may give (text with
or without checksum, a pair with a key map, the macros, the templates of BIP 44, 49,
84 and 86) is turned into a descriptor and a key map as the code does it.
`WalletFiles` creates a wallet from any of them, closes it, loads it with any check
and key extraction, exports it and makes a wallet from the file.

**MwebStore.** The wallet follows the best chain; as in the code, one `apply_update`
may take blocks away and add others. The store keeps `db` and `stage`, the caller
does the rest, in any order. One completed batch of a differential sync is a step, so a
pass may end or fail between any two. `disconnect_from` may be called at any time and
height, or never; `owed` notes the call the examples ask for after a shorter tip
(`mweb_regtest.rs:11`). The two `persist_*` and the two `load_*` are actions; a SQLite
transaction (`txn`) commits later, or never. A caller saves the `SyncState` in one of
two orders: only after a persist returned Ok, or at any time, as `mainnet_mweb.rs`
does, which saves it before it appends the coins; `lost` collects the coins that a
crash took before they were written. `RecordPegin` inserts the outputs of a peg-in at
the height of the tip. `fund_mweb_send` stands for all six functions that select and
fund; signing may come before or after the inputs are marked spent. A synchronization
may count a coin that left the chain's leafset as spent. bdk_mweb is external; assumed of
it are that staging records every mutation, that a coin inserted again stays spent,
that a peg-in is spendable `Maturity` blocks after its own, and that a failed append
leaves the file as it was.

Definitions whose comment begins "A seeded bug" are mutated forms of the
definition that follows; the mutation runs put them in its place and expect a
violation.

## 3. Runs

| run | module / cfg | checks | result |
|---|---|---|---|
| `persist_chain` | MCPersistedWallet / PW_chain | `StageCompletesDb`, `CanonicalViewFresh`, `DbLoadable`, `DbOnlyAdvances` | hold |
| `persist_index` | MCPersistedWallet / PW_index | `TypeOK`, `ReloadKeepsIndexed` | hold |
| `events_sync` | MCWalletEvents / WE_sync | `ListenerInSync`, `ScansComplete`, `ConfirmedStays` | hold |
| `reuse_reveal` | MCAddressReuse / AR_reveal | `RevealedOnce`, `ChangeOncePerSession` | hold |
| `coin_select` | MCCoinSelection / CS_select | `SearchAccounts`, `ForwardInBounds`, `SearchIsOptimal`, `KeepsPromise` | hold |
| `spend` | MCSpending / SP_build | `NoDoubleSpend`, `BumpReplaces`, `FeeAsAsked`, `LocksGranted`, `InputsSignable`, `AutomaticAllowed`, `DraftSpendsOnce`, `ReplacementConflicts`, `ReplacementPays`, `MinableNext` | hold |
| `sign` | MCSigning / SG_sign | `PoliciesMatchPaths`, `ContributionHonest`, `SatisfiedIsFinalizable`, `SignaturesKept`, `TogetherFinal` | hold |
| `sign_panic` | MCSigning / SG_panic | `NeverPanics` | violated |
| `wallet_files` | MCWalletFiles / WF_life | `ReopensAsCreated`, `TemplatesAgree`, `ExportRestores`, `InputsRecognised` | hold |
| `mweb_spend` | MCMwebStore / MW_spend | `FundsCovered`, `SignableUntilSigned`, `OnlyTheWindowLoses`, `NoRespend` | hold |
| `mweb_reorg` | MCMwebStore / MW_reorg | `BalanceIsReal` | violated |
| `mweb_resume` | MCMwebStore / MW_resume | `ResumeMissesNothingOnRetry` | violated |

What the three violated runs show:

1. `persist_file_store` (`mweb.rs:178`; `persist_sqlite` likewise) empties the
   stage before the append. When the append fails its content is lost, a retry
   appends nothing and returns Ok, and the synchronization state saved then covers
   coins that are not in the file: a resume never downloads them.
   `OnlyTheWindowLoses` is therefore stated for histories in which no write failed.
2. `apply_update` may replace a block and keep or raise the tip, and a tip that is
   shorter may still be above the fork. The examples call `disconnect_from` only
   after a shorter tip, from the height above it (`mweb_regtest.rs:11`), or not at all
   (`mainnet_mweb.rs`). The store then counts a coin of a replaced block as confirmed
   until a synchronization dates it again, and funding may select it. No statement
   about the reality of the store's heights holds for such callers, so none is proved.
3. `finalize_psbt` gives an input with an unconfirmed parent the creation height
   `u32::MAX` (`mod.rs:1975`), and `check_older` adds the relative lock to it with
   `.expect("Overflowing addition")` (`utils.rs:117`). A script with `older()` whose
   input does not grant the lock, as when another branch of the policy is used,
   makes `sign` panic. In the `sign` run a panic is an outcome that ends the call
   and leaves the PSBT as the signers left it; `ContributionHonest`,
   `SatisfiedIsFinalizable` and `TogetherFinal` speak of PSBTs whose parents are
   confirmed or whose fields grant what is used.

### Observed while modelling

The code also departs from its own comments in the following places. Each is in the
model as the code has it, and the properties above are stated so as to hold beside
it; where a property excludes a case, its comment says so.

* `apply_evicted_txs` (`mod.rs:2772`) filters on "canonical" only; its doc
  (`mod.rs:2741`) says "currently unconfirmed and canonical". A confirmed
  transaction gets an eviction time, which counts once a reorganization unconfirms it.
* `wallet_events` (`event.rs:167`) reports `TxReplaced`/`TxDropped` for a transaction
  that was confirmed until the same update removed its block; the docs of both
  events (`event.rs:57`, `event.rs:72`) speak of unconfirmed transactions.
* The change script of a built transaction is marked as used in memory only
  (`mod.rs:1606`). The doc of `finish` (`tx_builder.rs:792`) gives persisting as the
  way to avoid reuse; after persisting, closing and loading, the next transaction
  uses the script again if the first was not seen yet.
* The fallback of branch and bound (`coin_selection.rs:543`) draws from coins the
  search had filtered out because they cost more than they are worth, and can report
  insufficient funds although the others suffice (`coin_selection.rs:123`).
  `MayFail` in `SelectionContract` allows exactly this.
* Loading compares descriptor ids, the hash of the first script (`mod.rs:511`):
  other origins or a missing wildcard go unnoticed, where `params.rs:255` says
  "matches exactly". The stored descriptor is the one that is used.
* Two secret keys with one root fingerprint take the same place in a signer
  container (`signer.rs:717`), and the later one stays; the signer of a single key
  tries inputs of others, and its error at a taproot input ends the call
  (`signer.rs:474`); it also loses the origin of its key (`signer.rs:442`), so an
  export leaves that secret out.
* A literal 0 in a threshold lowers `k` (`policy.rs:1046`): the policy counts as
  easier than the script is. The scripts of the runs have none.
* A bump with `only_witness_utxo` of a foreign legacy input known only through
  `insert_txout` carries neither the previous transaction nor its output.
* `export.rs:128-132` says that going from a descriptor through a wallet and a Caravan
  file and back with `to_descriptors` will not produce identical descriptors. It does
  for keys that end in `/0/*` with nothing else below their origin, and for no others:
  those come back with other addresses (`export.rs:592`). `ExportRestores` says so.
* An extended key without a wildcard, beside one with, leads
  `derive_from_psbt_key_origins` to index 0 (`descriptor/mod.rs:526`); with the same
  root it hides the origin of the other, as an input has one origin for each
  fingerprint. This matters to `finalize_psbt` for outputs the index does not have
  (`mod.rs:2056`). `InputsRecognised` excepts such descriptors (`LeadToOneIndex`) and holds
  for several ranged keys of one root.
* A batch of unconfirmed transactions is scanned in the order given
  (`mod.rs:2707`): an output to a script derived only after it was scanned is stored
  and not indexed until the next scan. Revealing an address (`mod.rs:696`) can make a
  stored transaction relevant without an event. `ScansComplete` says which outputs a
  call must index and excepts only these two cases.
* The fee leaves out what a change output adds to the number of outputs, which a TODO
  admits (`mod.rs:1589-1591`), and also the number of inputs, if there are 253 or more: the
  rate is then lower than asked for. `FeeAsAsked` bounds the shortfall by the rate for
  exactly that (`Unweighed`).
* `build_fee_bump` takes the last output that pays the change keychain for change and
  drops it, even if it was a payment (`mod.rs:1750-1765`). `BumpReplaces` speaks of inputs only.
* `mainnet_mweb.rs` saves its `SyncState` before it appends the coins it covers
  (`mainnet_mweb.rs:349-361`, `381-382`): a crash in between loses them for a resumed
  synchronization. `OnlyTheWindowLoses` says that this window is all that does. It
  inserts the outputs of a peg-in at the tip before they are mined
  (`mainnet_mweb.rs:185-189`): they count as confirmed.
* Events returned by an update are lost when the process dies before the caller
  handles them; whether they are returned again depends on what was persisted
  (`docs/adr/0003_events.md`). Funding an MWEB spend reserves nothing
  (`mweb.rs:577`): two spends funded before the first is recorded select the same
  coins. Neither promises more.

### Bounds

* *persist_chain*: a block tree with two branches and a height that is skipped,
  one transaction that is in a block of either branch, two times, one lockable
  outpoint, one keychain. This is enough for every order of confirm, reorganize,
  evict, see again, lock, unlock, persist, fail, crash and load; the properties
  speak of each transaction, outpoint and height by itself.
* *persist_index*: two transactions, one of which pays a script that is derived
  only once the other was found, one and two keychains, indices 0 and 1 (the
  last one, so that revelation hits its limit), a floating output.
* *events_sync*: a payment, its double spend and its child; five blocks; batches,
  evictions and scans that mention each. One batch has an output that may be
  scanned before or after its script is derived. No user lock or mark can influence an
  event, and floating outputs have no `_events` variant, so those sets are empty.
  The run has a VIEW: states that differ only in `stage` and in the events just
  returned have the same future.
* *reuse_reveal*: three indices, one transaction that pays a script of each
  keychain; handouts are counted up to two, the first reuse.
* *coin_select*: up to one required and three optional coins out of five (one of
  double weight, one worth less than its fee), two rates, three targets, and a
  try limit of six, which some searches reach and some do not.
* *spend* (689,374 states): eleven wallets, each with the setters of one topic, two
  or three coins and up to three setter calls, which is enough to build, broadcast
  and bump with a call to spare, or to let three calls interact. Among them: coins
  of both keychains; unconfirmed, TRUC and immature ones; outputs of strangers; a
  pending payment whose change is spent again; policies with paths that demand
  relative and absolute locks, with coins named by the caller as its own or as foreign;
  and, for `CreatePsbt`, keychains with two spending
  paths and a chain of three unconfirmed transactions to replace. Outcomes of the
  single random draw and of coin selection are all explored. A count weighs one unit
  more from three inputs or outputs on (`CountLimit`, `CountGrowth`), so that change alone
  lengthens it, and fees are rounded to halves (`FeeUnit`). At the height the setter
  names, 5, the immature coinbase output is excluded.
* *sign* (100,048 states): nine cases of a wallet with two parties, a PSBT with one
  to three inputs, every combination of version, lock time and sequence that the
  locks of the script tell apart, devices that refuse, signing with and without
  finalization, taproot leaves and sighashes. Blocks, finalizations, replacements of
  a parent and added devices are limited to two (`left`); signing is not limited. No alternatives of a script are equal
  (`ChoicesDiffer`): the code's ids are checksums of content, the model's are places.
* *wallet_files* (3,086 states): descriptors in every form for two networks, pairs
  that belong together and pairs that do not, both exports, every check on loading;
  descriptors with two keys of one root, a fixed key before or after a ranged one or
  alone, and a single key with an origin.
* *mweb_spend*: a peg-in and one change coin, blocks of height one, two crashes or
  reorganizations, one failing write, a caller with the file that saves the state at any
  time and one with SQLite that writes the coins first. A coin can be mined,
  disconnected, lost, found and mined again; spends need one coin, two (when the
  process died before the first spend was recorded and its change was found by
  synchronization), or more than the integers hold.
* *mweb_reorg*: one received coin, a chain of up to three blocks, one reorganization and
  no failing write are enough for the violation; *mweb_resume*: one block, one failing
  write and no reorganization or crash.

The persistence, coin selection and signing runs do not check for deadlock: a wallet
that is closed and whose database is empty and cannot be created, a selection that
has been returned, or a wallet nobody calls really is at its end.

### Fairness

`CoinSelection`: `coin_select` is a function with a loop that nothing suspends, so
`WF_vars(Next)` says no more than that the function goes on running. The abstract
`SelectionPromise` demands `<>answered`, so `KeepsPromise` contains termination.

`Signing`: `TogetherFinal` needs that every party is asked again and again and that
its devices do not refuse for ever. The specification of the run says that and no
more: for each party, infinitely often a `sign` with the default options and no
refusing device has ended (`[]<>(outcome.by = p)`). It is an assumption on the people
who pass the PSBT around, and without it nothing can be said; that the PSBT then
becomes final, in whatever order and whatever fails in between, is the code's part.

For the wallet, its persistence, builders, files and the MWEB store no fairness is
assumed: a caller is free never to call again.

## 4. Proofs

Twenty-nine theorems, each for every value of the constants that meets the named
assumptions beside their declarations. A proof has one lemma per action, under it
one step per conjunct the action can disturb; facts about operators come first.

| module | theorem | states |
|---|---|---|
| `PersistedWallet_proofs` | `TypeCorrect` | `[]TypeOK` |
| | `NothingLost` | `[]StageCompletesDb` |
| | `ViewAlwaysFresh`, `AlwaysLoadable`, `FoundStaysFound` | `[]CanonicalViewFresh`, `[]DbLoadable`, `[]ReloadKeepsIndexed` |
| | `NeverTakesBack` | `DbOnlyAdvances` |
| | `NoAddressTwice`, `NoChangeTwice` | `[]RevealedOnce`, `[]ChangeOncePerSession` |
| `MwebStore_proofs` | `WindowOnly`, `FundedSignable` | `[]OnlyTheWindowLoses`, `[]SignableUntilSigned` |
| | `NeverRespends` | `NoRespend` |
| `CoinSelection_proofs` | `TotalsAddUp`, `NeverPastTheCoins`, `BranchAndBoundExact` | `[]SearchAccounts`, `[]ForwardInBounds`, `[]SearchIsOptimal` |
| | `EveryAnswerSound`, `PromiseKept` | `Caller!Sound`; `KeepsPromise`, given termination |
| `TxBuilder_proofs` | `AutomaticInputsAllowed`, `NoCoinSpentTwice`, `BumpsReplace` | `[]AutomaticAllowed`, `[]NoDoubleSpend`, `[]BumpReplaces` |
| | `TimeLocksGranted`, `PsbtInputsSignable`, `FeesAsAsked` | `[]LocksGranted`, `[]InputsSignable`, `[]FeeAsAsked` |
| `CreatePsbt_proofs` | `DraftsSpendOnce`, `ReplacementsConflict` | `[]DraftSpendsOnce`, `[]ReplacementConflicts` |
| | `ReplacementsPay`, `DraftsMinable` | `[]ReplacementPays`, `[]MinableNext` |
| `WalletFiles_proofs` | `FilesInvAlways` | `[]FilesInv`, the inductive invariant |
| | `DatabaseReopens`, `WatchOnlyAgrees` | `[]ReopensAsCreated`, `[]TemplatesAgree` |

**The wallet and its database** (assumptions `BoundsAssumption`, `BlocksAssumption`,
`TxsAssumption`, `OptionAssumption`, `InputsAssumption`, `ParamsAssumption`).
`StageCompletesDb` is not inductive: it says what a write of the stage *now* would
leave, and says nothing about what a later write leaves after the stage has grown.
Merging would make that easy, but SQLite overwrites. The inductive invariant is

    Durable == TypeOK /\ StageCompletesDb /\ Ahead(db, stage) /\ Blank

where `Ahead` says that every index and time in the stage is at least the
database's, so that overwriting and taking the maximum are the same thing, and
`Blank` that a closed wallet has an empty memory and stage. From there: a write by
either backend loads like a merge (`WriteLoads`); a changeset computed against
memory reproduces, merged, the memory it was computed for (`ChainDiffApplies`,
`RevealDiffApplies`, `GraphDiffApplies`); so every method keeps the merge of
database and stage equal to memory, and `Persist`, failing or not, and `Load` keep
it too. `DurableAlways` is `Spec => []Durable`.

Loading needs two more invariants beside `Durable`. `Rooted`: a database with data and
the chain of an open wallet start with a block, and nothing staged removes it;
`DbLoadable` alone does not exclude that a write of the stage takes the genesis
block away. `Found`: every indexed outpoint is an output the graph holds, and its
script is revealed; with `StageCompletesDb`, the database then restores graph and
indices, and the scan on loading finds the outpoint in whatever order it sees the
transactions. That a write takes nothing back follows from `Ahead`.

`AddressReuse` is `PersistedWallet` with a disciplined caller (`ReuseIsPersisted`),
so all of this holds there. `Handed` adds that a script handed out stays revealed,
by memory while the wallet is open and by the database while it is not; closing is
where the discipline, through `StageCompletesDb`, is needed. `Changed` says that a
script used for change in this session is revealed and marked used.

**The MWEB store** (assumption `MwebConstants`). The invariant is

    Store == StoreTypes /\ Covered /\ SpentKept /\ InputsKnown

`Covered`: as long as no write failed, file, open transaction and stage add up to the
store in memory, and what the synchronization state counts, in memory or saved, is
there or was lost in a crash; for a caller that writes the coins first, it is in memory
and, once saved, in the file. This needs that after a persist that returned Ok everything
in memory is in the file (`written`), and that the stage is never dropped but in a
crash. `SpentKept` and `InputsKnown`: what was written or staged as spent is spent in
memory, and the inputs of a funded spend stay known. Nothing is assumed of the order of
the caller's calls, beyond the one of the two writes in the second half of the property.

**Coin selection** (assumption `CoinsAssumption`: values, weights, rates and targets
are natural numbers). A fold over a set is a recursive function on sets, and what a
recursive definition computes is beyond the prover's induction; `Sums_proofs` gets
around that with least counterexamples on cardinalities and proves what sums over
finite sets satisfy: taking out an element, splitting, renumbering, adding term by
term. A selection is then a number `k` of decisions and the set `C` of positions it
includes. The search tries inclusion before omission, so the sets it has passed are

    Passed(S, k, C) == \E i \in 1..k : i \notin C /\ i \in S /\ S agrees with C below i

and the inductive invariant (`Searching`, with `Searched` around it) says that each
of them is dealt with (`Explored`: if it needs no change, the best selection so far
costs no more), that the best selection is one and costs what is noted (`BestReal`),
that the totals are sums (`Accounts`), that all effective values are positive
(`Grouped`) and that once a coin is decided the required ones alone fall short
(`Begun`). A branch that is cut deals with all sets that agree with it, because
their worth lies between `curr_value` and `curr_value + curr_available`
(`AgreeingWorth`); a step back adds exactly these to the passed ones
(`PassedOnBack`); at the end every set is passed or agrees (`AllDealt`).

The refinement: `PromiseStep` shows that every step is a `coin_select` step of
`SelectionPromise` or leaves its variables alone. The list algorithms give up only if
the whole list does not pay, and the list is the optional coins in some order
(`ListFails`); branch and bound gives up before it searches only if the coins worth
spending do not pay (`InsufficientFails`); the coins of the best selection, counted
from the first, are distinct optional coins worth what the search noted
(`SearchAnswer`, with the further invariant `Drawn` that the search's coins are
optional ones). `PromiseKept` states what is left to the run: that there is an answer.

**Spending** (assumption `SpendingAssumption`: weights, dust limit and heights are
natural numbers, and a transaction has a weight). `Spending_proofs` is about lists and
graphs: what `Fresh`, `Only` and `Without` return, that `AncestorsIn` is transitive, that
confirmed transactions have confirmed ancestors, and `CanonicalConsistent`: the
canonical transactions are closed under parents and no two of them conflict. As with
sums, inductions over lists and graphs are arguments with a least counterexample.
Everything else rests on that lemma: an unspent coin is one that no canonical
transaction spends.

*TxBuilder.* The invariant `Inv` is `TypeOK`, which has `GraphSound` in it, and, while a
builder exists,

    UtxosSound   each coin is listed once, and it is the wallet's (unspent), one the
                 caller named with its true value, or an input of the original
    BumpSound    the original is canonical and unconfirmed, its fee is remembered, and
                 all its inputs are listed, as they were unless the caller named them
    BuiltSound   the transaction was made of listed and offered coins, each once,
                 and its outputs, change and fee add up to what they are worth

None of the six properties is inductive: each speaks of the built transaction only, and
what makes it true was collected calls before. `FeesAsAsked` has `Dust > 0` as its
hypothesis: with a dust limit of 0, `decide_change` would add a change output of 0 that
nobody pays for. All standard scripts have a positive one. Its argument: fees rounded
part by part are together no less than the fee for the whole and exceed it by less than
one unit for each part (`FeeInParts`, `CoinFeesBound`), and the parts miss only what the counts
of inputs and outputs grow by (`CountsGrow`), for any limit, growth and rounding.

*CreatePsbt.* A draft is judged in the wallet of its moment, so the invariant `PsbtInv` is
about the parameters: `RequestSound` says that list and set agree and have each coin
once, that planned inputs are worth what known outputs are, and that a replacement
lists, planned inputs aside, inputs of what it replaces. It survives whatever happens
to the wallet meanwhile (`GrownKeeps`: the graph only grows, so what was known stays
so). The properties are then shown in the drafting step. That a replacement pays for
all it evicts needs that it evicts nothing else (`Evicted \subseteq ToReplace`): the coins
it adds are unspent, and the listed ones are spent in the view by the originals alone,
for two canonical transactions do not conflict; its fee is at least `Floor` and its
weight by the target of the selection.

**Files** (assumptions `KindsAssumption` and `SourcesAssumption`: a network is of one of
two kinds, and what callers have is a descriptor or key in one of the modelled forms).
Neither property mentions how the database came to be, so the invariant `FilesInv`
remembers it: the database holds what `create_with_params` of `made` stores, `made` was
accepted and asks for no keys beside, an open wallet has sound descriptors whoever
created or loaded it, and a file leads to sound descriptors, so that importing it is one
more creation. Whatever form is given becomes a descriptor with its keys or an error
(`IntoIs`, `MakeDescIs`). The checks look at the descriptor alone (`CheckIs`), so the
descriptor of the database passes them again, and adding keys to none or none to keys
is the same (`ExtendNone`): with `LoadedIs`, each keychain is loaded as it was created.

For the templates, a key that was accepted must have been secret, for the hardened path
below a public one is refused (`PrivateTemplate`); `to_public` then cuts the path after
its last hardened step, moves that part to the origin and leaves the keychain's step
(`SecretToPublic`), which is the key `make_bipxx_public` is given, once the network of
both is set right (`FixedAccount`). The master key may itself lie below another one.

Only model-checked:

* liveness under fairness, which is beyond the prover: `TogetherFinal`, and the
  termination in `KeepsPromise`;
* `FundsCovered`: it is not true for all constants. `needed` saturates at the largest
  64-bit number, so coins worth exactly that would do for a spend of more. Received
  coins are assumed to be worth less together, as the money supply guarantees, but
  peg-ins and change of the model are bounded only one by one;
* `ListenerInSync`: not true for all constants either. Revealing an address can make a
  transaction relevant that was stored when it was not, without an event and without
  a new scan (section 3, observation on batches); the run's updates carry only
  transactions that are relevant when they arrive. `ScansComplete` excepts that case and
  is only model-checked because what a scan finds is a recursive definition;
* `BalanceIsReal` and `ResumeMissesNothingOnRetry`: the runs show them violated;
* signing (`PoliciesMatchPaths`, `ContributionHonest`, `SatisfiedIsFinalizable`,
  `SignaturesKept`), whose steps are folds over signers and inputs with an operator for
  a parameter, and `InputsRecognised`, so far;
* `ExportRestores`, which excepts a single secret key with an origin: it is left out of
  a file (section 3, observation on signers);
* what the recursive functions and folds over other data (`Canonical` of `BdkChain`,
  `Matched`, policies) compute: the proofs use only that the first two return a
  subset of their argument, and what one scan adds.

## 5. Not modelled, and why

* Cryptography, entropy and words, the text of keys and descriptors and their
  checksums (a checksum is right, wrong or absent): pure computations without state.
* In `CreatePsbt`: `anti_fee_sniping_height`, `canonicalization_params`, ordering,
  `only_witness_utxo`, `add_global_xpubs` and custom selection algorithms, which are
  handed on to bdk-tx. `Cargo.toml` declares the feature `bdk-tx` unsupported in this
  fork until a compatible crate exists; the code is modelled as it stands.
* In `TxBuilder`: weights of individual outputs, the order of inputs and outputs
  (an ordering is any permutation), the value of dust limits.
* In `WalletFiles`: labels, names, and the block height of a FullyNoded file, which
  is that of the first transaction in an unspecified order (`export.rs:212`) where
  the documentation says the oldest; genesis hashes, lookahead and script cache.
* Migration: one read of a legacy table, with no state of its own.
* Error types and formatting; support for tests; accessors that only read.
* Table schemas and their versions; use of the script cache (`spk_cache` changes
  no result).
* The `rusqlite::Transaction` persister of the transparent wallet, which a caller may
  roll back after the stage was cleared; the MWEB store's is modelled.

## 6. Plan

1. Proofs for `Signing`: `SignaturesKept`, from what the signers and the finalizer do
   to one input.
2. Proofs for `WalletEvents`: a step with events brings a listener that was in sync
   back in sync.
3. `ExportRestores` as a theorem about descriptors of extended keys.
4. `PersistedWallet` with the `rusqlite::Transaction` persister; events and
   persistence together, for the claim of ADR 0003 that events not processed are
   returned again on a later sync.

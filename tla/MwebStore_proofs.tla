-------------------------- MODULE MwebStore_proofs --------------------------
(***************************************************************************)
(* Proofs about the MWEB coin store.  Three facts carry them: as long as   *)
(* no write failed, the coins in memory are those written, those in the    *)
(* open transaction and those staged, and what a caller saved or counts as *)
(* downloaded is among them or was taken by a crash (Covered); nothing     *)
(* that was written or staged as spent is unspent in memory (SpentKept);   *)
(* and the inputs of a funded spend stay known (InputsKnown).              *)
(***************************************************************************)
EXTENDS MwebStore, TLAPS

\* The coins that are written, in the open transaction or staged.
Held == DOMAIN file.coins \cup DOMAIN txn.coins \cup DOMAIN stage.coins

\* The spends fund_mweb_send and fund_mweb_pegout return.
Psbts == [status : {"funded", "sent"}, inputs : SUBSET Coin, params : SpendParams,
          change : SUBSET Changes, recorded : BOOLEAN]

StoreTypes ==
    /\ psbt = NoPsbt \/ psbt \in Psbts
    /\ failures \in Nat
    /\ DOMAIN db.coins \subseteq Coin /\ DOMAIN stage.coins \subseteq Coin
    /\ DOMAIN txn.coins \subseteq Coin /\ DOMAIN file.coins \subseteq Coin
    /\ backend = "file" => txn = NoChanges

Covered ==
    failures = 0 =>
      /\ DOMAIN db.coins = Held
      /\ state \subseteq DOMAIN db.coins \cup lost
      /\ saved \subseteq Held \cup lost
      /\ written => DOMAIN db.coins \subseteq DOMAIN file.coins
      /\ order = "coins first" => state \subseteq DOMAIN db.coins /\ saved \subseteq DOMAIN file.coins

SpentKept == file.spent \subseteq db.spent /\ txn.spent \subseteq db.spent /\ stage.spent \subseteq db.spent

InputsKnown == psbt.status = "funded" => psbt.inputs \subseteq DOMAIN db.coins

Store == StoreTypes /\ Covered /\ SpentKept /\ InputsKnown
-----------------------------------------------------------------------------
(***************************************************************************)
(* Changesets.                                                             *)
(***************************************************************************)

\* ChangeSet::merge: coins and spent ids accumulate.
LEMMA MergeFields ==
    ASSUME NEW a, NEW b
    PROVE  /\ DOMAIN merge(a, b).coins = DOMAIN a.coins \cup DOMAIN b.coins
           /\ merge(a, b).spent = a.spent \cup b.spent
BY DEF merge

\* The empty changeset has no coins and no spent ids.
LEMMA NoChangesFields ==
    DOMAIN NoChanges.coins = {} /\ NoChanges.spent = {}
BY DEF NoChanges

\* What the mutations of the database change.
LEMMA MutationFields ==
    ASSUME NEW S, NEW h, NEW ids
    PROVE  /\ DOMAIN insert(S, h).coins = S /\ insert(S, h).spent = {}
           /\ DOMAIN mark_spent(ids).coins = {} /\ mark_spent(ids).spent = ids
           /\ DOMAIN cleared(h).coins \subseteq DOMAIN db.coins /\ cleared(h).spent = {}
BY DEF insert, mark_spent, cleared

\* A mutation is applied in memory and staged, and nowhere else.
LEMMA MutateFields ==
    ASSUME NEW change, Mutate(change)
    PROVE  /\ DOMAIN db'.coins = DOMAIN db.coins \cup DOMAIN change.coins
           /\ DOMAIN stage'.coins = DOMAIN stage.coins \cup DOMAIN change.coins
           /\ db'.spent = db.spent \cup change.spent
           /\ stage'.spent = stage.spent \cup change.spent
           /\ txn' = txn /\ file' = file
BY MergeFields DEF Mutate

-----------------------------------------------------------------------------
(***************************************************************************)
(* The steps of the wallet and the store.                                  *)
(***************************************************************************)

\* A mutation keeps the invariant when a coin that is newly counted as downloaded is one
\* it inserts, and only such a coin is no longer lost.
LEMMA MutationKeeps ==
    ASSUME Store, NEW change, DOMAIN change.coins \subseteq Coin, Mutate(change),
           UNCHANGED <<failures, saved, backend, order>>, written' = FALSE,
           state' \subseteq state \cup DOMAIN change.coins,
           lost \subseteq lost' \cup DOMAIN change.coins,
           psbt' = NoPsbt \/ psbt' \in Psbts,
           psbt'.status = "funded" => psbt.status = "funded" /\ psbt'.inputs = psbt.inputs
    PROVE  Store'
<1>1. /\ DOMAIN db'.coins = DOMAIN db.coins \cup DOMAIN change.coins
      /\ DOMAIN stage'.coins = DOMAIN stage.coins \cup DOMAIN change.coins
      /\ db'.spent = db.spent \cup change.spent
      /\ stage'.spent = stage.spent \cup change.spent
      /\ txn' = txn /\ file' = file
    BY MutateFields
<1>2. StoreTypes'
    BY <1>1 DEF Store, StoreTypes
<1>3. Covered'
    <2> SUFFICES ASSUME failures = 0 PROVE Covered'
        BY DEF Covered
    <2>1. Held' = Held \cup DOMAIN change.coins
        BY <1>1 DEF Held
    <2> QED BY <1>1, <2>1 DEF Store, Covered
<1>4. SpentKept'
    BY <1>1 DEF Store, SpentKept
<1>5. InputsKnown'
    BY <1>1 DEF Store, InputsKnown
<1> QED BY <1>2, <1>3, <1>4, <1>5 DEF Store

\* The invariant is about no more than these variables.
LEMMA OnlySpendChanges ==
    ASSUME Store, psbt' = NoPsbt \/ psbt' \in Psbts,
           psbt'.status = "funded" => psbt'.inputs \subseteq DOMAIN db.coins,
           UNCHANGED <<state, saved, db, stage, txn, file, lost, written, failures, backend, order>>
    PROVE  Store'
<1>1. StoreTypes'
    BY DEF Store, StoreTypes
<1>2. Covered' /\ SpentKept'
    BY DEF Store, Covered, Held, SpentKept
<1>3. InputsKnown'
    BY DEF InputsKnown
<1> QED BY <1>1, <1>2, <1>3 DEF Store

\* apply_update leaves the store alone.
LEMMA UpdateKeeps ==
    ASSUME Store, NEW h, NEW t, NEW placed, apply_update(h, t, placed), UNCHANGED <<backend, order>>
    PROVE  Store'
<1>1. UNCHANGED <<state, saved, db, stage, txn, file, lost, written, failures, psbt>>
    BY DEF apply_update, syncVars, storeVars
<1> QED BY <1>1, OnlySpendChanges DEF Store, StoreTypes, InputsKnown

\* disconnect_from takes heights away, never a coin.
LEMMA DisconnectKeeps ==
    ASSUME Store, NEW h, disconnect_from(h), UNCHANGED <<backend, order>>
    PROVE  Store'
<1>1. /\ Mutate(cleared(h)) /\ written' = FALSE
      /\ UNCHANGED <<state, saved, lost, failures, psbt>>
    BY DEF disconnect_from, syncVars
<1>2. DOMAIN cleared(h).coins \subseteq Coin
    <2>1. DOMAIN cleared(h).coins \subseteq DOMAIN db.coins
        BY MutationFields
    <2> QED BY <2>1 DEF Store, StoreTypes
<1> QED BY <1>1, <1>2, MutationKeeps DEF Store, StoreTypes

\* sync_differential_checkpointed counts a coin as downloaded when it inserts it.
LEMMA SyncKeeps ==
    ASSUME Store, NEW c \in Coin, sync_differential_checkpointed(c), UNCHANGED <<backend, order>>
    PROVE  Store'
<1>1. /\ SyncBatch(c) /\ lost' = lost \ (state' \ state) /\ written' = FALSE
      /\ UNCHANGED <<saved, failures, psbt>>
    BY DEF sync_differential_checkpointed
<1>2. psbt' = NoPsbt \/ psbt' \in Psbts
    BY <1>1 DEF Store, StoreTypes
<1>3. CASE Mutate(insert({c}, mined[c])) /\ state' \subseteq state \cup {c}
    <2>1. DOMAIN insert({c}, mined[c]).coins = {c}
        BY MutationFields
    <2> HIDE DEF insert
    <2> QED BY <1>1, <1>2, <1>3, <2>1, MutationKeeps
<1>4. CASE Mutate(mark_spent({c})) /\ state' \subseteq state
    <2>1. DOMAIN mark_spent({c}).coins = {}
        BY MutationFields
    <2> QED BY <1>1, <1>2, <1>4, <2>1, MutationKeeps
<1>5. CASE UNCHANGED storeVars /\ state' \subseteq state
    <2>1. UNCHANGED <<db, stage, txn, file>>
        BY <1>5 DEF storeVars
    <2>2. lost' = lost
        BY <1>1, <1>5
    <2>3. StoreTypes' /\ SpentKept' /\ InputsKnown'
        BY <1>1, <2>1 DEF Store, StoreTypes, SpentKept, InputsKnown
    <2>4. Covered'
        BY <1>1, <1>5, <2>1, <2>2 DEF Store, Covered, Held
    <2> QED BY <2>3, <2>4 DEF Store
<1> QED BY <1>1, <1>3, <1>4, <1>5 DEF SyncBatch

-----------------------------------------------------------------------------
(***************************************************************************)
(* Writing.                                                                *)
(***************************************************************************)

\* A write that failed claims nothing.
LEMMA FailureKeeps ==
    ASSUME Store, WriteErr,
           stage'.spent \subseteq db.spent, txn'.spent \subseteq db.spent,
           DOMAIN stage'.coins \subseteq Coin, DOMAIN txn'.coins \subseteq Coin,
           backend = "file" => txn' = NoChanges,
           UNCHANGED <<db, file, psbt, backend>>
    PROVE  Store'
<1>1. failures' # 0 /\ failures' \in Nat
    BY DEF WriteErr, Store, StoreTypes
<1>2. StoreTypes'
    BY <1>1 DEF Store, StoreTypes
<1> QED BY <1>1, <1>2 DEF Store, Covered, SpentKept, InputsKnown

\* Once all that was staged is in the file, the file has every coin of the store.
LEMMA SuccessKeeps ==
    ASSUME Store, WriteOk, stage' = NoChanges, txn' = NoChanges,
           NEW rest, file' = merge(file, rest),
           Held = DOMAIN file.coins \cup DOMAIN rest.coins,
           DOMAIN rest.coins \subseteq Coin, rest.spent \subseteq db.spent,
           UNCHANGED <<state, saved, db, psbt, backend, order>>
    PROVE  Store'
<1>1. written' = TRUE /\ UNCHANGED <<lost, failures>>
    BY DEF WriteOk
<1>2. DOMAIN file'.coins = DOMAIN file.coins \cup DOMAIN rest.coins /\ file'.spent = file.spent \cup rest.spent
    BY MergeFields
<1>3. Held' = DOMAIN file'.coins
    BY NoChangesFields DEF Held
<1>4. StoreTypes'
    BY <1>1, <1>2, NoChangesFields DEF Store, StoreTypes
<1>5. Covered'
    BY <1>1, <1>2, <1>3 DEF Store, Covered
<1>6. SpentKept' /\ InputsKnown'
    BY <1>2, NoChangesFields DEF Store, SpentKept, InputsKnown
<1> QED BY <1>4, <1>5, <1>6 DEF Store

\* persist_file_store writes the whole stage, or loses it and says so.
LEMMA PersistFileKeeps ==
    ASSUME Store, persist_file_store, UNCHANGED <<backend, order>>
    PROVE  Store'
<1>1. /\ stage' = NoChanges
      /\ UNCHANGED <<state, saved, db, txn, psbt>>
    BY DEF persist_file_store, chainVars, syncVars
<1>2. txn = NoChanges /\ txn' = NoChanges
    BY <1>1 DEF persist_file_store, Store, StoreTypes
<1>3. CASE file' = merge(file, stage) /\ WriteOk
    <2>1. Held = DOMAIN file.coins \cup DOMAIN stage.coins
        BY <1>2, NoChangesFields DEF Held
    <2>2. DOMAIN stage.coins \subseteq Coin /\ stage.spent \subseteq db.spent
        BY DEF Store, StoreTypes, SpentKept
    <2> QED BY <1>1, <1>2, <1>3, <2>1, <2>2, SuccessKeeps
<1>4. CASE UNCHANGED file /\ WriteErr
    BY <1>1, <1>2, <1>4, FailureKeeps, NoChangesFields
<1> QED BY <1>3, <1>4 DEF persist_file_store

\* persist_sqlite moves the stage into the transaction, or loses both.
LEMMA PersistSqliteKeeps ==
    ASSUME Store, persist_sqlite, UNCHANGED <<backend, order>>
    PROVE  Store'
<1>1. /\ backend = "sqlite" /\ stage' = NoChanges
      /\ UNCHANGED <<state, saved, db, file, psbt>>
    BY DEF persist_sqlite, chainVars, syncVars
<1>2. CASE txn' = merge(txn, stage) /\ UNCHANGED callerVars
    <2>1. UNCHANGED <<lost, written, failures>>
        BY <1>2 DEF callerVars
    <2>2. DOMAIN txn'.coins = DOMAIN txn.coins \cup DOMAIN stage.coins /\ txn'.spent = txn.spent \cup stage.spent
        BY <1>2, MergeFields
    <2>3. StoreTypes'
        BY <1>1, <2>1, <2>2, NoChangesFields DEF Store, StoreTypes
    <2>4. SpentKept' /\ InputsKnown'
        BY <1>1, <2>2, NoChangesFields DEF Store, SpentKept, InputsKnown
    <2>5. Held' = Held
        BY <1>1, <2>2, NoChangesFields DEF Held
    <2>6. Covered'
        BY <1>1, <2>1, <2>5 DEF Store, Covered
    <2> QED BY <2>3, <2>4, <2>6 DEF Store
<1>3. CASE txn' = NoChanges /\ WriteErr
    BY <1>1, <1>3, FailureKeeps, NoChangesFields
<1> QED BY <1>2, <1>3 DEF persist_sqlite

\* A commit makes durable all that is not staged, or nothing.
LEMMA CommitKeeps ==
    ASSUME Store, Commit, UNCHANGED <<backend, order>>
    PROVE  Store'
<1>1. /\ stage = NoChanges /\ stage' = NoChanges /\ txn' = NoChanges
      /\ UNCHANGED <<state, saved, db, psbt>>
    BY DEF Commit, chainVars, syncVars
<1>2. CASE file' = merge(file, txn) /\ WriteOk
    <2>1. Held = DOMAIN file.coins \cup DOMAIN txn.coins
        BY <1>1, NoChangesFields DEF Held
    <2>2. DOMAIN txn.coins \subseteq Coin /\ txn.spent \subseteq db.spent
        BY DEF Store, StoreTypes, SpentKept
    <2> QED BY <1>1, <1>2, <2>1, <2>2, SuccessKeeps
<1>3. CASE UNCHANGED file /\ WriteErr
    BY <1>1, <1>3, FailureKeeps, NoChangesFields
<1> QED BY <1>2, <1>3 DEF Commit

\* The state that is saved covers coins the store holds, or lost; after a write that
\* returned Ok, coins of the file.
LEMMA SaveKeeps ==
    ASSUME Store, SaveState, UNCHANGED <<backend, order>>
    PROVE  Store'
<1>1. /\ order = "coins first" => written
      /\ saved' = state
      /\ UNCHANGED <<state, db, stage, txn, file, lost, written, failures, psbt>>
    BY DEF SaveState, storeVars, callerVars
<1>2. StoreTypes' /\ SpentKept' /\ InputsKnown'
    BY <1>1 DEF Store, StoreTypes, SpentKept, InputsKnown
<1>3. Covered'
    BY <1>1 DEF Store, Covered, Held
<1> QED BY <1>2, <1>3 DEF Store

\* After a crash the store is what the file holds.
LEMMA CrashKeeps ==
    ASSUME Store, CrashAndLoad, UNCHANGED <<backend, order>>
    PROVE  Store'
<1>1. /\ db' = file /\ stage' = NoChanges /\ txn' = NoChanges /\ state' = saved
      /\ lost' = lost \cup DOMAIN txn.coins \cup DOMAIN stage.coins
      /\ written' = FALSE /\ psbt' = NoPsbt
      /\ UNCHANGED <<saved, file, failures>>
    BY DEF CrashAndLoad, from_changeset
<1>2. StoreTypes'
    BY <1>1, NoChangesFields DEF Store, StoreTypes
<1>3. SpentKept' /\ InputsKnown'
    BY <1>1, NoChangesFields DEF SpentKept, InputsKnown, NoPsbt
<1>4. Held' = DOMAIN file.coins
    BY <1>1, NoChangesFields DEF Held
<1>5. Covered'
    BY <1>1, <1>4 DEF Store, Covered, Held
<1> QED BY <1>2, <1>3, <1>5 DEF Store

-----------------------------------------------------------------------------
(***************************************************************************)
(* Spending.                                                               *)
(***************************************************************************)

\* select_mweb_coins returns coins it was given.
LEMMA SelectedGiven ==
    ASSUME NEW unspent, NEW need, NEW S \in select_mweb_coins(unspent, need)
    PROVE  S \subseteq unspent
<1> DEFINE singles == {c \in unspent : worth[c] >= need}
           best == {s \in singles : \A t \in singles : worth[s] <= worth[t]}
<1>1. S \in {{c} : c \in best} \/ S \in SUBSET unspent
    BY DEF select_mweb_coins
<1>2. CASE S \in {{c} : c \in best}
    BY <1>2
<1> QED BY <1>1, <1>2

\* Only unspent coins of the store are offered to the selection.
LEMMA PoolUnspent ==
    ASSUME NEW u
    PROVE  pool(u) \subseteq DOMAIN db.coins \ db.spent
BY DEF pool, unspent_spendable, unspent_vec

\* What a new spend is: its inputs were selected from the pool.
LEMMA FundedFrom ==
    ASSUME NEW p \in SpendParams, NEW u \in BOOLEAN, fund_mweb_send(p, u), StoreTypes
    PROVE  /\ psbt' \in Psbts /\ psbt'.inputs \subseteq pool(u)
           /\ UNCHANGED <<state, saved, db, stage, txn, file, lost, written, failures>>
<1>1. UNCHANGED <<state, saved, db, stage, txn, file, lost, written, failures>>
    BY DEF fund_mweb_send, syncVars, storeVars, callerVars
<1>2. PICK inputs \in select_mweb_coins(pool(u), needed(p)),
           change \in {{}} \cup {{c} : c \in {x \in Changes : worth[x] = 0}} :
         psbt' = [status |-> "funded", inputs |-> inputs, params |-> p,
                  change |-> change, recorded |-> FALSE]
    BY DEF fund_mweb_send
<1>3. inputs \subseteq pool(u) /\ change \subseteq Changes
    BY SelectedGiven
<1>4. inputs \subseteq Coin
    BY <1>3, PoolUnspent DEF StoreTypes
<1>5. psbt' \in Psbts /\ psbt'.inputs = inputs
    BY <1>2, <1>3, <1>4 DEF Psbts
<1> QED BY <1>1, <1>3, <1>5

\* fund_mweb_send leaves the store alone.
LEMMA FundKeeps ==
    ASSUME Store, NEW p \in SpendParams, NEW u \in BOOLEAN, fund_mweb_send(p, u), UNCHANGED <<backend, order>>
    PROVE  Store'
<1>1. /\ psbt' \in Psbts /\ psbt'.inputs \subseteq DOMAIN db.coins
      /\ UNCHANGED <<state, saved, db, stage, txn, file, lost, written, failures>>
    BY FundedFrom, PoolUnspent DEF Store
<1> QED BY <1>1, OnlySpendChanges

\* A spend that is being worked on has all its fields.
LEMMA SpendTyped ==
    ASSUME StoreTypes, psbt.status \in {"funded", "sent"}
    PROVE  psbt \in Psbts
BY DEF StoreTypes, NoPsbt

\* sign_mweb_components creates the change and leaves the store alone.
LEMMA SignKeeps ==
    ASSUME Store, sign_mweb_components, UNCHANGED <<backend, order>>
    PROVE  Store'
<1>1. /\ psbt.status = "funded" /\ psbt' = [psbt EXCEPT !.status = "sent"]
      /\ UNCHANGED <<state, saved, db, stage, txn, file, lost, written, failures>>
    BY DEF sign_mweb_components, syncVars, storeVars, callerVars
<1>2. psbt \in Psbts
    BY <1>1, SpendTyped DEF Store
<1>3. psbt' \in Psbts /\ psbt'.status = "sent"
    BY <1>1, <1>2 DEF Psbts
<1> QED BY <1>1, <1>3, OnlySpendChanges

\* The caller marks the inputs of a funded spend spent.
LEMMA RecordSpentKeeps ==
    ASSUME Store, RecordSpent, UNCHANGED <<backend, order>>
    PROVE  Store'
<1>1. /\ psbt.status = "funded" /\ Mutate(mark_spent(psbt.inputs))
      /\ psbt' = [psbt EXCEPT !.recorded = TRUE] /\ written' = FALSE
      /\ UNCHANGED <<state, saved, lost, failures>>
    BY DEF RecordSpent, syncVars
<1>2. psbt \in Psbts
    BY <1>1, SpendTyped DEF Store
<1>3. psbt' \in Psbts /\ psbt'.status = psbt.status /\ psbt'.inputs = psbt.inputs
    BY <1>1, <1>2 DEF Psbts
<1>4. DOMAIN mark_spent(psbt.inputs).coins = {}
    BY MutationFields
<1> QED BY <1>1, <1>3, <1>4, MutationKeeps

\* The caller records a spend it broadcast: inputs spent, change not yet dated.
LEMMA RecordSentKeeps ==
    ASSUME Store, RecordSent, UNCHANGED <<backend, order>>
    PROVE  Store'
<1> DEFINE all == merge(mark_spent(psbt.inputs), insert(psbt.change, 0))
<1>1. /\ psbt.status = "sent" /\ Mutate(all)
      /\ psbt' = NoPsbt /\ written' = FALSE
      /\ UNCHANGED <<state, saved, lost, failures>>
    BY DEF RecordSent, syncVars
<1>2. psbt.change \subseteq Coin
    BY <1>1, SpendTyped DEF Store, Psbts, Coin
<1>3. DOMAIN all.coins \subseteq Coin
    <2>1. DOMAIN all.coins = DOMAIN mark_spent(psbt.inputs).coins \cup DOMAIN insert(psbt.change, 0).coins
        BY MergeFields
    <2>2. DOMAIN mark_spent(psbt.inputs).coins = {} /\ DOMAIN insert(psbt.change, 0).coins = psbt.change
        BY MutationFields
    <2> QED BY <1>2, <2>1, <2>2
<1> HIDE DEF all
<1>4. psbt'.status # "funded"
    BY <1>1 DEF NoPsbt
<1> QED BY <1>1, <1>3, <1>4, MutationKeeps

\* prepare_mweb_pegin creates a coin the store does not know yet.
LEMMA PeginKeeps ==
    ASSUME Store, NEW c, NEW p, prepare_mweb_pegin(c, p), UNCHANGED <<backend, order>>
    PROVE  Store'
<1>1. UNCHANGED <<state, saved, db, stage, txn, file, lost, written, failures, psbt>>
    BY DEF prepare_mweb_pegin, syncVars, storeVars, callerVars
<1> QED BY <1>1, OnlySpendChanges DEF Store, StoreTypes, InputsKnown

\* The caller inserts the output of a peg-in.
LEMMA RecordPeginKeeps ==
    ASSUME Store, NEW c \in Pegins, RecordPegin(c), UNCHANGED <<backend, order>>
    PROVE  Store'
<1>1. /\ Mutate(insert({c}, tip)) /\ written' = FALSE
      /\ UNCHANGED <<state, saved, lost, failures, psbt>>
    BY DEF RecordPegin, syncVars
<1>2. DOMAIN insert({c}, tip).coins \subseteq Coin
    <2>1. DOMAIN insert({c}, tip).coins = {c}
        BY MutationFields
    <2> QED BY <2>1 DEF Coin
<1> HIDE DEF insert
<1> QED BY <1>1, <1>2, MutationKeeps DEF Store, StoreTypes

-----------------------------------------------------------------------------
(***************************************************************************)
(* The invariant holds, and what follows from it.                          *)
(***************************************************************************)

\* The invariant holds before anything is mined, stored or written.
LEMMA StoreInit ==
    ASSUME Init PROVE Store
<1>1. StoreTypes
    BY NoChangesFields DEF Init, StoreTypes
<1>2. Covered
    BY NoChangesFields DEF Init, Covered, Held
<1>3. SpentKept /\ InputsKnown
    BY NoChangesFields DEF Init, SpentKept, InputsKnown, NoPsbt
<1> QED BY <1>1, <1>2, <1>3 DEF Store

\* Every step of the wallet, the store and their caller keeps the invariant.
LEMMA StoreStep ==
    ASSUME Store, [Next]_vars PROVE Store'
<1>1. CASE Next
    <2> USE <1>1
    <2>0. UNCHANGED <<backend, order>>
        BY DEF Next
    <2>1. ASSUME NEW h \in 1..MaxHeight, NEW t \in 1..MaxHeight, NEW placed \in [Coin -> Heights],
                 apply_update(h, t, placed)
          PROVE  Store'
        BY <2>0, <2>1, UpdateKeeps
    <2>2. ASSUME NEW h \in 1..MaxHeight, disconnect_from(h) PROVE Store'
        BY <2>0, <2>2, DisconnectKeeps
    <2>3. ASSUME NEW c \in Coin, sync_differential_checkpointed(c) PROVE Store'
        BY <2>0, <2>3, SyncKeeps
    <2>4. ASSUME NEW p \in SpendParams, NEW u \in BOOLEAN, fund_mweb_send(p, u) PROVE Store'
        BY <2>0, <2>4, FundKeeps
    <2>5. ASSUME NEW c \in Pegins, NEW p \in PeginParams, prepare_mweb_pegin(c, p) PROVE Store'
        BY <2>0, <2>5, PeginKeeps
    <2>6. ASSUME NEW c \in Pegins, RecordPegin(c) PROVE Store'
        BY <2>0, <2>6, RecordPeginKeeps
    <2> QED BY <2>0, <2>1, <2>2, <2>3, <2>4, <2>5, <2>6, PersistFileKeeps, PersistSqliteKeeps,
               CommitKeeps, SaveKeeps, CrashKeeps, SignKeeps, RecordSpentKeeps, RecordSentKeeps DEF Next
<1>2. CASE UNCHANGED vars
    <2>1. UNCHANGED <<state, saved, db, stage, txn, file, lost, written, failures, psbt, backend, order>>
        BY <1>2 DEF vars, chainVars, syncVars, storeVars, callerVars
    <2> QED BY <2>1, OnlySpendChanges DEF Store, StoreTypes, InputsKnown
<1> QED BY <1>1, <1>2

\* The invariant holds throughout.
LEMMA StoreAlways == Spec => []Store
BY StoreInit, StoreStep, PTL DEF Spec

\* Whatever order a caller writes the coins and the SyncState in, a crash between the two
\* writes is all that can make the state cover a coin that is not held; and nothing can
\* when the coins are written first.
THEOREM WindowOnly == Spec => []OnlyTheWindowLoses
<1>1. Store => OnlyTheWindowLoses
    BY DEF Store, Covered, Held, OnlyTheWindowLoses
<1> QED BY <1>1, StoreAlways, PTL

\* A funded spend can be signed from the store until it is signed.
THEOREM FundedSignable == Spec => []SignableUntilSigned
<1>1. Store => SignableUntilSigned
    BY DEF Store, InputsKnown, SignableUntilSigned, signing_coins, unspent_vec
<1> QED BY <1>1, StoreAlways, PTL

\* A spend appears only by fund_mweb_send.
LEMMA OnlyFundFunds ==
    ASSUME [Next]_vars, psbt = NoPsbt, psbt'.status = "funded"
    PROVE  \E p \in SpendParams, u \in BOOLEAN : fund_mweb_send(p, u)
<1>1. psbt' # psbt /\ psbt.status = "none"
    BY DEF NoPsbt
<1>2. psbt' # NoPsbt
    BY <1>1
<1>3. ~UNCHANGED vars
    BY <1>1 DEF vars
<1>4. Next
    BY <1>3
<1> QED BY <1>1, <1>2, <1>4
        DEF Next, apply_update, disconnect_from, sync_differential_checkpointed, persist_file_store,
            persist_sqlite, Commit, SaveState, CrashAndLoad, sign_mweb_components, RecordSpent, RecordSent,
            prepare_mweb_pegin, RecordPegin

\* No coin whose spending reached the disk is selected again.
THEOREM NeverRespends == Spec => NoRespend
<1>1. ASSUME Store, [Next]_vars
      PROVE  [Funds(psbt'.inputs \cap file.spent = {})]_vars
    <2> SUFFICES ASSUME psbt = NoPsbt, psbt'.status = "funded"
                 PROVE  psbt'.inputs \cap file.spent = {}
        BY DEF Funds
    <2>1. PICK p \in SpendParams, u \in BOOLEAN : fund_mweb_send(p, u)
        BY <1>1, OnlyFundFunds
    <2>2. psbt'.inputs \subseteq DOMAIN db.coins \ db.spent
        BY <1>1, <2>1, FundedFrom, PoolUnspent DEF Store
    <2> QED BY <1>1, <2>2 DEF Store, SpentKept
<1> QED BY <1>1, StoreAlways, PTL DEF Spec, NoRespend
=============================================================================

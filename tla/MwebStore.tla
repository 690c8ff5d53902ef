------------------------------ MODULE MwebStore ------------------------------
(***************************************************************************)
(* The MWEB facade, src/src/wallet/mweb.rs: the coin store kept beside the *)
(* wallet, its stage and its persistence, differential synchronization,    *)
(* and the spends funded from it.                                          *)
(*                                                                         *)
(* Three parties take steps.  The wallet follows the best chain, which     *)
(* apply_update replaces and extends in one step.  The store keeps coins   *)
(* in memory, stages every mutation and writes the stage to a file or into *)
(* a SQLite transaction.  The caller, which owns both, synchronizes,       *)
(* persists, saves the synchronization state, spends, and may crash at any *)
(* point.  It calls in any order: examples/mainnet_mweb.rs saves the state *)
(* before it appends the coins and never tells the store of a              *)
(* reorganization, examples/mweb_regtest.rs documents another caller.      *)
(*                                                                         *)
(* MwebCoinDatabase, its ChangeSet and the network are outside this        *)
(* repository and are modelled by how mweb.rs and the examples use them.   *)
(***************************************************************************)
EXTENDS Integers, FiniteSets, FiniteSetsExt, Functions

CONSTANTS
  Received,      \* coins others pay to this wallet's MWEB addresses
  Pegins,        \* coins that prepare_mweb_pegin creates
  Changes,       \* coins that are the change of a spend
  Worth,         \* [Received -> amounts]
  PeginParams,   \* [amount, fee] a peg-in may be asked for
  SpendParams,   \* [amount, fee] a spend may be asked for
  Maturity,      \* MWEB_PEGIN_MATURITY
  U64Max,        \* u64::MAX
  MaxHeight,     \* bound: the highest block mined
  Callers,       \* pairs of the backend a caller uses and when it saves the SyncState
  MaxFailures,   \* bound: writes or transactions that fail
  MaxMishaps     \* bound: reorganizations and crashes

Coin == Received \cup Pegins \cup Changes

ASSUME MwebConstants ==
  /\ MaxHeight \in Nat /\ Maturity \in Nat /\ U64Max \in Nat
  /\ MaxFailures \in Nat /\ MaxMishaps \in Nat
  /\ Worth \in [Received -> 1..U64Max]
  /\ Callers \subseteq {"file", "sqlite"} \X {"coins first", "any time"}
  /\ Received \cap Pegins = {} /\ (Received \cup Pegins) \cap Changes = {}
  /\ MapThenSumSet(LAMBDA c : Worth[c], Received) < U64Max
  /\ \A p \in PeginParams \cup SpendParams : p.amount \in 0..U64Max /\ p.fee \in 0..U64Max

VARIABLES
  tip,       \* latest_checkpoint().height() of the wallet
  mined,     \* where each coin is in the best chain, 0 when it is not
  worth,     \* what each coin is worth, 0 until somebody creates it
  state,     \* SyncState: the leaves downloaded so far
  saved,     \* the SyncState the caller wrote last
  db,        \* MwebStore::db, in memory
  stage,     \* what db changed since take_staged
  txn,       \* what the open SQLite transaction holds
  file,      \* the changesets written so far, aggregated
  owed,      \* the disconnect_from the examples ask for after a shorter tip, 0 when none
  lost,      \* coins that were staged or in an open transaction when the process died
  written,   \* the last call on the store was a persist that returned Ok
  backend,   \* what the caller writes to, chosen once
  order,     \* when the caller saves the SyncState, chosen once
  psbt,      \* the funded spend being worked on
  failures,  \* writes that failed so far
  mishaps    \* reorganizations and crashes so far

chainVars  == <<tip, mined, worth, mishaps>>
syncVars   == <<state, saved>>
storeVars  == <<db, stage, txn, file>>
callerVars == <<owed, lost, written, failures>>
vars == <<chainVars, syncVars, storeVars, callerVars, psbt, backend, order>>

Heights == 0..MaxHeight
NoPsbt == [status |-> "none"]

\* A ChangeSet: the coins by id with their heights (0 for None), and the ids spent.
NoChanges == [coins |-> <<>>, spent |-> {}]
merge(a, b) == [coins |-> [c \in DOMAIN a.coins \cup DOMAIN b.coins |->
                              IF c \in DOMAIN b.coins THEN b.coins[c] ELSE a.coins[c]],
                spent |-> a.spent \cup b.spent]

\* Mutations of the database: each is applied in memory and staged (Mutate).
insert(coins, h) == [coins |-> [x \in coins |-> h], spent |-> {}]
mark_spent(ids) == [coins |-> <<>>, spent |-> ids]
cleared(h) == [coins |-> [c \in {x \in DOMAIN db.coins : db.coins[x] >= h} |-> 0], spent |-> {}]

Mutate(change) == /\ db' = merge(db, change)
                  /\ stage' = merge(stage, change)
                  /\ UNCHANGED <<txn, file>>

Total(S) == MapThenSumSet(LAMBDA c : worth[c], S)
unspent_vec == DOMAIN db.coins \ db.spent
is_confirmed(c) == db.coins[c] \in 1..tip
balance_combined ==
  LET confirmed == {c \in unspent_vec : is_confirmed(c)}
  IN [mweb_confirmed |-> Total(confirmed),
      mweb_untrusted_pending |-> Total(unspent_vec \ confirmed)]
unspent_spendable ==
  {c \in unspent_vec : is_confirmed(c) /\ (c \in Pegins => tip >= db.coins[c] + Maturity)}
-----------------------------------------------------------------------------
(* The wallet's chain, and what it tells nobody. *)

\* apply_update: the blocks from h up, if there are any, give way to those of the update,
\* up to its tip t.  The coins of the blocks that go are in new blocks or in none.
apply_update(h, t, placed) ==
  /\ h <= tip + 1 /\ h <= t
  /\ mishaps' = mishaps + (IF h <= tip THEN 1 ELSE 0) /\ mishaps' <= MaxMishaps
  /\ \A c \in Coin : IF mined[c] \in 1..(h - 1) THEN placed[c] = mined[c]
                     ELSE placed[c] = 0 \/ (worth[c] # 0 /\ placed[c] \in h..t)
  /\ tip' = t
  /\ mined' = placed
  /\ owed' = (IF t < tip THEN t + 1 ELSE owed)
  /\ UNCHANGED <<worth, syncVars, storeVars, lost, written, failures, psbt>>
-----------------------------------------------------------------------------
(* MwebStore. *)

\* disconnect_from(height): the caller decides whether, when and from where.
disconnect_from(h) ==
  /\ Mutate(cleared(h))
  /\ owed' = (IF h <= owed THEN 0 ELSE owed)
  /\ written' = FALSE
  /\ UNCHANGED <<chainVars, syncVars, lost, failures, psbt>>

\* What one completed batch of run_once does for coin c: a new leaf is downloaded and
\* dated, a known coin is dated again, a leaf that left the leafset is forgotten and its
\* coin may count as spent.
\* The pass may end, or fail, between any two batches.
SyncBatch(c) ==
  \/ /\ mined[c] # 0 /\ c \notin state
     /\ state' = state \cup {c}
     /\ Mutate(insert({c}, mined[c]))
  \/ /\ c \in state \cap DOMAIN db.coins
     /\ mined[c] # 0 /\ db.coins[c] # mined[c]
     /\ Mutate(insert({c}, mined[c]))
     /\ UNCHANGED state
  \/ /\ c \in state /\ mined[c] = 0
     /\ state' = state \ {c}
     /\ UNCHANGED storeVars \/ (c \in DOMAIN db.coins /\ Mutate(mark_spent({c})))

sync_differential_checkpointed(c) ==
  /\ SyncBatch(c)
  /\ lost' = lost \ (state' \ state)
  /\ written' = FALSE
  /\ UNCHANGED <<chainVars, saved, owed, failures, psbt>>

WriteOk == /\ written' = TRUE
           /\ UNCHANGED <<owed, lost, failures>>

WriteErr == /\ failures < MaxFailures
            /\ failures' = failures + 1
            /\ written' = FALSE
            /\ UNCHANGED <<owed, lost>>

\* The stage is taken before the append: an append that fails leaves it empty.
persist_file_store ==
  /\ backend = "file"
  /\ stage' = NoChanges
  /\ \/ file' = merge(file, stage) /\ WriteOk
     \/ UNCHANGED file /\ WriteErr
  /\ UNCHANGED <<chainVars, syncVars, db, txn, psbt>>

\* A seeded bug: the write is reported as durable before the transaction commits.
persist_sqlite_early ==
  /\ backend = "sqlite"
  /\ stage' = NoChanges
  /\ txn' = merge(txn, stage) /\ WriteOk
  /\ UNCHANGED <<chainVars, syncVars, db, file, psbt>>

\* The stage moves into the caller's transaction; a statement that fails rolls it back.
persist_sqlite ==
  /\ backend = "sqlite"
  /\ stage' = NoChanges
  /\ \/ txn' = merge(txn, stage) /\ UNCHANGED callerVars
     \/ txn' = NoChanges /\ WriteErr
  /\ UNCHANGED <<chainVars, syncVars, db, file, psbt>>

\* The caller commits, once nothing is staged any more, or the commit fails.
Commit ==
  /\ backend = "sqlite" /\ stage = NoChanges
  /\ txn' = NoChanges
  /\ \/ file' = merge(file, txn) /\ WriteOk
     \/ UNCHANGED file /\ WriteErr
  /\ UNCHANGED <<chainVars, syncVars, db, stage, psbt>>

\* The caller saves the SyncState of a checkpoint: after the coins it covers were
\* written, or, as examples/mainnet_mweb.rs does, before them.
SaveState ==
  /\ order = "coins first" => written
  /\ saved' = state
  /\ UNCHANGED <<chainVars, state, storeVars, callerVars, psbt>>

\* A seeded bug: the spent ids are not read back.
from_changeset_coins(cs) == [cs EXCEPT !.spent = {}]

from_changeset(cs) == cs

\* The process dies; load_file_store or load_sqlite reads back what was written.
\* The wallet, persisted before the store, knows the chain it knew.
CrashAndLoad ==
  /\ mishaps < MaxMishaps /\ mishaps' = mishaps + 1
  /\ db' = from_changeset(file)
  /\ stage' = NoChanges /\ txn' = NoChanges
  /\ state' = saved
  /\ lost' = lost \cup DOMAIN txn.coins \cup DOMAIN stage.coins
  /\ written' = FALSE
  /\ psbt' = NoPsbt
  /\ UNCHANGED <<tip, mined, worth, saved, file, owed, failures>>
-----------------------------------------------------------------------------
(* Spending. *)

\* A seeded bug: the sum wraps.
needed_wrapping(p) == (p.amount + p.fee) % (U64Max + 1)

needed(p) == Min({p.amount + p.fee, U64Max})

\* The smallest coin that covers `need' alone, else the largest coins until they do;
\* equal amounts may come in any order.  Empty when the call returns an error.
select_mweb_coins(unspent, need) ==
  LET singles == {c \in unspent : worth[c] >= need}
      LargestFirst(S) == \A c \in S : \A d \in unspent \ S : worth[c] >= worth[d]
      StopsAt(S) == \E last \in S : /\ \A c \in S : worth[last] <= worth[c]
                                    /\ Total(S \ {last}) < need
  IN IF unspent = {} \/ Total(unspent) < need THEN {}
     ELSE IF singles # {}
       THEN {{c} : c \in {s \in singles : \A t \in singles : worth[s] <= worth[t]}}
       ELSE {S \in SUBSET unspent : LargestFirst(S) /\ Total(S) >= need /\ StopsAt(S)}

pool(include_unconfirmed) == IF include_unconfirmed THEN unspent_vec ELSE unspent_spendable

\* fund_mweb_send, fund_mweb_pegout and the deprecated build_mweb_*_with: they read the
\* database and leave it alone.  What the inputs exceed the target by is change.
fund_mweb_send(p, include_unconfirmed) ==
  /\ psbt = NoPsbt
  /\ \E inputs \in select_mweb_coins(pool(include_unconfirmed), needed(p)) :
       \E change \in {{}} \cup {{c} : c \in {x \in Changes : worth[x] = 0}} :
         /\ change = {} <=> Total(inputs) = p.amount + p.fee
         /\ psbt' = [status |-> "funded", inputs |-> inputs, params |-> p,
                     change |-> change, recorded |-> FALSE]
  /\ UNCHANGED <<chainVars, syncVars, storeVars, callerVars>>

change_from_funded == Total(psbt.inputs) - psbt.params.amount - psbt.params.fee

\* A seeded bug: coins already marked spent are not looked up.
signing_coins_unspent(inputs) == unspent_vec

\* The coins whose secrets sign_mweb_components signs with.
signing_coins(inputs) == unspent_vec \cup (inputs \cap db.spent)

\* The spend is signed, extracted and broadcast: its change exists.
\* sign_and_extract_funded_mweb does the same with the coins the funded PSBT carries.
sign_mweb_components ==
  /\ psbt.status = "funded"
  /\ psbt.inputs \subseteq signing_coins(psbt.inputs)
  /\ worth' = [c \in Coin |-> IF c \in psbt.change THEN change_from_funded ELSE worth[c]]
  /\ psbt' = [psbt EXCEPT !.status = "sent"]
  /\ UNCHANGED <<tip, mined, mishaps, syncVars, storeVars, callerVars>>

\* The caller marks the inputs spent, before or after signing, and inserts the change.
RecordSpent ==
  /\ psbt.status = "funded" /\ ~psbt.recorded
  /\ Mutate(mark_spent(psbt.inputs))
  /\ psbt' = [psbt EXCEPT !.recorded = TRUE]
  /\ written' = FALSE
  /\ UNCHANGED <<chainVars, syncVars, owed, lost, failures>>

RecordSent ==
  /\ psbt.status = "sent"
  /\ Mutate(merge(mark_spent(psbt.inputs), insert(psbt.change, 0)))
  /\ psbt' = NoPsbt
  /\ written' = FALSE
  /\ UNCHANGED <<chainVars, syncVars, owed, lost, failures>>

\* A peg-in: the MWEB half is funded and signed first, then the transparent half is
\* built around its kernel; the output is worth what the MWEB fee leaves.
prepare_mweb_pegin(c, p) ==
  /\ worth[c] = 0
  /\ p.amount > p.fee
  /\ worth' = [worth EXCEPT ![c] = p.amount - p.fee]
  /\ UNCHANGED <<tip, mined, mishaps, syncVars, storeVars, callerVars, psbt>>

\* The caller inserts the outputs of a peg-in it prepared: dated at its tip, right after
\* the broadcast (examples/mainnet_mweb.rs) or once they are mature (the doc comment).
RecordPegin(c) ==
  /\ worth[c] # 0 /\ c \notin DOMAIN db.coins
  /\ Mutate(insert({c}, tip))
  /\ written' = FALSE
  /\ UNCHANGED <<chainVars, syncVars, owed, lost, failures, psbt>>
-----------------------------------------------------------------------------
Init ==
  /\ tip = 0
  /\ mined = [c \in Coin |-> 0]
  /\ worth = [c \in Coin |-> IF c \in Received THEN Worth[c] ELSE 0]
  /\ state = {} /\ saved = {}
  /\ db = NoChanges /\ stage = NoChanges /\ txn = NoChanges /\ file = NoChanges
  /\ owed = 0 /\ lost = {} /\ written = FALSE /\ failures = 0 /\ mishaps = 0
  /\ \E caller \in Callers : backend = caller[1] /\ order = caller[2]
  /\ psbt = NoPsbt

Next ==
  /\ UNCHANGED <<backend, order>>
  /\ \/ \E h, t \in 1..MaxHeight, placed \in [Coin -> Heights] : apply_update(h, t, placed)
     \/ \E h \in 1..MaxHeight : disconnect_from(h)
     \/ \E c \in Coin : sync_differential_checkpointed(c)
     \/ persist_file_store
     \/ persist_sqlite
     \/ Commit
     \/ SaveState
     \/ CrashAndLoad
     \/ \E p \in SpendParams, u \in BOOLEAN : fund_mweb_send(p, u)
     \/ sign_mweb_components
     \/ RecordSpent
     \/ RecordSent
     \/ \E c \in Pegins, p \in PeginParams : prepare_mweb_pegin(c, p)
     \/ \E c \in Pegins : RecordPegin(c)

Spec == Init /\ [][Next]_vars
-----------------------------------------------------------------------------
\* Whatever the saved state counts as downloaded is in the file, still on its way there,
\* or was on its way when the process died, as long as no write failed: a crash between
\* the two writes of a checkpoint is all that can make a resumed synchronization miss a
\* coin, and a caller that saves the state only after persist returned Ok has no such
\* crash (MwebCheckpoint: "persist partway through and resume there").
OnlyTheWindowLoses ==
  failures = 0 =>
    /\ saved \subseteq DOMAIN file.coins \cup DOMAIN txn.coins \cup DOMAIN stage.coins \cup lost
    /\ order = "coins first" => saved \subseteq DOMAIN file.coins

\* The same with writes that fail and are tried again until they return Ok: what the
\* saved state of a caller that writes the coins first counts as downloaded is in the file.
ResumeMissesNothingOnRetry == saved \subseteq DOMAIN file.coins

\* balance_combined, for a caller that does what the examples ask for, disconnect_from
\* after a shorter tip: the confirmed bucket holds the coins that are in the best chain at
\* the height the store has for them.
BalanceIsReal ==
  owed = 0 =>
    balance_combined.mweb_confirmed =
      Total({c \in unspent_vec : mined[c] # 0 /\ db.coins[c] = mined[c]})

Funds(A) == psbt = NoPsbt /\ psbt'.status = "funded" => A

\* No funded spend selects a coin whose spending had reached the disk: a restart, or a
\* synchronization that finds the coin again, never makes it spendable.
NoRespend == [][Funds(psbt'.inputs \cap file.spent = {})]_vars

\* The inputs of a funded spend cover the amount and the fee as unbounded integers,
\* although MwebSpendParams::needed adds them in 64 bits.
FundsCovered ==
  psbt # NoPsbt => Total(psbt.inputs) >= psbt.params.amount + psbt.params.fee

\* A funded spend can be signed from the store until it is signed, also after the
\* caller marked its inputs spent and persisted that.
SignableUntilSigned ==
  psbt.status = "funded" => psbt.inputs \subseteq signing_coins(psbt.inputs)
=============================================================================

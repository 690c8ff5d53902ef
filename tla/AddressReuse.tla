---------------------------- MODULE AddressReuse ----------------------------
(***************************************************************************)
(* A PersistedWallet used as its docs ask: the staged changes are          *)
(* persisted before the wallet is closed.  Under that discipline, which    *)
(* scripts are handed out twice?                                           *)
(***************************************************************************)
EXTENDS PersistedWallet

VARIABLES
    revealed_to_user,  \* [Scripts -> how often reveal_next_address returned it]
    session_change     \* [Scripts -> how often create_tx used it for change since the wallet was opened]

ghosts == <<revealed_to_user, session_change>>
reuseVars == <<vars, ghosts>>

\* Handouts are counted up to two: the second one is a reuse.
Zero == [s \in Scripts |-> 0]
Count(f, s) == [f EXCEPT ![s] = IF @ < 2 THEN @ + 1 ELSE @]

ReuseInit == Init /\ revealed_to_user = Zero /\ session_change = Zero

InMemory(action) == opened /\ action /\ UNCHANGED <<backend, opened, db>>

\* While the keychain still has an index to reveal (past the last one, the
\* code can only repeat itself).
RevealNext(k) ==
    /\ revealed[map_keychain(k)] < MaxIndex
    /\ InMemory(reveal_next_address(k))
    /\ revealed_to_user' = Count(revealed_to_user, <<map_keychain(k), revealed'[map_keychain(k)]>>)
    /\ UNCHANGED session_change

CreateTx ==
    LET k == map_keychain("Internal")
        s == <<k, ChangeIndex>>
    IN  /\ Unused(k) # {} \/ revealed[k] < MaxIndex
        /\ InMemory(create_tx)
        /\ session_change' = Count(session_change, s)
        /\ UNCHANGED revealed_to_user

\* The other ways to move the index: neither hands out a fresh address.
OtherOp ==
    /\ \/ \E k \in Keychains, i \in Indices : InMemory(reveal_addresses_to(k, i))
       \/ \E batch \in Batches : InMemory(apply_unconfirmed_txs(batch))
    /\ UNCHANGED ghosts

\* Closing with an empty stage, the discipline the docs ask for.
CloseAfterPersist ==
    /\ IsEmpty(stage)
    /\ Close
    /\ session_change' = Zero
    /\ UNCHANGED revealed_to_user

Reopen ==
    /\ \/ \E p \in CreateParams : Create(p)
       \/ \E p \in LoadParams : Load(p)
       \/ Persist
       \/ PersistFails
    /\ UNCHANGED ghosts

ReuseNext == (\E k \in Keychains : RevealNext(k)) \/ CreateTx \/ OtherOp \/ CloseAfterPersist \/ Reopen
ReuseSpec == ReuseInit /\ [][ReuseNext]_reuseVars

-----------------------------------------------------------------------------
\* reveal_next_address never returns the same address twice, over any number
\* of restarts and failed writes.
RevealedOnce == \A s \in Scripts : revealed_to_user[s] <= 1

\* Between opening and closing, no two transactions get the same change script.
ChangeOncePerSession == \A s \in Scripts : session_change[s] <= 1
=============================================================================

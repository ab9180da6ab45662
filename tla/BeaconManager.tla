---------------------------- MODULE BeaconManager ----------------------------
(***************************************************************************)
(* BeaconMockManager (beacon/manager/manager.go): the current database,    *)
(* the named snapshots of it, and the *Validator pointers its callers got  *)
(* from AddValidator and GetValidator and still hold.                      *)
(*                                                                         *)
(* Databases live on a heap and are only ever reached through a pointer    *)
(* (their position on the heap), so that two names for one database, and a *)
(* pointer into a database the manager has since replaced, can be told     *)
(* from copies.  A method call of the manager is one step; the server      *)
(* module refines the unlocked ones.                                       *)
(***************************************************************************)
EXTENDS BeaconDatabase

CONSTANTS
    Names,          \* snapshot names
    Callers,        \* test code or request handlers that hold a *Validator
    Balances,       \* balances passed to SetBalance
    Penalties,      \* penalties passed to Slash
    NewStatuses,    \* statuses passed to SetStatus
    MaxDatabases    \* bound on the databases ever allocated

ASSUME InputAssumption ==
    /\ Balances \subseteq Uint
    /\ Penalties \subseteq Uint
    /\ NewStatuses \subseteq Statuses

VARIABLES
    heap,        \* every database allocated so far
    database,    \* m.database
    snapshots,   \* m.snapshots; 0 where the name is absent
    held,        \* the *Validator each caller holds
    panicked,    \* a method panicked
    taken,       \* history: the database value when the snapshot was taken
    last         \* history: the snapshot call that has just returned nil

vars == <<heap, database, snapshots, held, panicked, taken, last>>

\* A *Validator: the database that allocated it and its position there.
Pointer(id, position) == [db |-> id, position |-> position]
Nil == Pointer(0, 0)

Current == heap[database]
Ids == 1 .. Len(heap)

SnapshotCalls == {<<>>} \union ({"TakeSnapshot", "RevertToSnapshot"} \X Names)

TypeOK ==
    /\ heap \in Seq(Databases)
    /\ database \in Ids
    /\ snapshots \in [Names -> 0 .. Len(heap)]
    /\ held \in [Callers -> [db : Nat, position : Nat]]
    /\ \A c \in Callers :
          held[c] # Nil =>
             /\ held[c].db \in Ids
             /\ held[c].position \in 1 .. Len(heap[held[c].db].validators)
    /\ panicked \in BOOLEAN
    /\ taken \in [Names -> Databases]
    /\ last \in SnapshotCalls

Init ==
    /\ heap = <<NewDatabase>>
    /\ database = 1
    /\ snapshots = [n \in Names |-> 0]
    /\ held = [c \in Callers |-> Nil]
    /\ panicked = FALSE
    /\ taken = [n \in Names |-> NewDatabase]
    /\ last = <<>>

-----------------------------------------------------------------------------
(* Snapshots *)

\* Mutant: the snapshot is the database itself, not a clone.
TakeWithoutClone(n) ==
    /\ snapshots' = [snapshots EXCEPT ![n] = database]
    /\ taken' = [taken EXCEPT ![n] = Current]
    /\ last' = <<"TakeSnapshot", n>>
    /\ UNCHANGED <<heap, database, held, panicked>>

\* The assignment to m.snapshots overwrites a snapshot of the same name.
TakeSnapshot(n) ==
    /\ Len(heap) < MaxDatabases
    /\ heap' = Append(heap, Clone(Current))
    /\ snapshots' = [snapshots EXCEPT ![n] = Len(heap) + 1]
    /\ taken' = [taken EXCEPT ![n] = Current]
    /\ last' = <<"TakeSnapshot", n>>
    /\ UNCHANGED <<database, held, panicked>>

\* Mutant: the snapshot itself becomes the database, not a clone.
RevertWithoutClone(n) ==
    /\ snapshots[n] # 0
    /\ database' = snapshots[n]
    /\ last' = <<"RevertToSnapshot", n>>
    /\ UNCHANGED <<heap, snapshots, held, panicked, taken>>

\* An unknown name is an error and changes nothing.
RevertToSnapshot(n) ==
    /\ Len(heap) < MaxDatabases
    /\ snapshots[n] # 0
    /\ heap' = Append(heap, Clone(heap[snapshots[n]]))
    /\ database' = Len(heap) + 1
    /\ last' = <<"RevertToSnapshot", n>>
    /\ UNCHANGED <<snapshots, held, panicked, taken>>

\* The caller's database starts empty; provisioning it after the call takes
\* the same Database methods as before the call.
SetDatabase ==
    /\ Len(heap) < MaxDatabases
    /\ heap' = Append(heap, NewDatabase)
    /\ database' = Len(heap) + 1
    /\ last' = <<>>
    /\ UNCHANGED <<snapshots, held, panicked, taken>>

-----------------------------------------------------------------------------
(* The chain *)

Update(db) ==
    /\ heap' = [heap EXCEPT ![database] = db]
    /\ UNCHANGED <<database, snapshots, held, panicked, taken>>

CommitBlock(slotValidated) ==
    /\ Current.currentSlot < MaxSlot
    /\ Update(WithBlock(Current, slotValidated))

SetHighestSlot(slot) == Update(WithHighestSlot(Current, slot))

AddPendingDeposit(deposit) == Update(WithDeposit(Current, deposit))

RemovePendingDeposit(deposit) ==
    \/ /\ ~RemovePanics(Current)
       /\ Update(WithoutDeposit(Current, deposit))
    \/ /\ RemovePanics(Current)
       /\ panicked' = TRUE
       /\ UNCHANGED <<heap, database, snapshots, held, taken>>

-----------------------------------------------------------------------------
(* Validators *)

\* Mutant: no test for a registered pubkey.
AddAnyValidator(c, pubkey) ==
    /\ Len(Current.validators) < 3
    /\ heap' = [heap EXCEPT ![database] = WithValidator(@, pubkey)]
    /\ held' = [held EXCEPT
                  ![c] = Pointer(database, Len(Current.validators) + 1)]
    /\ UNCHANGED <<database, snapshots, panicked, taken>>

\* The caller keeps the pointer it is given; with an error it is given nil.
AddValidator(c, pubkey) ==
    \/ /\ ~HasPubkey(Current, pubkey)
       /\ heap' = [heap EXCEPT ![database] = WithValidator(@, pubkey)]
       /\ held' = [held EXCEPT
                     ![c] = Pointer(database, Len(Current.validators) + 1)]
       /\ UNCHANGED <<database, snapshots, panicked, taken>>
    \/ /\ HasPubkey(Current, pubkey)
       /\ held' = [held EXCEPT ![c] = Nil]
       /\ UNCHANGED <<heap, database, snapshots, panicked, taken>>

Keep(c, position) ==
    /\ held' = [held EXCEPT
                  ![c] = IF position = 0 THEN Nil
                         ELSE Pointer(database, position)]
    /\ UNCHANGED <<heap, database, snapshots, panicked, taken>>

\* An id is a pubkey when it looks like one, else an index.
GetValidator(c) ==
    \/ \E pubkey \in Pubkeys : Keep(c, PositionByPubkey(Current, pubkey))
    \/ \E index \in 0 .. Len(Current.validators) :
          Keep(c, PositionByIndex(Current, index))

Held(c) == heap[held[c].db].validators[held[c].position]

\* A write through the pointer reaches the database that allocated it.
Write(c, validator) ==
    /\ held[c] # Nil
    /\ heap' = [heap EXCEPT
                  ![held[c].db].validators[held[c].position] = validator]
    /\ UNCHANGED <<database, snapshots, held, panicked, taken>>

SetBalance(c, balance) == Write(c, WithBalance(Held(c), balance))

SetStatus(c, status) == Write(c, [Held(c) EXCEPT !.Status = status])

\* A validator that is not slashable is an error and changes nothing.
Slash(c, penalty) ==
    /\ held[c] # Nil /\ Slashable(Held(c))
    /\ Write(c, Slashed(Held(c), penalty))

-----------------------------------------------------------------------------
SnapshotStep == \/ \E n \in Names : TakeSnapshot(n) \/ RevertToSnapshot(n)
                \/ SetDatabase

ChainStep == \/ \E slotValidated \in BOOLEAN : CommitBlock(slotValidated)
             \/ \E slot \in 0 .. MaxSlot : SetHighestSlot(slot)
             \/ \E deposit \in Deposits : \/ AddPendingDeposit(deposit)
                                          \/ RemovePendingDeposit(deposit)

ValidatorStep == \E c \in Callers :
    \/ \E pubkey \in Pubkeys : AddValidator(c, pubkey)
    \/ GetValidator(c)
    \/ \E balance \in Balances : SetBalance(c, balance)
    \/ \E status \in NewStatuses : SetStatus(c, status)
    \/ \E penalty \in Penalties : Slash(c, penalty)

\* After a panic the calling test is over.
Next == /\ ~panicked
        /\ \/ SnapshotStep
           \/ (ChainStep \/ ValidatorStep) /\ last' = <<>>

Spec == Init /\ [][Next]_vars

-----------------------------------------------------------------------------
(* Properties *)

\* In every database ever allocated, the current one, the snapshots and the
\* replaced ones alike, slice, index and pubkey lookup agree, whatever calls
\* built it and however often it was cloned.
LookupsAlwaysAgree == \A id \in Ids : LookupsAgree(heap[id])

\* In every database the linked slots count the execution blocks off from
\* the first one, without gap or repetition, across commits, missed slots,
\* snapshots and reverts.
ChainAlwaysLinked == \A id \in Ids : ChainLinked(heap[id])

\* What Clone keeps of a database: everything but the pending deposits.
Cloned(db) == [db EXCEPT !.pendingDeposits = {}]

\* A stored snapshot never changes after TakeSnapshot: no later call, no
\* write through a pointer a caller kept, and no earlier revert to the same
\* snapshot reaches into it.
SnapshotsIsolated ==
    \A n \in Names :
        snapshots[n] # 0 => heap[snapshots[n]] = Cloned(taken[n])

\* A revert brings back the validators, slots and block links that were
\* current when the snapshot was taken, the second time as well as the first.
RevertRestores ==
    [][\A n \in Names : RevertToSnapshot(n) =>
          heap'[database'] = Cloned(taken[n])]_vars

\* What the comment on TakeSnapshot says of a snapshot: it is the database
\* state.  Clone leaves the pending deposits behind.
SnapshotIsWholeDatabase ==
    \A n \in Names : snapshots[n] # 0 => heap[snapshots[n]] = taken[n]

\* Why the snapshots stay isolated: nobody else has a pointer to a snapshot.
Unshared ==
    /\ \A n \in Names : snapshots[n] # database
    /\ \A n \in Names, c \in Callers :
          snapshots[n] # 0 => held[c].db # snapshots[n]

\* The snapshots as values.
Saved == [n \in {m \in Names : snapshots[m] # 0} |-> heap[snapshots[n]]]

Store == INSTANCE SnapshotStore WITH live <- Cloned(Current), saved <- Saved

\* The manager's snapshots are a store of all that Clone keeps: no call of the
\* manager or the database, no new database and no write through a pointer of
\* before changes a copy, the last TakeSnapshot of a name counts, and a revert
\* makes the whole copy current.
IsStore == Store!Spec

=============================================================================

------------------------ MODULE BeaconManagerProofs ------------------------
(***************************************************************************)
(* Proofs about BeaconManager, for every set of pubkeys, deposits, names   *)
(* and callers, every uint width and every bound.                          *)
(*                                                                         *)
(* The argument has two layers.  Per database: each method maps a well     *)
(* formed database to a well formed one (BeaconDatabaseProofs), and the    *)
(* clone of a well formed database is that database without its pending    *)
(* deposits.  Per heap: a step writes at most one database, and never a    *)
(* snapshot.                                                               *)
(***************************************************************************)
EXTENDS BeaconManager, BeaconDatabaseProofs

\* With the lookups in agreement Clone loses the pending deposits and nothing
\* else.
LEMMA CloneIsCloned ==
  ASSUME NEW db, Good(db)
  PROVE  Clone(db) = Cloned(db)
BY CloneIsCopy DEF Good, Consistent, Cloned

\* Clone of a well-formed database is well formed.
LEMMA CloneGood ==
  ASSUME NEW db, Good(db)
  PROVE  Good(Clone(db))
<1>1. Clone(db) = Cloned(db)
  BY CloneIsCloned
<1> QED BY <1>1 DEF Good, Cloned, Databases, LookupsAgree, HasPubkey,
                    ChainLinked, Linked

-----------------------------------------------------------------------------
(* The heap *)

\* The inductive invariant.
Inv ==
    /\ TypeOK
    /\ LookupsAlwaysAgree
    /\ ChainAlwaysLinked
    /\ SnapshotsIsolated
    /\ Unshared

\* The databases of the heap are exactly the well-formed ones Inv asks for.
LEMMA HeapGood ==
  Inv => \A id \in Ids : Good(heap[id])
BY DEF Inv, TypeOK, LookupsAlwaysAgree, ChainAlwaysLinked, Good, Ids

\* A new manager: one empty database, no snapshots, nobody holding a pointer.
LEMMA InitInv == Init => Inv
<1> SUFFICES ASSUME Init PROVE Inv
  OBVIOUS
<1>1. Good(NewDatabase) /\ NewDatabase \in Databases
  BY NewGood DEF Good
<1>2. /\ heap \in Seq(Databases) /\ Len(heap) = 1 /\ Ids = {1}
      /\ heap[1] = NewDatabase
  BY <1>1 DEF Init, Ids
<1>3. TypeOK
  <2>1. held \in [Callers -> [db : Nat, position : Nat]]
    BY DEF Init, Nil, Pointer
  <2>2. \A c \in Callers : held[c] = Nil
    BY DEF Init
  <2>3. database \in Ids /\ snapshots \in [Names -> 0 .. Len(heap)]
    BY <1>2 DEF Init
  <2>4. taken \in [Names -> Databases]
    BY <1>1 DEF Init
  <2>5. panicked \in BOOLEAN /\ last \in SnapshotCalls
    BY DEF Init, SnapshotCalls
  <2> QED BY <1>2, <2>1, <2>2, <2>3, <2>4, <2>5 DEF TypeOK
<1>4. LookupsAlwaysAgree /\ ChainAlwaysLinked
  BY <1>1, <1>2 DEF LookupsAlwaysAgree, ChainAlwaysLinked, Good
<1>5. SnapshotsIsolated /\ Unshared
  BY DEF Init, SnapshotsIsolated, Unshared
<1> QED BY <1>3, <1>4, <1>5 DEF Inv

\* A step that allocates one well-formed database: the ones that were there
\* stay, and the new one gets an id nobody has used.
LEMMA AllocStep ==
  ASSUME Inv, NEW db, Good(db), heap' = Append(heap, db)
  PROVE  /\ heap' \in Seq(Databases)
         /\ Len(heap') = Len(heap) + 1
         /\ Len(heap) \in Nat
         /\ heap'[Len(heap) + 1] = db
         /\ \A id \in Ids : heap'[id] = heap[id]
         /\ LookupsAlwaysAgree' /\ ChainAlwaysLinked'
<1>1. heap \in Seq(Databases) /\ db \in Databases
  BY DEF Inv, TypeOK, Good
<1>2. /\ heap' \in Seq(Databases) /\ Len(heap') = Len(heap) + 1 /\ Len(heap) \in Nat
      /\ heap'[Len(heap) + 1] = db
      /\ \A id \in Ids : heap'[id] = heap[id]
  BY <1>1 DEF Ids
<1>3. \A id \in Ids' : Good(heap'[id])
  BY <1>2, HeapGood DEF Ids
<1>4. LookupsAlwaysAgree' /\ ChainAlwaysLinked'
  BY <1>3 DEF LookupsAlwaysAgree, ChainAlwaysLinked, Good
<1> QED BY <1>2, <1>4

\* A step that writes one database: the others stay.
LEMMA WriteStep ==
  ASSUME Inv, NEW id \in Ids, NEW db, Good(db), heap' = [heap EXCEPT ![id] = db]
  PROVE  /\ heap' \in Seq(Databases)
         /\ Len(heap') = Len(heap)
         /\ heap'[id] = db
         /\ \A other \in Ids \ {id} : heap'[other] = heap[other]
         /\ LookupsAlwaysAgree' /\ ChainAlwaysLinked'
<1>1. heap \in Seq(Databases) /\ db \in Databases
  BY DEF Inv, TypeOK, Good
<1>2. /\ heap' \in Seq(Databases) /\ Len(heap') = Len(heap)
      /\ heap'[id] = db
      /\ \A other \in Ids \ {id} : heap'[other] = heap[other]
  BY <1>1 DEF Ids
<1>3. \A other \in Ids' : Good(heap'[other])
  BY <1>2, HeapGood DEF Ids
<1>4. LookupsAlwaysAgree' /\ ChainAlwaysLinked'
  BY <1>3 DEF LookupsAlwaysAgree, ChainAlwaysLinked, Good
<1> QED BY <1>2, <1>4

\* Writing the current database, with at least as many validators as before,
\* disturbs neither the pointers nor the snapshots.
LEMMA UpdateInv ==
  ASSUME Inv, NEW db, Good(db), Len(db.validators) = Len(Current.validators),
         Update(db),
         last' \in SnapshotCalls
  PROVE  Inv'
<1>1. database \in Ids /\ heap' = [heap EXCEPT ![database] = db]
  BY DEF Inv, TypeOK, Update
<1>2. /\ heap' \in Seq(Databases) /\ Len(heap') = Len(heap)
      /\ heap'[database] = db
      /\ \A other \in Ids \ {database} : heap'[other] = heap[other]
      /\ LookupsAlwaysAgree' /\ ChainAlwaysLinked'
  BY <1>1, WriteStep
<1>3. UNCHANGED <<database, snapshots, held, panicked, taken>> /\ Ids' = Ids
  BY <1>2 DEF Update, Ids
<1>4. \A id \in Ids : Len(heap'[id].validators) = Len(heap[id].validators)
  BY <1>2 DEF Current
<1>5. TypeOK'
  BY <1>2, <1>3, <1>4 DEF Inv, TypeOK
<1>6. SnapshotsIsolated'
  <2>1. \A n \in Names : snapshots[n] # 0 => snapshots[n] \in Ids \ {database}
    BY DEF Inv, TypeOK, Unshared, Ids
  <2> QED BY <2>1, <1>2, <1>3 DEF Inv, SnapshotsIsolated
<1>7. Unshared'
  BY <1>3 DEF Inv, Unshared
<1> QED BY <1>2, <1>5, <1>6, <1>7 DEF Inv

\* Writing a validator through a pointer reaches the database the pointer
\* came from, which is no snapshot.
LEMMA WriteInv ==
  ASSUME Inv, NEW c \in Callers, NEW v \in Validators, held[c] # Nil,
         v.Pubkey = Held(c).Pubkey, v.Index = Held(c).Index, Write(c, v),
         last' \in SnapshotCalls
  PROVE  Inv'
<1> DEFINE id == held[c].db
           i == held[c].position
           db == [heap[id] EXCEPT !.validators[i] = v]
<1>1. id \in Ids /\ i \in 1 .. Len(heap[id].validators) /\ Good(heap[id])
  BY HeapGood DEF Inv, TypeOK
<1>2. Good(db) /\ Len(db.validators) = Len(heap[id].validators)
  BY <1>1, WriteGood DEF Held
<1>3. heap' = [heap EXCEPT ![id] = db]
  BY DEF Write
<1> HIDE DEF db
<1>4. /\ heap' \in Seq(Databases) /\ Len(heap') = Len(heap)
      /\ heap'[id] = db
      /\ \A other \in Ids \ {id} : heap'[other] = heap[other]
      /\ LookupsAlwaysAgree' /\ ChainAlwaysLinked'
  BY <1>1, <1>2, <1>3, WriteStep
<1>5. UNCHANGED <<database, snapshots, held, panicked, taken>> /\ Ids' = Ids
  BY <1>4 DEF Write, Ids
<1>6. \A other \in Ids : Len(heap'[other].validators) = Len(heap[other].validators)
  BY <1>2, <1>4
<1>7. TypeOK'
  BY <1>4, <1>5, <1>6 DEF Inv, TypeOK
<1>8. SnapshotsIsolated'
  <2>1. \A n \in Names : snapshots[n] # 0 => snapshots[n] \in Ids \ {id}
    BY DEF Inv, TypeOK, Unshared, Ids
  <2> QED BY <2>1, <1>4, <1>5 DEF Inv, SnapshotsIsolated
<1>9. Unshared'
  BY <1>5 DEF Inv, Unshared
<1> QED BY <1>4, <1>7, <1>8, <1>9 DEF Inv

\* Taking a pointer into the current database.
LEMMA KeepInv ==
  ASSUME Inv, NEW c \in Callers, NEW position \in 0 .. Len(Current.validators),
         Keep(c, position),
         last' \in SnapshotCalls
  PROVE  Inv'
<1>1. UNCHANGED <<heap, database, snapshots, panicked, taken>> /\ Ids' = Ids
  BY DEF Keep, Ids
<1>2. \A d \in Callers : \/ held'[d] = held[d]
                         \/ held'[d] = Nil
                         \/ held'[d] = Pointer(database, position) /\ position # 0
  BY DEF Keep, Inv, TypeOK
<1>3. database \in Ids /\ Ids \subseteq Nat /\ position \in Nat
  BY DEF Inv, TypeOK, Ids
<1>4. held' \in [Callers -> [db : Nat, position : Nat]]
  BY <1>3 DEF Inv, TypeOK, Keep, Nil, Pointer
<1>5. TypeOK'
  <2>1. ASSUME NEW d \in Callers, held'[d] # Nil
        PROVE  /\ held'[d].db \in Ids
               /\ held'[d].position \in 1 .. Len(heap[held'[d].db].validators)
    <3>1. CASE held'[d] = held[d]
      BY <2>1, <3>1 DEF Inv, TypeOK
    <3>2. CASE held'[d] = Pointer(database, position) /\ position # 0
      BY <1>3, <3>2 DEF Pointer, Current
    <3> QED BY <1>2, <2>1, <3>1, <3>2
  <2> QED BY <1>1, <1>4, <2>1 DEF Inv, TypeOK
<1>6. Unshared'
  BY <1>1, <1>2 DEF Inv, Unshared, Nil, Pointer
<1> QED BY <1>1, <1>5, <1>6 DEF Inv, LookupsAlwaysAgree, ChainAlwaysLinked,
                                SnapshotsIsolated

-----------------------------------------------------------------------------
(* The steps *)

\* TakeSnapshot stores a clone under an id that no pointer can name yet.
LEMMA TakeSnapshotInv ==
  ASSUME Inv, NEW n \in Names, TakeSnapshot(n),
         last' \in SnapshotCalls
  PROVE  Inv'
<1> DEFINE db == Clone(Current)
<1>1. database \in Ids /\ Good(Current) /\ Current \in Databases
  BY HeapGood DEF Inv, TypeOK, Current, Good
<1>2. Good(db) /\ db = Cloned(Current)
  BY <1>1, CloneGood, CloneIsCloned
<1>3. heap' = Append(heap, db)
  BY DEF TakeSnapshot
<1> HIDE DEF db
<1>4. /\ heap' \in Seq(Databases) /\ Len(heap') = Len(heap) + 1 /\ Len(heap) \in Nat
      /\ heap'[Len(heap) + 1] = db
      /\ \A id \in Ids : heap'[id] = heap[id]
      /\ LookupsAlwaysAgree' /\ ChainAlwaysLinked'
  BY <1>2, <1>3, AllocStep
<1>5. /\ UNCHANGED <<database, held, panicked>>
      /\ snapshots' = [snapshots EXCEPT ![n] = Len(heap) + 1]
      /\ taken' = [taken EXCEPT ![n] = Current]
      /\ Ids \subseteq Ids' /\ Len(heap) + 1 \notin Ids
  BY <1>4 DEF TakeSnapshot, Ids
<1>6. TypeOK'
  <2>1. snapshots' \in [Names -> 0 .. Len(heap')] /\ taken' \in [Names -> Databases]
    BY <1>1, <1>4, <1>5 DEF Inv, TypeOK
  <2>2. \A c \in Callers : held'[c] # Nil =>
           /\ held'[c].db \in Ids'
           /\ held'[c].position \in 1 .. Len(heap'[held'[c].db].validators)
    BY <1>4, <1>5 DEF Inv, TypeOK
  <2> QED BY <1>1, <1>4, <1>5, <2>1, <2>2 DEF Inv, TypeOK
<1>7. SnapshotsIsolated'
  <2>1. ASSUME NEW m \in Names, snapshots'[m] # 0
        PROVE  heap'[snapshots'[m]] = Cloned(taken'[m])
    <3>1. CASE m = n
      BY <3>1, <1>2, <1>4, <1>5 DEF Inv, TypeOK
    <3>2. CASE m # n
      <4>1. snapshots'[m] = snapshots[m] /\ taken'[m] = taken[m]
        BY <3>2, <1>5 DEF Inv, TypeOK
      <4>2. snapshots[m] \in Ids
        BY <2>1, <4>1 DEF Inv, TypeOK, Ids
      <4> QED BY <2>1, <4>1, <4>2, <1>4 DEF Inv, SnapshotsIsolated
    <3> QED BY <3>1, <3>2
  <2> QED BY <2>1 DEF SnapshotsIsolated
<1>8. Unshared'
  <2>1. ASSUME NEW m \in Names PROVE snapshots'[m] # database'
    BY <1>1, <1>5 DEF Inv, TypeOK, Unshared
  <2>2. ASSUME NEW m \in Names, NEW c \in Callers, snapshots'[m] # 0
        PROVE  held'[c].db # snapshots'[m]
    <3>1. held[c].db # Len(heap) + 1
      BY <1>4, <1>5 DEF Inv, TypeOK, Nil, Pointer
    <3> QED BY <2>2, <3>1, <1>5 DEF Inv, TypeOK, Unshared
  <2> QED BY <2>1, <2>2 DEF Unshared
<1> QED BY <1>4, <1>6, <1>7, <1>8 DEF Inv

\* Making a fresh database the current one.
LEMMA SwitchInv ==
  ASSUME Inv, NEW db, Good(db), heap' = Append(heap, db),
         database' = Len(heap) + 1, UNCHANGED <<snapshots, held, panicked, taken>>,
         last' \in SnapshotCalls
  PROVE  Inv'
<1>1. /\ heap' \in Seq(Databases) /\ Len(heap') = Len(heap) + 1 /\ Len(heap) \in Nat
      /\ heap'[Len(heap) + 1] = db
      /\ \A id \in Ids : heap'[id] = heap[id]
      /\ LookupsAlwaysAgree' /\ ChainAlwaysLinked'
  BY AllocStep
<1>2. Ids \subseteq Ids' /\ database' \in Ids' /\ database' \notin Ids
  BY <1>1 DEF Ids
<1>3. TypeOK'
  <2>1. snapshots' \in [Names -> 0 .. Len(heap')]
    BY <1>1 DEF Inv, TypeOK
  <2>2. \A c \in Callers : held'[c] # Nil =>
           /\ held'[c].db \in Ids'
           /\ held'[c].position \in 1 .. Len(heap'[held'[c].db].validators)
    BY <1>1, <1>2 DEF Inv, TypeOK
  <2> QED BY <1>1, <1>2, <2>1, <2>2 DEF Inv, TypeOK
<1>4. \A m \in Names : snapshots[m] # 0 => snapshots[m] \in Ids
  BY DEF Inv, TypeOK, Ids
<1>5. SnapshotsIsolated'
  BY <1>1, <1>4 DEF Inv, SnapshotsIsolated
<1>6. Unshared'
  BY <1>1, <1>2, <1>4 DEF Inv, Unshared
<1> QED BY <1>1, <1>3, <1>5, <1>6 DEF Inv

\* AddValidator, on its success and on its error path.
LEMMA AddValidatorInv ==
  ASSUME Inv, NEW c \in Callers, NEW pubkey \in Pubkeys, AddValidator(c, pubkey),
         last' \in SnapshotCalls
  PROVE  Inv'
<1>0. database \in Ids /\ Good(Current) /\ Ids \subseteq Nat
  BY HeapGood DEF Inv, TypeOK, Current, Ids
<1>1. CASE HasPubkey(Current, pubkey)
  <2>1. Keep(c, 0)
    BY <1>1 DEF AddValidator, Keep
  <2>2. 0 \in 0 .. Len(Current.validators)
    BY <1>0 DEF Good, Databases
  <2> QED BY <2>1, <2>2, KeepInv
<1>2. CASE ~HasPubkey(Current, pubkey)
  <2> DEFINE db == WithValidator(Current, pubkey)
             k == Len(Current.validators) + 1
  <2>1. Good(db) /\ Len(db.validators) = k /\ Len(Current.validators) \in Nat
    BY <1>0, <1>2, ValidatorGood DEF Good, Databases
  <2>2. /\ heap' = [heap EXCEPT ![database] = db]
        /\ held' = [held EXCEPT ![c] = Pointer(database, k)]
        /\ UNCHANGED <<database, snapshots, panicked, taken>>
    BY <1>2 DEF AddValidator, Current
  <2> HIDE DEF db
  <2>3. /\ heap' \in Seq(Databases) /\ Len(heap') = Len(heap)
        /\ heap'[database] = db
        /\ \A other \in Ids \ {database} : heap'[other] = heap[other]
        /\ LookupsAlwaysAgree' /\ ChainAlwaysLinked'
    BY <1>0, <2>1, <2>2, WriteStep
  <2>4. Ids' = Ids /\ k \in Nat
    BY <2>1, <2>3 DEF Ids
  <2>5. TypeOK'
    <3>1. held' \in [Callers -> [db : Nat, position : Nat]]
      BY <1>0, <2>2, <2>4 DEF Inv, TypeOK, Pointer
    <3>2. ASSUME NEW d \in Callers, held'[d] # Nil
          PROVE  /\ held'[d].db \in Ids'
                 /\ held'[d].position \in 1 .. Len(heap'[held'[d].db].validators)
      <4>1. CASE d = c
        BY <4>1, <1>0, <2>1, <2>2, <2>3, <2>4 DEF Inv, TypeOK, Pointer
      <4>2. CASE d # c
        <5>1. held'[d] = held[d]
          BY <4>2, <2>2 DEF Inv, TypeOK
        <5>2. /\ held[d].db \in Ids
              /\ held[d].position \in 1 .. Len(heap[held[d].db].validators)
          BY <3>2, <5>1 DEF Inv, TypeOK
        <5>3. CASE held[d].db = database
          BY <5>1, <5>2, <5>3, <2>1, <2>3, <2>4 DEF Current
        <5>4. CASE held[d].db # database
          BY <5>1, <5>2, <5>4, <2>3, <2>4
        <5> QED BY <5>3, <5>4
      <4> QED BY <4>1, <4>2
    <3> QED BY <2>2, <2>3, <2>4, <3>1, <3>2 DEF Inv, TypeOK
  <2>6. SnapshotsIsolated'
    <3>1. \A n \in Names : snapshots[n] # 0 => snapshots[n] \in Ids \ {database}
      BY DEF Inv, TypeOK, Unshared, Ids
    <3> QED BY <3>1, <2>2, <2>3 DEF Inv, SnapshotsIsolated
  <2>7. Unshared'
    <3>1. \A d \in Callers : held'[d] = held[d] \/ held'[d].db = database
      BY <2>2 DEF Inv, TypeOK, Pointer
    <3> QED BY <3>1, <2>2 DEF Inv, Unshared
  <2> QED BY <2>3, <2>5, <2>6, <2>7 DEF Inv
<1> QED BY <1>1, <1>2

\* Every step of the manager preserves the invariant.
LEMMA NextInv == Inv /\ [Next]_vars => Inv'
<1> SUFFICES ASSUME Inv, [Next]_vars PROVE Inv'
  OBVIOUS
<1>0. database \in Ids /\ Good(Current) /\ Current \in Databases
  BY HeapGood DEF Inv, TypeOK, Current, Good
<1>. last' \in SnapshotCalls
  BY DEF Next, SnapshotStep, TakeSnapshot, RevertToSnapshot, SetDatabase, vars,
         SnapshotCalls, Inv, TypeOK
<1>1. ASSUME NEW n \in Names, TakeSnapshot(n) PROVE Inv'
  BY <1>1, TakeSnapshotInv
<1>2. ASSUME NEW n \in Names, RevertToSnapshot(n) PROVE Inv'
  <2>1. Good(heap[snapshots[n]])
    BY <1>2, HeapGood DEF RevertToSnapshot, Inv, TypeOK, Ids
  <2>2. Good(Clone(heap[snapshots[n]]))
    BY <2>1, CloneGood
  <2> QED BY <1>2, <2>2, SwitchInv DEF RevertToSnapshot
<1>3. ASSUME SetDatabase PROVE Inv'
  BY <1>3, NewGood, SwitchInv DEF SetDatabase
<1>4. ASSUME NEW slotValidated \in BOOLEAN, CommitBlock(slotValidated) PROVE Inv'
  <2>1. Good(WithBlock(Current, slotValidated))
    BY <1>0, <1>4, BlockGood DEF CommitBlock
  <2>2. Len(WithBlock(Current, slotValidated).validators) = Len(Current.validators)
    BY <1>0 DEF WithBlock, Databases
  <2> QED BY <1>4, <2>1, <2>2, UpdateInv DEF CommitBlock
<1>5. ASSUME NEW slot \in 0 .. MaxSlot, SetHighestSlot(slot) PROVE Inv'
  <2>1. Good(WithHighestSlot(Current, slot))
    BY <1>0, ChainAssumption, HighestGood
  <2>2. Len(WithHighestSlot(Current, slot).validators) = Len(Current.validators)
    BY <1>0 DEF WithHighestSlot, Databases
  <2> QED BY <1>5, <2>1, <2>2, UpdateInv DEF SetHighestSlot
<1>6. ASSUME NEW deposit \in Deposits, AddPendingDeposit(deposit) PROVE Inv'
  <2> DEFINE ds == Current.pendingDeposits \union {deposit}
  <2>1. ds \in SUBSET Deposits
    BY <1>0 DEF Databases
  <2>2. WithDeposit(Current, deposit) = [Current EXCEPT !.pendingDeposits = ds]
    BY DEF WithDeposit
  <2> HIDE DEF ds
  <2>3. Good(WithDeposit(Current, deposit))
    BY <1>0, <2>1, <2>2, DepositsGood
  <2>4. Len(WithDeposit(Current, deposit).validators) = Len(Current.validators)
    BY <1>0, <2>2 DEF Databases
  <2> QED BY <1>6, <2>3, <2>4, UpdateInv DEF AddPendingDeposit
<1>7. ASSUME NEW deposit \in Deposits, RemovePendingDeposit(deposit) PROVE Inv'
  <2>1. CASE RemovePanics(Current)
    <3>1. UNCHANGED <<heap, database, snapshots, held, taken>> /\ panicked' = TRUE
      BY <1>7, <2>1 DEF RemovePendingDeposit
    <3> QED BY <3>1 DEF Inv, TypeOK, Ids, LookupsAlwaysAgree, ChainAlwaysLinked,
                        SnapshotsIsolated, Unshared
  <2>2. CASE ~RemovePanics(Current)
    <3> DEFINE ds == Current.pendingDeposits \ {deposit}
    <3>1. ds \in SUBSET Deposits
      BY <1>0 DEF Databases
    <3>2. WithoutDeposit(Current, deposit) = [Current EXCEPT !.pendingDeposits = ds]
      BY DEF WithoutDeposit
    <3> HIDE DEF ds
    <3>3. Good(WithoutDeposit(Current, deposit))
      BY <1>0, <3>1, <3>2, DepositsGood
    <3>4. Len(WithoutDeposit(Current, deposit).validators) = Len(Current.validators)
      BY <1>0, <3>2 DEF Databases
    <3> QED BY <1>7, <2>2, <3>3, <3>4, UpdateInv DEF RemovePendingDeposit
  <2> QED BY <2>1, <2>2
<1>8. ASSUME NEW c \in Callers, NEW pubkey \in Pubkeys, AddValidator(c, pubkey)
      PROVE  Inv'
  BY <1>8, AddValidatorInv
<1>9. ASSUME NEW c \in Callers, GetValidator(c) PROVE Inv'
  <2>1. ASSUME NEW pubkey \in Pubkeys, Keep(c, PositionByPubkey(Current, pubkey))
        PROVE  Inv'
    <3>1. PositionByPubkey(Current, pubkey) \in 0 .. Len(Current.validators)
      BY <1>0 DEF Good, Databases, LookupsAgree, PositionByPubkey, HasPubkey
    <3> QED BY <2>1, <3>1, KeepInv
  <2>2. ASSUME NEW index \in 0 .. Len(Current.validators),
               Keep(c, PositionByIndex(Current, index))
        PROVE  Inv'
    <3>1. PositionByIndex(Current, index) \in 0 .. Len(Current.validators)
      BY <1>0 DEF Databases, PositionByIndex
    <3> QED BY <2>2, <3>1, KeepInv
  <2> QED BY <1>9, <2>1, <2>2 DEF GetValidator
<1>10. ASSUME NEW c \in Callers, held[c] # Nil PROVE Held(c) \in Validators
  <2>1. /\ held[c].db \in Ids
        /\ held[c].position \in 1 .. Len(heap[held[c].db].validators)
    BY <1>10 DEF Inv, TypeOK
  <2>2. heap[held[c].db].validators \in Seq(Validators)
    BY <2>1, HeapGood DEF Good, Databases
  <2> QED BY <2>1, <2>2 DEF Held
<1>11. ASSUME NEW c \in Callers, NEW balance \in Balances, SetBalance(c, balance)
       PROVE  Inv'
  <2>1. held[c] # Nil /\ balance \in Uint
    BY <1>11, InputAssumption DEF SetBalance, Write
  <2> QED BY <1>10, <1>11, <2>1, BalanceWrite, WriteInv DEF SetBalance
<1>12. ASSUME NEW c \in Callers, NEW status \in NewStatuses, SetStatus(c, status)
       PROVE  Inv'
  <2>1. held[c] # Nil /\ status \in Statuses
    BY <1>12, InputAssumption DEF SetStatus, Write
  <2> QED BY <1>10, <1>12, <2>1, StatusWrite, WriteInv DEF SetStatus
<1>13. ASSUME NEW c \in Callers, NEW penalty \in Penalties, Slash(c, penalty)
       PROVE  Inv'
  <2>1. held[c] # Nil /\ penalty \in Uint
    BY <1>13, InputAssumption DEF Slash
  <2> QED BY <1>10, <1>13, <2>1, SlashWrite, WriteInv DEF Slash
<1>14. CASE UNCHANGED vars
  BY <1>14 DEF vars, Inv, TypeOK, Ids, LookupsAlwaysAgree, ChainAlwaysLinked,
               SnapshotsIsolated, Unshared
<1> QED
  BY <1>1, <1>2, <1>3, <1>4, <1>5, <1>6, <1>7, <1>8, <1>9, <1>11, <1>12, <1>13,
     <1>14 DEF Next, SnapshotStep, ChainStep, ValidatorStep

-----------------------------------------------------------------------------
(* The theorems *)

\* The conjunction below is an invariant of the manager.
THEOREM Invariance == Spec => []Inv
BY InitInv, NextInv, PTL DEF Spec

\* Every variable keeps its type: in particular a pointer a caller holds
\* always leads to a validator, in whichever database it was allocated.
THEOREM TypeCorrect == Spec => []TypeOK
<1>1. Inv => TypeOK
  BY DEF Inv
<1> QED BY <1>1, Invariance, PTL

\* Slice, index and pubkey lookup agree in every database, for any number of
\* AddValidator calls, snapshots and reverts.
THEOREM LookupsCorrect == Spec => []LookupsAlwaysAgree
<1>1. Inv => LookupsAlwaysAgree
  BY DEF Inv
<1> QED BY <1>1, Invariance, PTL

\* CommitBlock, SetHighestSlot and Clone keep every database's chain linked
\* without gap or repetition.
THEOREM ChainCorrect == Spec => []ChainAlwaysLinked
<1>1. Inv => ChainAlwaysLinked
  BY DEF Inv
<1> QED BY <1>1, Invariance, PTL

\* No call and no write through a kept pointer changes a stored snapshot.
THEOREM SnapshotsStayIsolated == Spec => []SnapshotsIsolated
<1>1. Inv => SnapshotsIsolated
  BY DEF Inv
<1> QED BY <1>1, Invariance, PTL

\* No stored snapshot is the manager's database or one that a caller's pointer
\* leads to: a revert never makes one of them reachable by a write.
THEOREM UnsharedCorrect == Spec => []Unshared
<1>1. Inv => Unshared
  BY DEF Inv
<1> QED BY <1>1, Invariance, PTL

\* RevertToSnapshot brings back what TakeSnapshot saw, deposits excepted,
\* every time it is called.
THEOREM RevertCorrect == Spec => RevertRestores
<1> DEFINE Restores == \A n \in Names : RevertToSnapshot(n) =>
                          heap'[database'] = Cloned(taken[n])
<1>1. ASSUME Inv, Inv', [Next]_vars PROVE [Restores]_vars
  <2>1. ASSUME NEW n \in Names, RevertToSnapshot(n)
        PROVE  heap'[database'] = Cloned(taken[n])
    <3>1. Good(heap[snapshots[n]]) /\ heap[snapshots[n]] = Cloned(taken[n])
      BY <1>1, <2>1, HeapGood
         DEF RevertToSnapshot, Inv, TypeOK, Ids, SnapshotsIsolated
    <3>2. Good(Clone(heap[snapshots[n]]))
      BY <3>1, CloneGood
    <3>3. heap'[database'] = Clone(heap[snapshots[n]])
      BY <1>1, <2>1, <3>2, AllocStep DEF RevertToSnapshot
    <3>4. Clone(heap[snapshots[n]]) = Cloned(Cloned(taken[n]))
      BY <3>1, CloneIsCloned
    <3>5. taken[n] \in Databases
      BY <1>1 DEF Inv, TypeOK
    <3>6. Cloned(Cloned(taken[n])) = Cloned(taken[n])
      BY <3>5 DEF Cloned, Databases
    <3> QED BY <3>3, <3>4, <3>6
  <2> QED BY <2>1
<1> QED BY <1>1, Invariance, PTL DEF Spec, RevertRestores

-----------------------------------------------------------------------------
(* The snapshots are a store *)

\* A stored copy has lost its deposits already, so its clone is as it is.
LEMMA CopyOfCopy ==
  ASSUME Inv, NEW n \in Names, snapshots[n] # 0
  PROVE  /\ Good(heap[snapshots[n]])
         /\ Cloned(Clone(heap[snapshots[n]])) = heap[snapshots[n]]
<1>1. Good(heap[snapshots[n]]) /\ heap[snapshots[n]] = Cloned(taken[n])
  BY HeapGood DEF Inv, TypeOK, Ids, SnapshotsIsolated
<1>2. taken[n] \in Databases
  BY DEF Inv, TypeOK
<1>3. Cloned(Cloned(Cloned(taken[n]))) = Cloned(taken[n])
  BY <1>2 DEF Cloned, Databases
<1>4. Clone(heap[snapshots[n]]) = Cloned(heap[snapshots[n]])
  BY <1>1, CloneIsCloned
<1> QED BY <1>1, <1>3, <1>4

\* The copies, where a step takes no snapshot: what is stored was fixed by
\* SnapshotsIsolated when it was taken.
LEMMA SavedStays ==
  ASSUME Inv, Inv', UNCHANGED <<snapshots, taken>>
  PROVE  Saved' = Saved
<1>1. \A n \in Names : snapshots[n] # 0 => heap'[snapshots[n]] = heap[snapshots[n]]
  BY DEF Inv, SnapshotsIsolated
<1> QED BY <1>1 DEF Saved

LEMMA TakeRefines ==
  ASSUME Inv, NEW n \in Names, TakeSnapshot(n)
  PROVE  Store!Next
<1> DEFINE copy == Clone(Current)
<1>1. database \in Ids /\ Good(Current)
  BY HeapGood DEF Inv, TypeOK, Current
<1>2. Good(copy) /\ copy = Cloned(Current)
  BY <1>1, CloneGood, CloneIsCloned
<1>3. /\ heap' = Append(heap, copy) /\ database' = database
      /\ snapshots' = [snapshots EXCEPT ![n] = Len(heap) + 1]
      /\ last' = <<"TakeSnapshot", n>>
  BY DEF TakeSnapshot
<1> HIDE DEF copy
<1>4. /\ heap'[Len(heap) + 1] = copy /\ Len(heap) + 1 # 0
      /\ \A id \in Ids : heap'[id] = heap[id]
  <2>1. /\ heap'[Len(heap) + 1] = copy /\ Len(heap) \in Nat
        /\ \A id \in Ids : heap'[id] = heap[id]
    BY <1>2, <1>3, AllocStep
  <2> QED BY <2>1
<1>5. Current' = Current
  BY <1>1, <1>3, <1>4 DEF Current
<1>6. \A m \in Names : snapshots'[m] = IF m = n THEN Len(heap) + 1 ELSE snapshots[m]
  BY <1>3 DEF Inv, TypeOK
<1>7. \A m \in Names : snapshots[m] # 0 => snapshots[m] \in Ids
  BY DEF Inv, TypeOK, Ids
<1>8. Saved' = [m \in DOMAIN Saved \cup {n} |-> IF m = n THEN copy ELSE Saved[m]]
  <2>1. {m \in Names : snapshots'[m] # 0} = DOMAIN Saved \cup {n}
    BY <1>4, <1>6 DEF Saved
  <2>2. \A m \in DOMAIN Saved \cup {n} :
           heap'[snapshots'[m]] = IF m = n THEN copy ELSE Saved[m]
    BY <1>4, <1>6, <1>7 DEF Saved
  <2> QED BY <2>1, <2>2 DEF Saved
<1>9. Store!TakeSnapshot(n)
  BY <1>2, <1>3, <1>5, <1>8 DEF Store!TakeSnapshot
<1> QED BY <1>9 DEF Store!Next

LEMMA RevertRefines ==
  ASSUME Inv, Inv', NEW n \in Names, RevertToSnapshot(n)
  PROVE  Store!Next
<1> DEFINE copy == heap[snapshots[n]]
<1>1. snapshots[n] # 0 /\ Good(copy) /\ Cloned(Clone(copy)) = copy
  BY CopyOfCopy DEF RevertToSnapshot
<1>2. Good(Clone(copy))
  BY <1>1, CloneGood
<1>3. /\ heap' = Append(heap, Clone(copy)) /\ database' = Len(heap) + 1
      /\ UNCHANGED <<snapshots, taken>> /\ last' = <<"RevertToSnapshot", n>>
  BY DEF RevertToSnapshot
<1>4. Cloned(Current)' = copy
  BY <1>1, <1>2, <1>3, AllocStep DEF Current, Cloned
<1>5. Saved' = Saved /\ n \in DOMAIN Saved /\ Saved[n] = copy
  BY <1>1, <1>3, SavedStays DEF Saved
<1>6. Store!RevertToSnapshot(n)
  BY <1>3, <1>4, <1>5 DEF Store!RevertToSnapshot
<1> QED BY <1>6 DEF Store!Next

\* All other calls, and the writes through pointers, change what is in use.
LEMMA OrdinaryRefines ==
  ASSUME Inv, Inv', SetDatabase \/ ((ChainStep \/ ValidatorStep) /\ last' = <<>>)
  PROVE  Store!Next
<1>1. UNCHANGED <<snapshots, taken>> /\ last' = <<>>
  BY DEF SetDatabase, ChainStep, ValidatorStep, CommitBlock, SetHighestSlot,
         AddPendingDeposit, RemovePendingDeposit, Update, AddValidator,
         GetValidator, Keep, SetBalance, SetStatus, Slash, Write
<1>2. Store!Change
  BY <1>1, SavedStays DEF Store!Change
<1> QED BY <1>2 DEF Store!Next

LEMMA StepRefines == Inv /\ Inv' /\ [Next]_vars => [Store!Next]_Store!vars
<1> SUFFICES ASSUME Inv, Inv', [Next]_vars PROVE [Store!Next]_Store!vars
  OBVIOUS
<1>1. CASE UNCHANGED vars
  BY <1>1 DEF vars, Store!vars, Saved, Current, Cloned
<1>2. ASSUME NEW n \in Names, TakeSnapshot(n) \/ RevertToSnapshot(n)
      PROVE  Store!Next
  BY <1>2, TakeRefines, RevertRefines
<1>3. CASE Next
  <2>1. \/ \E n \in Names : TakeSnapshot(n) \/ RevertToSnapshot(n)
        \/ SetDatabase
        \/ (ChainStep \/ ValidatorStep) /\ last' = <<>>
    BY <1>3 DEF Next, SnapshotStep
  <2> QED BY <1>2, <2>1, OrdinaryRefines
<1> QED BY <1>1, <1>3

LEMMA InitRefines == Init => Store!Init
BY DEF Init, Saved, Store!Init

\* For every set of names and callers, TakeSnapshot and RevertToSnapshot
\* (manager.go:43-57) are single steps of a snapshot store, and no other call
\* and no write through a kept pointer touches a copy.
THEOREM ManagerIsStore == Spec => IsStore
BY InitRefines, StepRefines, Invariance, PTL DEF Spec, IsStore, Store!Spec

=============================================================================

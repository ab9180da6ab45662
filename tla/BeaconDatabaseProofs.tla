------------------------ MODULE BeaconDatabaseProofs ------------------------
(***************************************************************************)
(* What the methods of one Beacon database preserve, for every set of      *)
(* pubkeys and deposits, every uint width and every bound: the lemmas that *)
(* the proofs about BeaconManager and BeaconServer share.                  *)
(***************************************************************************)
EXTENDS BeaconDatabase, TLAPS

\* A database that finds its validators, and a well-formed one.
Consistent(db) == db \in Databases /\ LookupsAgree(db)
Good(db) == db \in Databases /\ LookupsAgree(db) /\ ChainLinked(db)

\* What a method that touches the validators only leaves alone.
SameChain(new, db) ==
    /\ new.executionBlockMap = db.executionBlockMap
    /\ new.nextExecutionBlockIndex = db.nextExecutionBlockIndex
    /\ new.currentSlot = db.currentSlot
    /\ new.highestSlot = db.highestSlot

LEMMA SameChainLinked ==
  ASSUME NEW db, NEW new, ChainLinked(db), SameChain(new, db)
  PROVE  ChainLinked(new)
BY DEF SameChain, ChainLinked, Linked

-----------------------------------------------------------------------------
(* One database *)

\* NewDatabase starts well formed.
LEMMA NewGood == Good(NewDatabase)
<1>1. NewDatabase \in Databases
  BY ChainAssumption DEF NewDatabase, Databases, NoBlock
<1>2. LookupsAgree(NewDatabase)
  BY DEF NewDatabase, LookupsAgree, HasPubkey
<1>3. ChainLinked(NewDatabase)
  BY ChainAssumption DEF NewDatabase, ChainLinked, Linked, Slots
<1> QED BY <1>1, <1>2, <1>3 DEF Good

\* Replacing the four fields CommitBlock writes leaves a database.
LEMMA ChainFieldsType ==
  ASSUME NEW db \in Databases,
         NEW links \in [Slots -> Nat \union {NoBlock}],
         NEW next \in Nat, NEW current \in Nat, NEW highest \in Nat
  PROVE  [db EXCEPT !.executionBlockMap = links,
                    !.nextExecutionBlockIndex = next,
                    !.currentSlot = current,
                    !.highestSlot = highest] \in Databases
BY DEF Databases

\* CommitBlock keeps the chain linked: the new link, if any, takes the last
\* slot and the next block.
LEMMA BlockGood ==
  ASSUME NEW db, Good(db), db.currentSlot < MaxSlot, NEW slotValidated \in BOOLEAN
  PROVE  Good(WithBlock(db, slotValidated))
<1> DEFINE new == WithBlock(db, slotValidated)
<1>0. db \in Databases /\ MaxSlot \in Nat /\ FirstBlock \in Nat
  BY ChainAssumption DEF Good
<1>a. new \in Databases
  <2>1. [db.executionBlockMap EXCEPT ![db.currentSlot] = db.nextExecutionBlockIndex]
           \in [Slots -> Nat \union {NoBlock}]
    BY <1>0 DEF Databases
  <2>2. /\ db.currentSlot \in Nat /\ db.highestSlot \in Nat
        /\ db.nextExecutionBlockIndex \in Nat
        /\ db.executionBlockMap \in [Slots -> Nat \union {NoBlock}]
    BY <1>0 DEF Databases
  <2> DEFINE links == IF slotValidated
                      THEN [db.executionBlockMap EXCEPT
                              ![db.currentSlot] = db.nextExecutionBlockIndex]
                      ELSE db.executionBlockMap
             next == IF slotValidated THEN db.nextExecutionBlockIndex + 1
                     ELSE db.nextExecutionBlockIndex
             highest == IF db.currentSlot + 1 > db.highestSlot
                        THEN db.currentSlot + 1 ELSE db.highestSlot
  <2>3. links \in [Slots -> Nat \union {NoBlock}] /\ next \in Nat
        /\ db.currentSlot + 1 \in Nat /\ highest \in Nat
    BY <2>1, <2>2
  <2>4. new = [db EXCEPT !.executionBlockMap = links,
                         !.nextExecutionBlockIndex = next,
                         !.currentSlot = db.currentSlot + 1,
                         !.highestSlot = highest]
    BY DEF WithBlock
  <2> HIDE DEF new, links, next, highest
  <2> QED BY <1>0, <2>3, <2>4, ChainFieldsType
<1>1. /\ new.validators = db.validators
      /\ new.validatorPubkeyMap = db.validatorPubkeyMap
      /\ new.currentSlot = db.currentSlot + 1
      /\ new.highestSlot = IF db.currentSlot + 1 > db.highestSlot
                           THEN db.currentSlot + 1 ELSE db.highestSlot
  BY <1>0 DEF WithBlock, Databases
<1>2. LookupsAgree(new)
  BY <1>1 DEF Good, LookupsAgree, HasPubkey
<1>3. CASE ~slotValidated
  <2>1. /\ new.executionBlockMap = db.executionBlockMap
        /\ new.nextExecutionBlockIndex = db.nextExecutionBlockIndex
    BY <1>3, <1>0 DEF WithBlock, Databases
  <2>2. ChainLinked(new)
    BY <1>0, <1>1, <2>1 DEF Good, ChainLinked, Linked, Databases, Slots
  <2> QED BY <1>a, <1>2, <2>2 DEF Good
<1>4. CASE slotValidated
  <2> DEFINE s == db.currentSlot
             b == db.nextExecutionBlockIndex
  <2>1. /\ new.executionBlockMap = [db.executionBlockMap EXCEPT ![s] = b]
        /\ new.nextExecutionBlockIndex = b + 1
    BY <1>4, <1>0 DEF WithBlock, Databases
  <2>2. s \in Slots /\ s \in Nat /\ b \in Nat
    BY <1>0 DEF Slots, Databases
  <2>3. /\ db.executionBlockMap \in [Slots -> Nat \union {NoBlock}]
        /\ new.executionBlockMap[s] = b
        /\ \A t \in Slots \ {s} :
              new.executionBlockMap[t] = db.executionBlockMap[t]
    BY <1>0, <2>1, <2>2 DEF Databases
  <2>4. Linked(new) = Linked(db) \union {s}
    BY <2>2, <2>3 DEF Linked, NoBlock
  <2>5. s \notin Linked(db) /\ \A t \in Linked(db) : t < s /\ t \in Slots
    BY <2>2 DEF Good, ChainLinked, Linked
  <2>6. \A t \in Linked(db) : new.executionBlockMap[t] = db.executionBlockMap[t]
    BY <2>3, <2>5
  <2>7. \A t \in Linked(db) : db.executionBlockMap[t] \in FirstBlock .. b - 1
    BY DEF Good, ChainLinked
  <2>8. FirstBlock <= b
    BY DEF Good, ChainLinked
  <2>9. ASSUME NEW t \in Linked(new)
        PROVE  /\ t < new.currentSlot
               /\ new.executionBlockMap[t] \in FirstBlock .. b + 1 - 1
    <3>1. CASE t = s
      BY <3>1, <1>0, <1>1, <2>2, <2>3, <2>8
    <3>2. CASE t \in Linked(db)
      <4>1. t < s /\ t \in Nat
        BY <3>2, <2>5 DEF Slots
      <4>2. new.executionBlockMap[t] \in FirstBlock .. b - 1
        BY <3>2, <2>6, <2>7
      <4> QED BY <4>1, <4>2, <1>0, <1>1, <2>2
    <3> QED BY <3>1, <3>2, <2>4
  <2>10. ASSUME NEW t \in Linked(new), NEW u \in Linked(new), t < u
         PROVE  new.executionBlockMap[t] < new.executionBlockMap[u]
    <3>1. t \in Linked(db)
      BY <2>2, <2>4, <2>5, <2>10 DEF Slots
    <3>2. CASE u = s
      BY <3>1, <3>2, <2>2, <2>3, <2>6, <2>7, <1>0
    <3>3. CASE u \in Linked(db)
      BY <3>1, <3>3, <2>6, <2>10 DEF Good, ChainLinked
    <3> QED BY <3>2, <3>3, <2>4
  <2>11. ASSUME NEW block \in FirstBlock .. b
         PROVE  \E t \in Linked(new) : new.executionBlockMap[t] = block
    <3>1. CASE block = b
      BY <3>1, <2>3, <2>4
    <3>2. CASE block # b
      <4>1. block \in FirstBlock .. b - 1
        BY <3>2, <1>0, <2>2
      <4>2. \E t \in Linked(db) : db.executionBlockMap[t] = block
        BY <4>1 DEF Good, ChainLinked
      <4> QED BY <4>2, <2>4, <2>6
    <3> QED BY <3>1, <3>2
  <2>12. ChainLinked(new)
    <3>1. new.currentSlot <= new.highestSlot
      BY <1>0, <1>1 DEF Databases
    <3>2. new.nextExecutionBlockIndex - 1 = b /\ b + 1 - 1 = b
      BY <2>1, <2>2
    <3> QED BY <3>1, <3>2, <2>1, <2>2, <2>8, <2>9, <2>10, <2>11, <1>0 DEF ChainLinked
  <2> QED BY <1>a, <1>2, <2>12 DEF Good
<1> QED BY <1>3, <1>4

\* SetHighestSlot only ever raises the head.
LEMMA HighestGood ==
  ASSUME NEW db, Good(db), NEW slot \in Nat
  PROVE  Good(WithHighestSlot(db, slot))
<1> DEFINE new == WithHighestSlot(db, slot)
           highest == IF slot > db.highestSlot THEN slot ELSE db.highestSlot
<1>1. db \in Databases /\ highest \in Nat /\ highest >= db.highestSlot
  BY DEF Good, Databases
<1>2. new = [db EXCEPT !.highestSlot = highest]
  BY DEF WithHighestSlot
<1> HIDE DEF new, highest
<1>3. new \in Databases
  BY <1>1, <1>2 DEF Databases
<1>4. /\ new.validators = db.validators
      /\ new.validatorPubkeyMap = db.validatorPubkeyMap
      /\ new.executionBlockMap = db.executionBlockMap
      /\ new.nextExecutionBlockIndex = db.nextExecutionBlockIndex
      /\ new.currentSlot = db.currentSlot
      /\ new.highestSlot = highest
  BY <1>1, <1>2 DEF Databases
<1>5. LookupsAgree(new)
  BY <1>4 DEF Good, LookupsAgree, HasPubkey
<1>6. new.currentSlot <= new.highestSlot
  BY <1>1, <1>3, <1>4 DEF Good, ChainLinked, Databases
<1>7. ChainLinked(new)
  BY <1>4, <1>6 DEF Good, ChainLinked, Linked
<1> QED BY <1>3, <1>5, <1>7 DEF Good, new

\* The pending deposits play no part in being well formed.
LEMMA DepositsGood ==
  ASSUME NEW db, Good(db), NEW deposits \in SUBSET Deposits
  PROVE  Good([db EXCEPT !.pendingDeposits = deposits])
<1> DEFINE new == [db EXCEPT !.pendingDeposits = deposits]
<1>1. new \in Databases
  BY DEF Good, Databases
<1>2. /\ new.validators = db.validators
      /\ new.validatorPubkeyMap = db.validatorPubkeyMap
      /\ new.executionBlockMap = db.executionBlockMap
      /\ new.nextExecutionBlockIndex = db.nextExecutionBlockIndex
      /\ new.currentSlot = db.currentSlot
      /\ new.highestSlot = db.highestSlot
  BY DEF Good, Databases
<1> HIDE DEF new
<1>3. LookupsAgree(new) /\ ChainLinked(new)
  BY <1>2 DEF Good, LookupsAgree, HasPubkey, ChainLinked, Linked
<1> QED BY <1>1, <1>3 DEF Good, new

\* AddValidator registers a new pubkey at the end of the slice.
LEMMA ValidatorConsistent ==
  ASSUME NEW db, Consistent(db), NEW pubkey \in Pubkeys, ~HasPubkey(db, pubkey),
         NEW new, new = WithValidator(db, pubkey)
  PROVE  /\ Consistent(new)
         /\ SameChain(new, db)
         /\ Len(new.validators) = Len(db.validators) + 1
         /\ \A i \in 1 .. Len(db.validators) : new.validators[i] = db.validators[i]
         /\ new.validators[Len(db.validators) + 1].Pubkey = pubkey
<1> DEFINE v == NewValidator(pubkey, Len(db.validators))
           map == [db.validatorPubkeyMap EXCEPT ![pubkey] = Len(db.validators) + 1]
           vs == Append(db.validators, v)
<1>1. db \in Databases /\ db.validators \in Seq(Validators)
      /\ Len(db.validators) \in Nat /\ db.validatorPubkeyMap \in [Pubkeys -> Nat]
  BY DEF Consistent, Databases
<1>2. v \in Validators /\ v.Pubkey = pubkey /\ v.Index = Len(db.validators)
  BY <1>1, BalanceAssumption DEF NewValidator, Validators, Uint, Statuses
<1>3. new = [db EXCEPT !.validators = vs, !.validatorPubkeyMap = map]
  BY DEF WithValidator
<1> HIDE DEF v
<1>4. /\ vs \in Seq(Validators)
      /\ Len(vs) = Len(db.validators) + 1
      /\ vs[Len(db.validators) + 1] = v
      /\ \A i \in 1 .. Len(db.validators) : vs[i] = db.validators[i]
  BY <1>1, <1>2
<1>5. /\ map \in [Pubkeys -> Nat]
      /\ map[pubkey] = Len(db.validators) + 1
      /\ \A p \in Pubkeys \ {pubkey} : map[p] = db.validatorPubkeyMap[p]
  BY <1>1
<1> HIDE DEF vs, map
<1>6. new \in Databases
  BY <1>1, <1>3, <1>4, <1>5 DEF Databases
<1>7. /\ new.validators = vs
      /\ new.validatorPubkeyMap = map
      /\ new.executionBlockMap = db.executionBlockMap
      /\ new.nextExecutionBlockIndex = db.nextExecutionBlockIndex
      /\ new.currentSlot = db.currentSlot
      /\ new.highestSlot = db.highestSlot
  BY <1>1, <1>3 DEF Databases
<1>8. SameChain(new, db)
  BY <1>7 DEF SameChain
<1>9. ASSUME NEW i \in 1 .. Len(new.validators)
      PROVE  /\ new.validators[i].Index = i - 1
             /\ new.validatorPubkeyMap[new.validators[i].Pubkey] = i
  <2>1. CASE i = Len(db.validators) + 1
    BY <2>1, <1>1, <1>2, <1>4, <1>5, <1>7
  <2>2. CASE i \in 1 .. Len(db.validators)
    <3>1. new.validators[i] = db.validators[i] /\ db.validators[i] \in Validators
      BY <2>2, <1>1, <1>4, <1>7
    <3>2. /\ db.validators[i].Index = i - 1
          /\ db.validatorPubkeyMap[db.validators[i].Pubkey] = i
      BY <2>2 DEF Consistent, LookupsAgree
    <3>3. db.validators[i].Pubkey \in Pubkeys \ {pubkey}
      BY <3>1, <3>2, <2>2, <1>1 DEF Validators, HasPubkey
    <3> QED BY <3>1, <3>2, <3>3, <1>5, <1>7
  <2> QED BY <2>1, <2>2, <1>1, <1>4, <1>7
<1>10. ASSUME NEW p \in Pubkeys, HasPubkey(new, p)
       PROVE  /\ new.validatorPubkeyMap[p] \in 1 .. Len(new.validators)
              /\ new.validators[new.validatorPubkeyMap[p]].Pubkey = p
  <2>1. CASE p = pubkey
    BY <2>1, <1>1, <1>2, <1>4, <1>5, <1>7
  <2>2. CASE p # pubkey
    <3>1. new.validatorPubkeyMap[p] = db.validatorPubkeyMap[p]
      BY <2>2, <1>5, <1>7
    <3>2. HasPubkey(db, p)
      BY <3>1, <1>10 DEF HasPubkey
    <3>3. /\ db.validatorPubkeyMap[p] \in 1 .. Len(db.validators)
          /\ db.validators[db.validatorPubkeyMap[p]].Pubkey = p
      BY <3>2 DEF Consistent, LookupsAgree
    <3> QED BY <3>1, <3>3, <1>1, <1>4, <1>7
  <2> QED BY <2>1, <2>2
<1>11. LookupsAgree(new)
  BY <1>9, <1>10 DEF LookupsAgree
<1> QED BY <1>2, <1>4, <1>6, <1>7, <1>8, <1>11 DEF Consistent

LEMMA ValidatorGood ==
  ASSUME NEW db, Good(db), NEW pubkey \in Pubkeys, ~HasPubkey(db, pubkey)
  PROVE  /\ Good(WithValidator(db, pubkey))
         /\ Len(WithValidator(db, pubkey).validators) = Len(db.validators) + 1
BY ValidatorConsistent, SameChainLinked DEF Good, Consistent

\* CommitBlock touches no lookup, moves the current slot, and the highest one
\* ahead of it; SetHighestSlot moves the highest one only.
LEMMA BlockConsistent ==
  ASSUME NEW db, Consistent(db), NEW slotValidated \in BOOLEAN,
         NEW new, new = WithBlock(db, slotValidated)
  PROVE  /\ Consistent(new) /\ new.validators = db.validators
         /\ new.currentSlot = db.currentSlot + 1 /\ new.currentSlot <= new.highestSlot
         /\ new.nextExecutionBlockIndex = IF slotValidated
                                          THEN db.nextExecutionBlockIndex + 1
                                          ELSE db.nextExecutionBlockIndex
<1>1. /\ db \in Databases /\ LookupsAgree(db)
      /\ db.executionBlockMap \in [Slots -> Nat \union {NoBlock}]
      /\ db.nextExecutionBlockIndex \in Nat
      /\ db.currentSlot \in Nat /\ db.highestSlot \in Nat
  BY DEF Consistent, Databases
<1> DEFINE current == db.currentSlot + 1
           links == IF slotValidated
                    THEN [db.executionBlockMap EXCEPT
                            ![db.currentSlot] = db.nextExecutionBlockIndex]
                    ELSE db.executionBlockMap
           next == IF slotValidated THEN db.nextExecutionBlockIndex + 1
                   ELSE db.nextExecutionBlockIndex
           highest == IF current > db.highestSlot THEN current ELSE db.highestSlot
<1>2. links \in [Slots -> Nat \union {NoBlock}]
  BY <1>1
<1>3. next \in Nat /\ highest \in Nat /\ current \in Nat /\ current <= highest
  BY <1>1
<1>4. new = [db EXCEPT !.executionBlockMap = links,
                       !.nextExecutionBlockIndex = next,
                       !.currentSlot = current,
                       !.highestSlot = highest]
  BY DEF WithBlock
<1>5. next = IF slotValidated THEN db.nextExecutionBlockIndex + 1
             ELSE db.nextExecutionBlockIndex
  OBVIOUS
<1> HIDE DEF links, next, highest, current
<1>6. new \in Databases
  <2>1. [db EXCEPT !.executionBlockMap = links,
                   !.nextExecutionBlockIndex = next,
                   !.currentSlot = current,
                   !.highestSlot = highest] \in Databases
    BY <1>1, <1>2, <1>3, ChainFieldsType
  <2> QED BY <1>4, <2>1
<1>7. /\ new.validators = db.validators
      /\ new.validatorPubkeyMap = db.validatorPubkeyMap
      /\ new.currentSlot = current /\ new.highestSlot = highest
      /\ new.nextExecutionBlockIndex = next
  BY <1>1, <1>4 DEF Databases
<1>8. LookupsAgree(new)
  BY <1>1, <1>7 DEF LookupsAgree, HasPubkey
<1> QED BY <1>3, <1>5, <1>6, <1>7, <1>8 DEF Consistent, current

LEMMA HighestConsistent ==
  ASSUME NEW db, Consistent(db), NEW slot \in Nat,
         NEW new, new = WithHighestSlot(db, slot)
  PROVE  /\ Consistent(new) /\ new.validators = db.validators
         /\ new.currentSlot = db.currentSlot /\ db.highestSlot <= new.highestSlot
         /\ new.nextExecutionBlockIndex = db.nextExecutionBlockIndex
<1>1. db \in Databases /\ LookupsAgree(db) /\ db.highestSlot \in Nat
  BY DEF Consistent, Databases
<1> DEFINE highest == IF slot > db.highestSlot THEN slot ELSE db.highestSlot
<1>2. highest \in Nat /\ db.highestSlot <= highest
  BY <1>1
<1>3. new = [db EXCEPT !.highestSlot = highest]
  BY DEF WithHighestSlot
<1> HIDE DEF highest
<1>4. new \in Databases
  BY <1>1, <1>2, <1>3 DEF Databases
<1>5. /\ new.validators = db.validators
      /\ new.validatorPubkeyMap = db.validatorPubkeyMap
      /\ new.currentSlot = db.currentSlot /\ new.highestSlot = highest
      /\ new.nextExecutionBlockIndex = db.nextExecutionBlockIndex
  BY <1>1, <1>3 DEF Databases
<1>6. LookupsAgree(new)
  BY <1>1, <1>5 DEF LookupsAgree, HasPubkey
<1> QED BY <1>2, <1>4, <1>5, <1>6 DEF Consistent

\* With the lookups in agreement, the lookup Clone rebuilds is the one it
\* copies from, so Clone loses the pending deposits and nothing else.
LEMMA CloneIsCopy ==
  ASSUME NEW db, Consistent(db)
  PROVE  /\ Clone(db) = [db EXCEPT !.pendingDeposits = {}]
         /\ Consistent(Clone(db)) /\ SameChain(Clone(db), db)
<1> DEFINE map == [pubkey \in Pubkeys |->
                     IF PositionsOf(db.validators, pubkey) = {} THEN 0
                     ELSE LastPosition(db.validators, pubkey)]
<1>1. db \in Databases /\ LookupsAgree(db)
  BY DEF Consistent
<1>2. ASSUME NEW pubkey \in Pubkeys
      PROVE  map[pubkey] = db.validatorPubkeyMap[pubkey]
  <2>1. CASE db.validatorPubkeyMap[pubkey] = 0
    <3>1. PositionsOf(db.validators, pubkey) = {}
      BY <1>1, <2>1 DEF LookupsAgree, PositionsOf, Databases, Validators
    <3> QED BY <3>1, <2>1
  <2>2. CASE db.validatorPubkeyMap[pubkey] # 0
    <3> DEFINE p == db.validatorPubkeyMap[pubkey]
    <3>1. p \in 1 .. Len(db.validators) /\ db.validators[p].Pubkey = pubkey
      BY <1>1, <2>2 DEF LookupsAgree, HasPubkey
    <3>2. \A i \in PositionsOf(db.validators, pubkey) : i = p
      BY <1>1 DEF LookupsAgree, PositionsOf
    <3>3. p \in PositionsOf(db.validators, pubkey) /\ p \in Nat
      BY <3>1, <1>1 DEF PositionsOf, Databases
    <3>4. LastPosition(db.validators, pubkey) = p
      BY <3>2, <3>3 DEF LastPosition
    <3> QED BY <3>3, <3>4
  <2> QED BY <2>1, <2>2
<1>3. map = db.validatorPubkeyMap
  BY <1>1, <1>2 DEF Databases
<1>4. Clone(db) = [validators |-> db.validators,
                   pendingDeposits |-> {},
                   validatorPubkeyMap |-> db.validatorPubkeyMap,
                   executionBlockMap |-> db.executionBlockMap,
                   currentSlot |-> db.currentSlot,
                   highestSlot |-> db.highestSlot,
                   nextExecutionBlockIndex |-> db.nextExecutionBlockIndex]
  BY <1>3 DEF Clone
<1>a. db = [validators |-> db.validators,
                    pendingDeposits |-> db.pendingDeposits,
                    validatorPubkeyMap |-> db.validatorPubkeyMap,
                    executionBlockMap |-> db.executionBlockMap,
                    currentSlot |-> db.currentSlot,
                    highestSlot |-> db.highestSlot,
                    nextExecutionBlockIndex |-> db.nextExecutionBlockIndex]
  BY <1>1 DEF Databases
<1>5. [db EXCEPT !.pendingDeposits = {}] =
                   [validators |-> db.validators,
                    pendingDeposits |-> {},
                    validatorPubkeyMap |-> db.validatorPubkeyMap,
                    executionBlockMap |-> db.executionBlockMap,
                    currentSlot |-> db.currentSlot,
                    highestSlot |-> db.highestSlot,
                    nextExecutionBlockIndex |-> db.nextExecutionBlockIndex]
  BY <1>a
<1>6. Clone(db) = [db EXCEPT !.pendingDeposits = {}]
  BY <1>4, <1>5
<1>7. Clone(db) \in Databases /\ SameChain(Clone(db), db)
  BY <1>1, <1>4 DEF Databases, SameChain
<1>8. LookupsAgree(Clone(db))
  BY <1>1, <1>4 DEF LookupsAgree, HasPubkey
<1> QED BY <1>6, <1>7, <1>8 DEF Consistent

\* A write through a *Validator that keeps its pubkey and index.
LEMMA WriteConsistent ==
  ASSUME NEW db, Consistent(db), NEW i \in 1 .. Len(db.validators), NEW v \in Validators,
         v.Pubkey = db.validators[i].Pubkey, v.Index = db.validators[i].Index,
         NEW new, new = [db EXCEPT !.validators[i] = v]
  PROVE  /\ Consistent(new)
         /\ SameChain(new, db)
         /\ Len(new.validators) = Len(db.validators)
         /\ new.validators[i] = v
         /\ \A j \in 1 .. Len(db.validators) :
               /\ j # i => new.validators[j] = db.validators[j]
               /\ new.validators[j].Pubkey = db.validators[j].Pubkey
<1> DEFINE vs == [db.validators EXCEPT ![i] = v]
<1>1. db \in Databases /\ db.validators \in Seq(Validators)
  BY DEF Consistent, Databases
<1>2. /\ vs \in Seq(Validators) /\ Len(vs) = Len(db.validators)
      /\ vs[i] = v
      /\ \A j \in 1 .. Len(vs) : j # i => vs[j] = db.validators[j]
  BY <1>1
<1>3. new = [db EXCEPT !.validators = vs]
  BY <1>1 DEF Databases
<1> HIDE DEF vs
<1>4. /\ new.validators = vs
      /\ new.validatorPubkeyMap = db.validatorPubkeyMap
      /\ new.executionBlockMap = db.executionBlockMap
      /\ new.nextExecutionBlockIndex = db.nextExecutionBlockIndex
      /\ new.currentSlot = db.currentSlot
      /\ new.highestSlot = db.highestSlot
  BY <1>1, <1>3 DEF Databases
<1>5. new \in Databases
  BY <1>1, <1>2, <1>3 DEF Databases
<1>6. SameChain(new, db)
  BY <1>4 DEF SameChain
<1>7. \A j \in 1 .. Len(vs) : /\ vs[j].Pubkey = db.validators[j].Pubkey
                              /\ vs[j].Index = db.validators[j].Index
  BY <1>2
<1>8. LookupsAgree(new)
  <2>1. ASSUME NEW j \in 1 .. Len(new.validators)
        PROVE  /\ new.validators[j].Index = j - 1
               /\ new.validatorPubkeyMap[new.validators[j].Pubkey] = j
    BY <1>2, <1>4, <1>7 DEF Consistent, LookupsAgree
  <2>2. ASSUME NEW p \in Pubkeys, HasPubkey(new, p)
        PROVE  /\ new.validatorPubkeyMap[p] \in 1 .. Len(new.validators)
               /\ new.validators[new.validatorPubkeyMap[p]].Pubkey = p
    <3>1. /\ db.validatorPubkeyMap[p] \in 1 .. Len(db.validators)
          /\ db.validators[db.validatorPubkeyMap[p]].Pubkey = p
      BY <2>2, <1>4 DEF Consistent, LookupsAgree, HasPubkey
    <3> QED BY <3>1, <1>2, <1>4, <1>7
  <2> QED BY <2>1, <2>2 DEF LookupsAgree
<1> QED BY <1>2, <1>4, <1>5, <1>6, <1>7, <1>8 DEF Consistent

LEMMA WriteGood ==
  ASSUME NEW db, Good(db), NEW i \in 1 .. Len(db.validators), NEW v \in Validators,
         v.Pubkey = db.validators[i].Pubkey, v.Index = db.validators[i].Index
  PROVE  /\ Good([db EXCEPT !.validators[i] = v])
         /\ Len([db EXCEPT !.validators[i] = v].validators) = Len(db.validators)
<1> DEFINE new == [db EXCEPT !.validators[i] = v]
<1>1. Consistent(new) /\ SameChain(new, db) /\ Len(new.validators) = Len(db.validators)
  BY WriteConsistent DEF Good, Consistent
<1> QED BY <1>1, SameChainLinked DEF Good, Consistent

\* The values the Validator methods write: typed, and with the pubkey and
\* the index they found.
LEMMA BalanceWrite ==
  ASSUME NEW v \in Validators, NEW balance \in Uint
  PROVE  /\ WithBalance(v, balance) \in Validators
         /\ WithBalance(v, balance).Pubkey = v.Pubkey
         /\ WithBalance(v, balance).Index = v.Index
<1>1. /\ v.EffectiveBalance \in 0 .. UintMod - 1 /\ UintMod \in Nat /\ UintMod > 1
      /\ DownMargin \in 0 .. UintMod - 1 /\ UpMargin \in 0 .. UintMod - 1
  BY BalanceAssumption DEF Validators, Uint
<1>2. \A a, b \in Uint : USub(a, b) \in Uint /\ UAdd(a, b) \in Uint
  BY <1>1 DEF USub, UAdd, Uint
<1>3. v.EffectiveBalance \in Uint /\ 1 \in Uint /\ DownMargin \in Uint /\ UpMargin \in Uint
  BY <1>1 DEF Uint
<1>4. EffectiveAfter(v.EffectiveBalance, balance) \in Uint
  BY <1>2, <1>3 DEF EffectiveAfter
<1> QED BY <1>4 DEF WithBalance, Validators

\* SetStatus.
LEMMA StatusWrite ==
  ASSUME NEW v \in Validators, NEW status \in Statuses
  PROVE  /\ [v EXCEPT !.Status = status] \in Validators
         /\ [v EXCEPT !.Status = status].Pubkey = v.Pubkey
         /\ [v EXCEPT !.Status = status].Index = v.Index
BY DEF Validators

\* Slash, its wrapping subtraction included.
LEMMA SlashWrite ==
  ASSUME NEW v \in Validators, NEW penalty \in Uint
  PROVE  /\ Slashed(v, penalty) \in Validators
         /\ Slashed(v, penalty).Pubkey = v.Pubkey
         /\ Slashed(v, penalty).Index = v.Index
<1>1. USub(v.Balance, penalty) \in Uint
  BY BalanceAssumption DEF USub, Uint, Validators
<1> DEFINE w == WithBalance(v, USub(v.Balance, penalty))
<1>2. w \in Validators /\ w.Pubkey = v.Pubkey /\ w.Index = v.Index
  BY <1>1, BalanceWrite
<1>3. Slashed(v, penalty) = [w EXCEPT !.Slashed = TRUE, !.Status = "active_slashed"]
  BY DEF Slashed
<1> HIDE DEF w
<1> QED BY <1>2, <1>3 DEF Validators, Statuses

=============================================================================

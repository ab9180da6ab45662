------------------------- MODULE BeaconServerProofs -------------------------
(***************************************************************************)
(* Proofs about BeaconServer, for any number of clients, any pubkeys and   *)
(* requests, every uint width and every bound.                             *)
(*                                                                         *)
(* Handlers overlap, so what one of them relies on between two of its      *)
(* steps must survive every step of the others.  It does because the       *)
(* database only grows (Grows): an index or a pubkey that was found stays  *)
(* where it is, and a slot that was read is never above the current one.   *)
(***************************************************************************)
EXTENDS BeaconServer, BeaconDatabaseProofs

-----------------------------------------------------------------------------
(* The inductive invariant *)

Calls == [handler : Handlers \union {"none"}, id : Ids \union {0}, ids : SUBSET Ids,
          amount : Nat, status : Statuses, position : Nat,
          balance : Uint, loaded : Uint,
          left : SUBSET Ids, found : SUBSET Nat, seen : Seq(Nat),
          known : SUBSET (Pubkeys \union Nat), before : Seq(Validators),
          alone : BOOLEAN]

Steps == {"idle"} \union Handlers \union ValidatorSteps

\* The steps that look a validator up, and the ones that write a balance.
LookupSteps == {"getValidator", "setBalance", "setStatus", "slash"}
BalanceSteps == {"setBalance", "SetBalance", "lowerTest", "lowerLoad", "lower",
                 "raiseTest", "raiseLoad", "raise",
                 "slash", "Slash", "exitingTest", "mark", "charge"}

\* What a request carries at each step of its handler.
WellFormed(c) ==
    /\ pc[c] = "addValidator" => call[c].id \in Pubkeys
    /\ pc[c] \in LookupSteps => call[c].id \in Ids
    /\ pc[c] \in BalanceSteps => call[c].amount \in Uint
    /\ pc[c] \in ValidatorSteps => call[c].position # 0
    /\ call[c].position <= Len(db.validators)

\* The slots a handler has read only rise, up to the current one.
SlotsRise(c) ==
    LET seen == call[c].seen
    IN  /\ \A i, j \in 1 .. Len(seen) : i <= j => seen[i] <= seen[j]
        /\ pc[c] # "idle" => \A i \in 1 .. Len(seen) : seen[i] <= db.currentSlot

\* An answered addition is where the answer said.
Placed ==
    \A a \in added : /\ a[2] < Len(db.validators)
                     /\ db.validators[a[2] + 1].Pubkey = a[1]

\* What a request knows stays known, and what it has looked up of that it
\* has found.
Finds(c) ==
    /\ call[c].known \subseteq Known
    /\ pc[c] # "getValidators" => call[c].left = {}
    /\ pc[c] # "getAllValidators" =>
          \A id \in (call[c].ids \ call[c].left) \intersect call[c].known :
              Position(id) \in call[c].found
    /\ reply[c] = "aborted" => call[c].id \notin call[c].known

\* A stopped server has no handler running.
Quiet == server = "stopped" => \A c \in Clients : pc[c] = "idle"

Typed ==
    /\ pc \in [Clients -> Steps]
    /\ call \in [Clients -> Calls]
    /\ reply \in [Clients -> {"none", "ok", "error", "aborted"}]
    /\ size \in [Pubkeys -> Statuses]
    /\ added \subseteq Pubkeys \X Nat
    /\ server \in {"new", "listening", "closing", "stopped"}
    /\ serving \in BOOLEAN
    /\ exited \in BOOLEAN
    /\ Consistent(db) /\ db.currentSlot <= db.highestSlot

IInv ==
    /\ Typed
    /\ Placed
    /\ Quiet
    /\ \A c \in Clients : WellFormed(c) /\ SlotsRise(c) /\ Finds(c)

-----------------------------------------------------------------------------
(* The database grows *)

Grows ==
    /\ Consistent(db')
    /\ db'.currentSlot <= db'.highestSlot
    /\ db.currentSlot <= db'.currentSlot
    /\ Len(db.validators) <= Len(db'.validators)
    /\ \A i \in 1 .. Len(db.validators) :
          db'.validators[i].Pubkey = db.validators[i].Pubkey

LEMMA DatabaseTypes ==
  ASSUME Typed
  PROVE  /\ db \in Databases /\ LookupsAgree(db)
         /\ db.validators \in Seq(Validators) /\ Len(db.validators) \in Nat
         /\ db.validatorPubkeyMap \in [Pubkeys -> Nat]
         /\ db.currentSlot \in Nat /\ db.highestSlot \in Nat
         /\ db.currentSlot <= db.highestSlot
BY DEF Typed, Consistent, Databases

LEMMA SameGrows ==
  ASSUME Typed, db' = db
  PROVE  Grows
BY DatabaseTypes DEF Typed, Grows

\* AddValidator appends.
LEMMA AddGrows ==
  ASSUME Typed, NEW pubkey \in Pubkeys, ~HasPubkey(db, pubkey),
         db' = WithValidator(db, pubkey)
  PROVE  /\ Grows
         /\ Len(db'.validators) = Len(db.validators) + 1
         /\ db'.validators[Len(db.validators) + 1].Pubkey = pubkey
BY DatabaseTypes, ValidatorConsistent DEF Typed, Grows, SameChain

\* CommitBlock moves the current slot, and the highest one before it.
LEMMA CommitGrows ==
  ASSUME Typed, NEW slotValidated \in BOOLEAN, db' = WithBlock(db, slotValidated)
  PROVE  Grows
BY DatabaseTypes, BlockConsistent, SMTT(30) DEF Typed, Grows

\* SetHighestSlot leaves the current slot alone and raises the highest.
LEMMA HeadGrows ==
  ASSUME Typed, NEW slot \in Nat, db' = WithHighestSlot(db, slot)
  PROVE  Grows
<1>1. /\ Consistent(db') /\ db'.validators = db.validators
      /\ db'.currentSlot = db.currentSlot /\ db.highestSlot <= db'.highestSlot
  BY HighestConsistent DEF Typed
<1>2. db'.highestSlot \in Nat
  BY <1>1 DEF Consistent, Databases
<1> QED BY <1>1, <1>2, DatabaseTypes DEF Grows

\* A store through a *Validator keeps the pubkey and the index it found.
LEMMA StoreGrows ==
  ASSUME Typed, NEW c \in Clients, WellFormed(c), pc[c] \in ValidatorSteps,
         NEW v \in Validators, Store(c, v),
         v.Pubkey = Validator(c).Pubkey, v.Index = Validator(c).Index
  PROVE  /\ Grows
         /\ Len(db'.validators) = Len(db.validators)
         /\ Validator(c) \in Validators
         /\ db'.validators[call[c].position] = v
<1>1. call[c].position \in 1 .. Len(db.validators)
  BY DatabaseTypes DEF Typed, WellFormed, Calls
<1>2. /\ Consistent(db') /\ SameChain(db', db)
      /\ Len(db'.validators) = Len(db.validators)
      /\ db'.validators[call[c].position] = v
      /\ \A j \in 1 .. Len(db.validators) :
            db'.validators[j].Pubkey = db.validators[j].Pubkey
  <2> DEFINE p == call[c].position
  <2>1. /\ p \in 1 .. Len(db.validators) /\ Consistent(db)
        /\ db' = [db EXCEPT !.validators[p] = v]
        /\ v.Pubkey = db.validators[p].Pubkey /\ v.Index = db.validators[p].Index
    BY <1>1 DEF Typed, Store, Validator
  <2> HIDE DEF p
  <2>2. /\ Consistent(db') /\ SameChain(db', db)
        /\ Len(db'.validators) = Len(db.validators)
        /\ db'.validators[p] = v
        /\ \A j \in 1 .. Len(db.validators) :
              db'.validators[j].Pubkey = db.validators[j].Pubkey
    BY <2>1, WriteConsistent
  <2> QED BY <2>2 DEF p
<1> QED BY <1>1, <1>2, DatabaseTypes DEF Grows, SameChain, Validator

-----------------------------------------------------------------------------
(* Lookups *)

LEMMA PositionType ==
  ASSUME Typed, NEW id \in Ids
  PROVE  Position(id) \in 0 .. Len(db.validators)
<1>1. CASE id \in Pubkeys
  BY <1>1, DatabaseTypes DEF Position, PositionByPubkey, LookupsAgree, HasPubkey
<1>2. CASE id \notin Pubkeys
  <2>1. id \in Nat
    BY <1>2, RequestAssumption DEF Ids
  <2> QED BY <1>2, <2>1, DatabaseTypes DEF Position, PositionByIndex
<1> QED BY <1>1, <1>2

\* Both names of an addition lead to where it is, in a database that holds it.
LEMMA PlacedIn ==
  ASSUME NEW d, Consistent(d), NEW a \in Pubkeys \X Nat,
         a[2] < Len(d.validators), d.validators[a[2] + 1].Pubkey = a[1]
  PROVE  /\ a[1] \in Pubkeys /\ a[2] \in Nat
         /\ a[2] + 1 \in 1 .. Len(d.validators)
         /\ PositionByPubkey(d, a[1]) = a[2] + 1
         /\ PositionByIndex(d, a[2]) = a[2] + 1
<1>1. a[1] \in Pubkeys /\ a[2] \in Nat /\ Len(d.validators) \in Nat
  BY DEF Consistent, Databases
<1>2. a[2] + 1 \in 1 .. Len(d.validators)
  BY <1>1
<1> QED BY <1>1, <1>2 DEF Consistent, LookupsAgree, PositionByPubkey, PositionByIndex

LEMMA PlacedIsFound ==
  ASSUME Typed, Placed, NEW a \in added
  PROVE  /\ a[1] \in Pubkeys /\ a[2] \in Nat
         /\ a[2] + 1 \in 1 .. Len(db.validators)
         /\ PositionByPubkey(db, a[1]) = a[2] + 1
         /\ PositionByIndex(db, a[2]) = a[2] + 1
BY PlacedIn DEF Typed, Placed

LEMMA KnownIsFound ==
  ASSUME Typed, Placed, NEW id \in Ids \intersect Known
  PROVE  \E a \in added : id \in {a[1], a[2]} /\ Position(id) = a[2] + 1
<1>1. PICK a \in added : id = a[1] \/ id = a[2]
  BY DEF Known
<1>2. CASE id = a[1]
  BY <1>1, <1>2, PlacedIsFound DEF Position
<1>3. CASE id = a[2]
  BY <1>1, <1>3, PlacedIsFound, RequestAssumption DEF Position
<1> QED BY <1>1, <1>2, <1>3

\* Growing moves nothing that was answered, and answers stand.
LEMMA PlacedStays ==
  ASSUME Typed, Placed, Grows, added' = added
  PROVE  Placed'
<1> SUFFICES ASSUME NEW a \in added
             PROVE  /\ a[2] < Len(db'.validators)
                    /\ db'.validators[a[2] + 1].Pubkey = a[1]
  BY DEF Placed
<1>1. a[2] \in Nat /\ a[2] + 1 \in 1 .. Len(db.validators)
  BY PlacedIsFound
<1>2. Len(db'.validators) \in Nat /\ Len(db.validators) \in Nat
  BY DatabaseTypes DEF Grows, Consistent, Databases
<1>3. a[2] < Len(db.validators) /\ db.validators[a[2] + 1].Pubkey = a[1]
  BY DEF Placed
<1>4. Len(db.validators) <= Len(db'.validators)
  BY DEF Grows
<1>5. db'.validators[a[2] + 1].Pubkey = db.validators[a[2] + 1].Pubkey
  BY <1>1 DEF Grows
<1> QED BY <1>1, <1>2, <1>3, <1>4, <1>5

\* A known name is found at the same position ever after.
LEMMA PositionStays ==
  ASSUME Typed, Placed, Typed', Placed', added \subseteq added',
         NEW id \in Ids \intersect Known
  PROVE  Position(id)' = Position(id) /\ id \in Known'
<1>1. PICK a \in added : id \in {a[1], a[2]} /\ Position(id) = a[2] + 1
  BY KnownIsFound
<1>2. /\ a \in added' /\ a[1] \in Pubkeys /\ a[2] \in Nat
      /\ PositionByPubkey(db', a[1]) = a[2] + 1
      /\ PositionByIndex(db', a[2]) = a[2] + 1
  <2>1. a \in added' /\ a \in Pubkeys \X Nat /\ Consistent(db')
    BY <1>1 DEF Typed
  <2>2. a[2] < Len(db'.validators) /\ db'.validators[a[2] + 1].Pubkey = a[1]
    BY <2>1 DEF Placed
  <2> QED BY <2>1, <2>2, PlacedIn
<1>3. id \in Known'
  BY <1>1, <1>2 DEF Known
<1>4. Position(id)' = a[2] + 1
  <2>1. CASE id = a[1]
    BY <1>2, <2>1 DEF Position
  <2>2. CASE id = a[2]
    BY <1>2, <2>2, RequestAssumption DEF Position
  <2> QED BY <1>1, <2>1, <2>2
<1> QED BY <1>1, <1>3, <1>4

-----------------------------------------------------------------------------
(* One step of one handler *)

\* A request whose own record, step and reply a step leaves alone loses
\* nothing while the database grows.
LEMMA UndisturbedKeeps ==
  ASSUME IInv, Typed', Placed', Grows, added \subseteq added', NEW d \in Clients,
         pc'[d] = pc[d], call'[d] = call[d], reply'[d] = reply[d]
  PROVE  WellFormed(d)' /\ SlotsRise(d)' /\ Finds(d)'
<1>1. Typed /\ Placed /\ WellFormed(d) /\ SlotsRise(d) /\ Finds(d)
  BY DEF IInv
<1>2. call[d] \in Calls
  BY <1>1 DEF Typed
<1>3. WellFormed(d)'
  <2>1. call[d].position \in Nat
    BY <1>2 DEF Calls
  <2>2. Len(db'.validators) \in Nat /\ Len(db.validators) <= Len(db'.validators)
    BY DEF Grows, Consistent, Databases
  <2>3. call'[d].position <= Len(db'.validators)
    BY <1>1, <2>1, <2>2, DatabaseTypes DEF WellFormed
  <2> QED BY <1>1, <2>3 DEF WellFormed
<1>4. SlotsRise(d)'
  <2> DEFINE seen == call[d].seen
  <2>1. seen \in Seq(Nat)
    BY <1>2 DEF Calls
  <2>2. db'.currentSlot \in Nat /\ db.currentSlot <= db'.currentSlot
    BY DEF Grows, Consistent, Databases
  <2>3. ASSUME pc[d] # "idle", NEW i \in 1 .. Len(seen)
        PROVE  seen[i] <= db'.currentSlot
    <3>1. seen[i] \in Nat /\ seen[i] <= db.currentSlot
      BY <1>1, <2>1, <2>3 DEF SlotsRise
    <3> QED BY <3>1, <2>2, <1>1, DatabaseTypes
  <2> QED BY <1>1, <2>3 DEF SlotsRise
<1>5. Finds(d)'
  <2>1. call[d].ids \subseteq Ids /\ call[d].known \subseteq Known
    BY <1>1, <1>2 DEF Calls, Finds
  <2>2. \A id \in call[d].ids \intersect call[d].known :
           Position(id)' = Position(id)
    BY <2>1, <1>1, PositionStays
  <2>3. call[d].known \subseteq Known'
    BY <2>1 DEF Known
  <2>4. ASSUME pc[d] # "getAllValidators",
               NEW id \in (call[d].ids \ call[d].left) \intersect call[d].known
        PROVE  Position(id)' \in call[d].found
    BY <2>2, <2>4, <1>1 DEF Finds
  <2> QED BY <1>1, <2>3, <2>4 DEF Finds
<1> QED BY <1>3, <1>4, <1>5

\* What a step of c's handler is, whatever it does to the database.
Advance(c, k, step, code) ==
    /\ pc' = [pc EXCEPT ![c] = step]
    /\ call' = [call EXCEPT ![c] = k]
    /\ reply' = [reply EXCEPT ![c] = code]
    /\ UNCHANGED process

\* Such a step keeps the invariant if it does for c.
LEMMA AdvanceKeeps ==
  ASSUME IInv, NEW c \in Clients, pc[c] # "idle",
         NEW k \in Calls, NEW step \in Steps,
         NEW code \in {"none", "ok", "error", "aborted"},
         Advance(c, k, step, code),
         Grows, size' \in [Pubkeys -> Statuses],
         added \subseteq added', added' \subseteq Pubkeys \X Nat, Placed',
         Typed' => WellFormed(c)' /\ SlotsRise(c)' /\ Finds(c)'
  PROVE  IInv'
<1>1. Typed /\ Quiet
  BY DEF IInv
<1>2. Typed'
  BY <1>1 DEF Typed, Advance, Grows, process
<1>3. \A d \in Clients \ {c} :
         pc'[d] = pc[d] /\ call'[d] = call[d] /\ reply'[d] = reply[d]
  BY <1>1 DEF Advance, Typed
<1>4. \A d \in Clients \ {c} : WellFormed(d)' /\ SlotsRise(d)' /\ Finds(d)'
  BY <1>2, <1>3, UndisturbedKeeps
<1>5. Quiet'
  BY <1>1 DEF Quiet, Advance, process
<1> QED BY <1>2, <1>4, <1>5 DEF IInv

\* What a request has read and found, which its last steps leave alone.
SameReads(k, old) ==
    /\ k.id = old.id /\ k.ids = old.ids /\ k.left = old.left
    /\ k.found = old.found /\ k.seen = old.seen /\ k.known = old.known

\* What a *Validator handler has read and found stands; what it goes on with
\* must be there.
LEMMA StepKeeps ==
  ASSUME IInv, NEW c \in Clients,
         pc[c] \notin {"idle", "getValidators", "getAllValidators"},
         NEW k \in Calls, SameReads(k, call[c]), k.position <= Len(db.validators),
         NEW step \in {"idle"} \union ValidatorSteps,
         step # "idle" => k.position # 0,
         step \in BalanceSteps => k.amount \in Uint,
         NEW code \in {"none", "ok", "error", "aborted"},
         code = "aborted" => reply[c] = code \/ call[c].id \notin call[c].known,
         Advance(c, k, step, code),
         Grows, size' \in [Pubkeys -> Statuses],
         added \subseteq added', added' \subseteq Pubkeys \X Nat, Placed'
  PROVE  IInv'
<1>1. Typed /\ Placed /\ WellFormed(c) /\ SlotsRise(c) /\ Finds(c) /\ call[c] \in Calls
  BY DEF IInv, Typed
<1>2. /\ pc'[c] = step /\ call'[c] = k /\ reply'[c] = code
  BY <1>1 DEF Advance, Typed
<1>3. step \in Steps
  BY DEF Steps
<1>4. ASSUME Typed' PROVE WellFormed(c)' /\ SlotsRise(c)' /\ Finds(c)'
  <2>1. k.position \in Nat /\ k.seen \in Seq(Nat) /\ k.ids \subseteq Ids
    BY <1>1 DEF Calls
  <2>2. /\ Len(db'.validators) \in Nat /\ Len(db.validators) <= Len(db'.validators)
        /\ db'.currentSlot \in Nat /\ db.currentSlot <= db'.currentSlot
    BY DEF Grows, Consistent, Databases
  <2>3. WellFormed(c)'
    <3>1. k.position <= Len(db'.validators)
      BY <1>1, <2>1, <2>2, DatabaseTypes
    <3>2. /\ step # "addValidator" /\ step \notin LookupSteps
          /\ step = "idle" => step \notin ValidatorSteps \union BalanceSteps
      BY DEF ValidatorSteps, LookupSteps, BalanceSteps
    <3> QED BY <1>2, <3>1, <3>2 DEF WellFormed
  <2>4. SlotsRise(c)'
    <3>1. ASSUME NEW i \in 1 .. Len(k.seen)
          PROVE  k.seen[i] <= db'.currentSlot
      <4>1. k.seen[i] \in Nat /\ k.seen[i] <= db.currentSlot
        BY <1>1, <2>1 DEF SlotsRise, SameReads
      <4> QED BY <4>1, <2>2, <1>1, DatabaseTypes
    <3> QED BY <1>1, <1>2, <3>1 DEF SlotsRise, SameReads
  <2>5. Finds(c)'
    <3>1. \A id \in k.ids \intersect k.known : Position(id)' = Position(id)
      BY <1>1, <1>4, <2>1, PositionStays DEF Finds, SameReads
    <3>2. k.known \subseteq Known'
      BY <1>1 DEF Known, Finds, SameReads
    <3> QED BY <1>1, <1>2, <3>1, <3>2 DEF Finds, SameReads
  <2> QED BY <2>3, <2>4, <2>5
<1> QED BY <1>1, <1>3, <1>4, AdvanceKeeps

\* Finish and Goto are such steps.
LEMMA FinishAdvances ==
  ASSUME Typed, NEW c \in Clients, NEW code, Finish(c, code), call' = call
  PROVE  Advance(c, call[c], "idle", code)
BY DEF Typed, Finish, Advance

LEMMA GotoAdvances ==
  ASSUME Typed, NEW c \in Clients, NEW step, Goto(c, step),
         NEW k, call' = [call EXCEPT ![c] = k]
  PROVE  Advance(c, k, step, reply[c])
BY DEF Typed, Goto, Advance

\* A handler that ends, the database growing or staying.
LEMMA FinishKeeps ==
  ASSUME IInv, NEW c \in Clients,
         pc[c] \in (Handlers \union ValidatorSteps) \ {"getValidators", "getAllValidators"},
         NEW code \in {"ok", "error"}, Finish(c, code), call' = call, Grows,
         size' \in [Pubkeys -> Statuses],
         added \subseteq added', added' \subseteq Pubkeys \X Nat, Placed'
  PROVE  IInv'
<1>1. Typed /\ WellFormed(c) /\ Advance(c, call[c], "idle", code) /\ call[c] \in Calls
  BY FinishAdvances DEF IInv, Typed
<1>2. pc[c] # "idle" /\ "idle" \notin BalanceSteps
  BY DEF Handlers, ValidatorSteps, BalanceSteps
<1>3. SameReads(call[c], call[c]) /\ call[c].position <= Len(db.validators)
  BY <1>1 DEF SameReads, WellFormed
<1> QED BY <1>1, <1>2, <1>3, StepKeeps

\* A handler that goes on with its *Validator.
LEMMA GotoKeeps ==
  ASSUME IInv, NEW c \in Clients,
         pc[c] \in (Handlers \union ValidatorSteps) \ {"getValidators", "getAllValidators"},
         NEW k \in Calls, SameReads(k, call[c]),
         k.position # 0, k.position <= Len(db.validators),
         NEW step \in ValidatorSteps, step \in BalanceSteps => k.amount \in Uint,
         Goto(c, step), call' = [call EXCEPT ![c] = k],
         Grows, size' \in [Pubkeys -> Statuses], added' = added
  PROVE  IInv'
<1>1. Typed /\ Placed /\ Advance(c, k, step, reply[c]) /\ added \subseteq Pubkeys \X Nat
  BY GotoAdvances DEF IInv, Typed
<1>2. pc[c] \notin {"idle", "getValidators", "getAllValidators"} /\ step # "idle"
  BY DEF Handlers, ValidatorSteps
<1>3. Placed'
  BY <1>1, PlacedStays
<1>4. reply[c] \in {"none", "ok", "error", "aborted"}
  BY <1>1 DEF Typed
<1> QED BY <1>1, <1>2, <1>3, <1>4, StepKeeps

\* The handlers that call one method of the database.
LEMMA AddValidatorKeeps ==
  ASSUME IInv, NEW c \in Clients, addValidator(c)
  PROVE  IInv'
<1> DEFINE pubkey == call[c].id
<1>1. Typed /\ Placed /\ pubkey \in Pubkeys /\ pc[c] = "addValidator"
  BY DEF IInv, WellFormed, addValidator
<1>2. added \subseteq Pubkeys \X Nat /\ size \in [Pubkeys -> Statuses]
  BY <1>1 DEF Typed
<1>3. pc[c] \in (Handlers \union ValidatorSteps) \ {"getValidators", "getAllValidators"}
  BY <1>1 DEF Handlers
<1>4. call' = call /\ size' = size
  BY DEF addValidator
<1>5. CASE HasPubkey(db, pubkey)
  <2>1. Finish(c, "error") /\ db' = db /\ added' = added
    BY <1>5 DEF addValidator
  <2>2. Grows
    BY <1>1, <2>1, SameGrows
  <2>3. Placed'
    BY <1>1, <2>1, <2>2, PlacedStays
  <2> QED BY <1>2, <1>3, <1>4, <2>1, <2>2, <2>3, FinishKeeps
<1>6. CASE ~HasPubkey(db, pubkey)
  <2> DEFINE index == Len(db.validators)
  <2>1. /\ Finish(c, "ok") /\ db' = WithValidator(db, pubkey)
        /\ added' = added \union {<<pubkey, index>>}
    BY <1>6 DEF addValidator
  <2>2. /\ Grows
        /\ Len(db'.validators) = index + 1
        /\ db'.validators[index + 1].Pubkey = pubkey
    BY <1>1, <1>6, <2>1, AddGrows
  <2>3. index \in Nat
    BY <1>1, DatabaseTypes
  <2>4. added' \subseteq Pubkeys \X Nat
    BY <1>1, <1>2, <2>1, <2>3
  <2>5. Placed'
    <3> SUFFICES ASSUME NEW a \in added'
                 PROVE  /\ a[2] < Len(db'.validators)
                        /\ db'.validators[a[2] + 1].Pubkey = a[1]
      BY DEF Placed
    <3>1. CASE a \in added
      <4>1. a[2] \in Nat /\ a[2] + 1 \in 1 .. index
        BY <1>1, <3>1, PlacedIsFound
      <4>2. db'.validators[a[2] + 1].Pubkey = db.validators[a[2] + 1].Pubkey
        BY <2>2, <4>1 DEF Grows
      <4>3. db.validators[a[2] + 1].Pubkey = a[1]
        BY <1>1, <3>1 DEF Placed
      <4>4. a[2] < index + 1
        BY <2>3, <4>1
      <4> QED BY <2>2, <4>2, <4>3, <4>4
    <3>2. CASE a = <<pubkey, index>>
      BY <3>2, <2>2, <2>3
    <3> QED BY <3>1, <3>2, <2>1
  <2>6. added \subseteq added'
    BY <2>1
  <2> QED BY <1>2, <1>3, <1>4, <2>1, <2>2, <2>4, <2>5, <2>6, FinishKeeps
<1> QED BY <1>5, <1>6

LEMMA MethodKeeps ==
  ASSUME IInv, NEW c \in Clients,
         commitBlock(c) \/ setHighestSlot(c) \/ getConfig(c) \/ getMeta(c)
  PROVE  IInv'
<1>1. Typed /\ Placed /\ added \subseteq Pubkeys \X Nat /\ size \in [Pubkeys -> Statuses]
  BY DEF IInv, Typed
<1>2. /\ pc[c] \in (Handlers \union ValidatorSteps) \ {"getValidators", "getAllValidators"}
      /\ Finish(c, "ok") /\ call' = call /\ size' = size /\ added' = added
  BY DEF commitBlock, setHighestSlot, getConfig, getMeta, Handlers, ValidatorSteps
<1>3. Grows
  <2>1. CASE commitBlock(c)
    BY <1>1, <2>1, CommitGrows DEF commitBlock
  <2>2. CASE setHighestSlot(c)
    <3>1. call[c].amount \in Nat
      BY <1>1 DEF Typed, Calls
    <3> QED BY <1>1, <2>2, <3>1, HeadGrows DEF setHighestSlot
  <2>3. CASE getConfig(c) \/ getMeta(c)
    BY <1>1, <2>3, SameGrows DEF getConfig, getMeta
  <2> QED BY <2>1, <2>2, <2>3
<1>4. Placed'
  BY <1>1, <1>2, <1>3, PlacedStays
<1> QED BY <1>1, <1>2, <1>3, <1>4, FinishKeeps

\* The handlers that look a validator up: nil ends them, and then the request
\* did not know the validator.
LEMMA FindKeeps ==
  ASSUME IInv, NEW c \in Clients, NEW step \in ValidatorSteps,
         NEW handler \in LookupSteps, Find(c, handler, step),
         step \in BalanceSteps => handler \in BalanceSteps
  PROVE  IInv'
<1> DEFINE id == call[c].id
           position == Position(id)
<1>1. /\ Typed /\ Placed /\ WellFormed(c) /\ Finds(c) /\ pc[c] = handler
      /\ call[c] \in Calls /\ id \in Ids
      /\ added \subseteq Pubkeys \X Nat /\ size \in [Pubkeys -> Statuses]
  BY DEF IInv, Typed, WellFormed, Find
<1>2. position \in Nat /\ position <= Len(db.validators)
  BY <1>1, PositionType, DatabaseTypes
<1>3. pc[c] \in (Handlers \union ValidatorSteps) \ {"getValidators", "getAllValidators"}
  BY <1>1 DEF LookupSteps, Handlers
<1>4. db' = db /\ size' = size /\ added' = added
  BY DEF Find
<1>5. Grows
  BY <1>1, <1>4, SameGrows
<1>6. CASE position # 0
  <2> DEFINE k == [call[c] EXCEPT !.position = position]
  <2>1. k \in Calls /\ SameReads(k, call[c]) /\ k.position = position
        /\ k.amount = call[c].amount
    BY <1>1, <1>2 DEF Calls, SameReads
  <2>2. call' = [call EXCEPT ![c] = k] /\ Goto(c, step)
    BY <1>6 DEF Find
  <2>3. step \in BalanceSteps => k.amount \in Uint
    BY <1>1, <2>1 DEF WellFormed
  <2> HIDE DEF k, position
  <2> QED BY <1>1, <1>2, <1>3, <1>4, <1>5, <1>6, <2>1, <2>2, <2>3, GotoKeeps
<1>7. CASE position = 0
  <2>1. Finish(c, "aborted") /\ call' = call
    BY <1>7 DEF Find
  <2>2. Advance(c, call[c], "idle", "aborted")
    BY <1>1, <2>1, FinishAdvances
  <2>3. id \notin call[c].known
    <3> SUFFICES ASSUME id \in call[c].known PROVE FALSE
      OBVIOUS
    <3>1. id \in Ids \intersect Known
      BY <1>1 DEF Finds
    <3> QED BY <1>1, <1>7, <3>1, KnownIsFound, PlacedIsFound
  <2>4. SameReads(call[c], call[c]) /\ call[c].position <= Len(db.validators)
        /\ "idle" \notin BalanceSteps
    BY <1>1 DEF SameReads, WellFormed, BalanceSteps
  <2>5. Placed'
    BY <1>1, <1>4, <1>5, PlacedStays
  <2>6. pc[c] \notin {"idle", "getValidators", "getAllValidators"}
    BY <1>1 DEF LookupSteps
  <2> QED BY <1>1, <1>4, <1>5, <2>2, <2>3, <2>4, <2>5, <2>6, StepKeeps
<1> QED BY <1>6, <1>7

\* The values that stores through a *Validator write.
LEMMA UintArithmetic ==
  ASSUME NEW a \in Uint, NEW b \in Uint
  PROVE  USub(a, b) \in Uint /\ UAdd(a, b) \in Uint
BY BalanceAssumption DEF USub, UAdd, Uint

LEMMA UintConstants ==
  /\ 0 \in Uint /\ 1 \in Uint /\ DownMargin \in Uint /\ UpMargin \in Uint
  /\ \A n \in Uint : n \in Nat
BY BalanceAssumption DEF Uint

LEMMA ValidatorType ==
  ASSUME IInv, NEW c \in Clients, pc[c] \in ValidatorSteps
  PROVE  /\ Validator(c) \in Validators
         /\ call[c] \in Calls /\ call[c].loaded \in Uint /\ call[c].balance \in Uint
         /\ call[c].position \in 1 .. Len(db.validators)
         /\ call[c].amount \in Nat
         /\ pc[c] \in BalanceSteps => call[c].amount \in Uint
<1>1. Typed /\ WellFormed(c) /\ call[c] \in Calls
  BY DEF IInv, Typed
<1>2. call[c].position \in 1 .. Len(db.validators)
  BY <1>1, DatabaseTypes DEF WellFormed, Calls
<1> QED BY <1>1, <1>2, DatabaseTypes DEF Validator, WellFormed, Calls

\* The record of a request whose handler has these values in its variables.
Locals(c, balance, loaded) ==
    [call[c] EXCEPT !.balance = balance, !.loaded = loaded]

LEMMA LocalsFacts ==
  ASSUME Typed, NEW c \in Clients, NEW balance \in Uint, NEW loaded \in Uint
  PROVE  LET k == Locals(c, balance, loaded)
         IN  /\ k \in Calls /\ SameReads(k, call[c])
             /\ k.position = call[c].position /\ k.amount = call[c].amount
             /\ k.handler = call[c].handler /\ k.status = call[c].status
             /\ k.before = call[c].before /\ k.alone = call[c].alone
             /\ k.balance = balance /\ k.loaded = loaded
<1>1. call[c] \in Calls
  BY DEF Typed
<1> QED BY <1>1 DEF Locals, Calls, SameReads

\* A step that writes none of its handler's variables.
LEMMA SameLocals ==
  ASSUME IInv, NEW c \in Clients, call' = call
  PROVE  \E balance, loaded \in Uint :
            call' = [call EXCEPT ![c] = Locals(c, balance, loaded)]
<1>1. call[c] \in Calls /\ call \in [Clients -> Calls]
  BY DEF IInv, Typed
<1>2. call[c] = Locals(c, call[c].balance, call[c].loaded)
  BY <1>1 DEF Locals, Calls
<1>3. call[c].balance \in Uint /\ call[c].loaded \in Uint
  BY <1>1 DEF Calls
<1> QED BY <1>1, <1>2, <1>3

\* Where a step of a *Validator leads.
Leads(c) ==
    \/ \E code \in {"ok", "error"} : Finish(c, code)
    \/ \E step \in ValidatorSteps : /\ Goto(c, step)
                                    /\ step \in BalanceSteps => pc[c] \in BalanceSteps

LEMMA ValidatorStepKeeps ==
  ASSUME IInv, NEW c \in Clients, pc[c] \in ValidatorSteps, Leads(c), Grows,
         size' \in [Pubkeys -> Statuses], added' = added,
         \E balance, loaded \in Uint :
            call' = [call EXCEPT ![c] = Locals(c, balance, loaded)]
  PROVE  IInv'
<1>1. /\ Typed /\ Placed /\ WellFormed(c) /\ added \subseteq Pubkeys \X Nat
      /\ reply[c] \in {"none", "ok", "error", "aborted"}
  BY DEF IInv, Typed
<1>2. PICK k \in Calls : /\ call' = [call EXCEPT ![c] = k] /\ SameReads(k, call[c])
                         /\ k.position = call[c].position /\ k.amount = call[c].amount
  <2>1. PICK balance \in Uint, loaded \in Uint :
           call' = [call EXCEPT ![c] = Locals(c, balance, loaded)]
    OBVIOUS
  <2>2. LET k == Locals(c, balance, loaded)
        IN  /\ k \in Calls /\ SameReads(k, call[c])
            /\ k.position = call[c].position /\ k.amount = call[c].amount
    BY <1>1, LocalsFacts
  <2> QED BY <2>1, <2>2
<1>3. /\ k.position # 0 /\ k.position <= Len(db.validators)
      /\ pc[c] \in BalanceSteps => k.amount \in Uint
  BY <1>1, <1>2 DEF WellFormed
<1>4. Placed'
  BY <1>1, PlacedStays
<1>5. /\ pc[c] \notin {"idle", "getValidators", "getAllValidators"}
      /\ pc[c] \in (Handlers \union ValidatorSteps) \ {"getValidators", "getAllValidators"}
      /\ "idle" \notin BalanceSteps
  BY DEF ValidatorSteps, BalanceSteps
<1>6. ASSUME NEW code \in {"ok", "error"}, Finish(c, code) PROVE IInv'
  <2>1. Advance(c, k, "idle", code)
    BY <1>2, <1>6 DEF Finish, Advance
  <2> QED BY <1>1, <1>2, <1>3, <1>4, <1>5, <2>1, StepKeeps
<1>7. ASSUME NEW step \in ValidatorSteps, Goto(c, step),
             step \in BalanceSteps => pc[c] \in BalanceSteps
      PROVE  IInv'
  BY <1>2, <1>3, <1>5, <1>7, GotoKeeps
<1> QED BY <1>6, <1>7 DEF Leads

\* The steps that store a field.
LEMMA StoreKeeps ==
  ASSUME IInv, NEW c \in Clients, pc[c] \in ValidatorSteps,
         NEW v \in Validators, Store(c, v),
         v.Pubkey = Validator(c).Pubkey, v.Index = Validator(c).Index,
         UNCHANGED <<size, added>>, Leads(c),
         \E balance, loaded \in Uint :
            call' = [call EXCEPT ![c] = Locals(c, balance, loaded)]
  PROVE  IInv'
<1>1. Typed /\ WellFormed(c) /\ size \in [Pubkeys -> Statuses]
  BY DEF IInv, Typed
<1>2. Grows
  BY <1>1, StoreGrows
<1> QED BY <1>1, <1>2, ValidatorStepKeeps

\* What is gone when SetBalance is done.
LEMMA AfterLocals ==
  ASSUME IInv, NEW c \in Clients, AfterSetBalance(c)
  PROVE  call' = [call EXCEPT ![c] = Locals(c, 0, 0)] /\ 0 \in Uint
<1>1. call \in [Clients -> Calls] /\ call[c] \in Calls
  BY DEF IInv, Typed
<1>2. call' = [call EXCEPT ![c].balance = 0, ![c].loaded = 0]
  BY DEF AfterSetBalance
<1>3. call' = [call EXCEPT ![c] = [call[c] EXCEPT !.balance = 0, !.loaded = 0]]
  BY <1>1, <1>2 DEF Calls
<1> QED BY <1>3, UintConstants DEF Locals

LEMMA SetBalanceKeeps ==
  ASSUME IInv, NEW c \in Clients, SetBalance(c)
  PROVE  IInv'
<1> DEFINE v == [Validator(c) EXCEPT !.Balance = call[c].balance]
<1>1. /\ pc[c] \in ValidatorSteps /\ Store(c, v) /\ UNCHANGED <<size, added>>
      /\ call' = call /\ Leads(c)
  BY DEF SetBalance, Leads, ValidatorSteps, BalanceSteps
<1>2. v \in Validators /\ v.Pubkey = Validator(c).Pubkey /\ v.Index = Validator(c).Index
  BY <1>1, ValidatorType DEF Validators
<1> HIDE DEF v
<1> QED BY <1>1, <1>2, SameLocals, StoreKeeps

LEMMA LowerKeeps ==
  ASSUME IInv, NEW c \in Clients, Lower(c)
  PROVE  IInv'
<1> DEFINE lowered == USub(call[c].loaded, 1)
           v == [Validator(c) EXCEPT !.EffectiveBalance = lowered]
<1>1. /\ pc[c] \in ValidatorSteps /\ Store(c, v) /\ UNCHANGED <<size, added>>
      /\ call' = [call EXCEPT ![c].loaded = 0] /\ Leads(c)
  BY DEF Lower, Leads, ValidatorSteps, BalanceSteps
<1>2. lowered \in Uint
  BY <1>1, ValidatorType, UintArithmetic, UintConstants
<1> HIDE DEF lowered
<1>3. v \in Validators /\ v.Pubkey = Validator(c).Pubkey /\ v.Index = Validator(c).Index
  BY <1>1, <1>2, ValidatorType DEF Validators
<1>4. /\ call' = [call EXCEPT ![c] = Locals(c, call[c].balance, 0)]
      /\ call[c].balance \in Uint /\ 0 \in Uint
  <2>1. [call[c] EXCEPT !.loaded = 0] = Locals(c, call[c].balance, 0)
    BY <1>1, ValidatorType DEF Locals, Calls
  <2> QED BY <1>1, <2>1, ValidatorType, UintConstants
<1> HIDE DEF v
<1> QED BY <1>1, <1>3, <1>4, StoreKeeps

LEMMA RaiseKeeps ==
  ASSUME IInv, NEW c \in Clients, Raise(c)
  PROVE  IInv'
<1> DEFINE raised == UAdd(call[c].loaded, 1)
           v == [Validator(c) EXCEPT !.EffectiveBalance = raised]
<1>1. /\ pc[c] \in ValidatorSteps /\ Store(c, v) /\ UNCHANGED <<size, added>>
      /\ AfterSetBalance(c) /\ Leads(c)
  BY DEF Raise, AfterSetBalance, Leads, ValidatorSteps, BalanceSteps
<1>2. raised \in Uint
  BY <1>1, ValidatorType, UintArithmetic, UintConstants
<1> HIDE DEF raised
<1>3. v \in Validators /\ v.Pubkey = Validator(c).Pubkey /\ v.Index = Validator(c).Index
  BY <1>1, <1>2, ValidatorType DEF Validators
<1> HIDE DEF v
<1> QED BY <1>1, <1>3, AfterLocals, StoreKeeps

LEMMA StatusTypes ==
  ASSUME IInv, NEW c \in Clients
  PROVE  NewStatus(c) \in Statuses
<1>1. call[c] \in Calls
  BY DEF IInv, Typed
<1> QED BY <1>1 DEF NewStatus, Calls, Statuses

LEMMA StatusTextKeeps ==
  ASSUME IInv, NEW c \in Clients, StatusText(c)
  PROVE  IInv'
<1> DEFINE v == [Validator(c) EXCEPT !.Status = NewStatus(c)]
<1>1. /\ pc[c] \in ValidatorSteps /\ Store(c, v) /\ UNCHANGED <<size, added>>
      /\ call' = call /\ Leads(c)
  BY DEF StatusText, Leads, ValidatorSteps
<1>2. v \in Validators /\ v.Pubkey = Validator(c).Pubkey /\ v.Index = Validator(c).Index
  BY <1>1, ValidatorType, StatusTypes DEF Validators
<1> HIDE DEF v
<1> QED BY <1>1, <1>2, SameLocals, StoreKeeps

LEMMA MarkKeeps ==
  ASSUME IInv, NEW c \in Clients, Mark(c)
  PROVE  IInv'
<1> DEFINE v == [Validator(c) EXCEPT !.Slashed = TRUE]
<1>1. /\ pc[c] \in ValidatorSteps /\ Store(c, v) /\ UNCHANGED <<size, added>>
      /\ call' = call /\ Leads(c)
  BY DEF Mark, Leads, ValidatorSteps, BalanceSteps
<1>2. v \in Validators /\ v.Pubkey = Validator(c).Pubkey /\ v.Index = Validator(c).Index
  BY <1>1, ValidatorType DEF Validators
<1> HIDE DEF v
<1> QED BY <1>1, <1>2, SameLocals, StoreKeeps

\* The steps that test or load, and the store of a status' length.
LEMMA LoadKeeps ==
  ASSUME IInv, NEW c \in Clients,
         \/ LowerTest(c) \/ LowerLoad(c) \/ RaiseTest(c) \/ RaiseLoad(c)
         \/ SetStatus(c) \/ Slash(c) \/ SlashExiting(c) \/ Charge(c)
  PROVE  IInv'
<1>1. /\ pc[c] \in ValidatorSteps /\ db' = db /\ added' = added
  BY DEF LowerTest, LowerLoad, RaiseTest, RaiseLoad, LoadEffective, SetStatus, Slash,
     SlashExiting, Charge, ValidatorSteps
<1>2. Typed /\ size \in [Pubkeys -> Statuses] /\ Grows
  BY <1>1, SameGrows DEF IInv, Typed
<1>3. Leads(c)
  BY DEF LowerTest, LowerLoad, RaiseTest, RaiseLoad, LoadEffective, SetStatus, Slash,
     SlashExiting, Charge, AfterSetBalance, Leads, ValidatorSteps, BalanceSteps
<1>4. size' \in [Pubkeys -> Statuses]
  BY <1>2, StatusTypes DEF LowerTest, LowerLoad, RaiseTest, RaiseLoad, LoadEffective,
     SetStatus, Slash, SlashExiting, Charge
<1>5. \E balance, loaded \in Uint :
         call' = [call EXCEPT ![c] = Locals(c, balance, loaded)]
  <2>1. CASE call' = call
    BY <2>1, SameLocals
  <2>2. CASE RaiseTest(c) /\ AfterSetBalance(c)
    BY <2>2, AfterLocals
  <2>3. CASE LowerLoad(c) \/ RaiseLoad(c)
    <3> DEFINE effective == Validator(c).EffectiveBalance
    <3>1. effective \in Uint /\ call[c].balance \in Uint
      BY <1>1, ValidatorType DEF Validators
    <3>2. call' = [call EXCEPT ![c].loaded = effective]
      BY <2>3 DEF LowerLoad, RaiseLoad, LoadEffective
    <3> HIDE DEF effective
    <3>3. [call[c] EXCEPT !.loaded = effective] = Locals(c, call[c].balance, effective)
      BY <1>1, ValidatorType DEF Locals, Calls
    <3> QED BY <3>1, <3>2, <3>3
  <2>4. CASE Charge(c)
    <3> DEFINE charged == USub(Validator(c).Balance, call[c].amount)
    <3>1. charged \in Uint /\ call[c].loaded \in Uint
      BY <2>4, <1>1, ValidatorType, UintArithmetic
         DEF Validators, Charge, BalanceSteps
    <3>2. call' = [call EXCEPT ![c].balance = charged]
      BY <2>4 DEF Charge
    <3> HIDE DEF charged
    <3>3. [call[c] EXCEPT !.balance = charged] = Locals(c, charged, call[c].loaded)
      BY <1>1, ValidatorType DEF Locals, Calls
    <3> QED BY <3>1, <3>2, <3>3
  <2> QED BY <2>1, <2>2, <2>3, <2>4
          DEF LowerTest, RaiseTest, SetStatus, Slash, SlashExiting
<1> QED BY <1>1, <1>2, <1>3, <1>4, <1>5, ValidatorStepKeeps

\* What c's step leaves of the database and the answers when it only reads.
LEMMA ReadKeeps ==
  ASSUME IInv, NEW c \in Clients, pc[c] \in Handlers, NEW k \in Calls,
         call' = [call EXCEPT ![c] = k], UNCHANGED <<db, size, added>>,
         Finish(c, "ok") \/ Goto(c, pc[c]),
         k.id = call[c].id, k.position = call[c].position, k.amount = call[c].amount,
         Typed' => SlotsRise(c)' /\ Finds(c)'
  PROVE  IInv'
<1>1. /\ Typed /\ Placed /\ WellFormed(c) /\ Grows
      /\ added \subseteq Pubkeys \X Nat /\ size \in [Pubkeys -> Statuses]
      /\ reply[c] \in {"none", "ok", "error", "aborted"}
  BY SameGrows DEF IInv, Typed
<1>2. Placed'
  BY <1>1, PlacedStays
<1>3. pc[c] # "idle" /\ pc[c] \in Steps /\ "idle" \in Steps
  BY DEF Handlers, Steps
<1>4. PICK step \in {"idle", pc[c]}, code \in {"none", "ok", "error", "aborted"} :
         Advance(c, k, step, code)
  BY <1>1 DEF Finish, Goto, Advance, Typed
<1>5. WellFormed(c)'
  <2>1. pc'[c] = step /\ call'[c] = k /\ db' = db
    BY <1>1, <1>4 DEF Advance, Typed
  <2>2. /\ "idle" \notin {"addValidator"} \union LookupSteps
        /\ "idle" \notin BalanceSteps \union ValidatorSteps
    BY DEF LookupSteps, BalanceSteps, ValidatorSteps
  <2> QED BY <1>1, <2>1, <2>2 DEF WellFormed
<1> QED BY <1>1, <1>2, <1>3, <1>4, <1>5, AdvanceKeeps

\* A rising sequence goes on rising when nothing in it is above what comes.
LEMMA RisingAppend ==
  ASSUME NEW seen \in Seq(Nat), NEW slot \in Nat,
         \A i, j \in 1 .. Len(seen) : i <= j => seen[i] <= seen[j],
         \A i \in 1 .. Len(seen) : seen[i] <= slot,
         NEW more, more = Append(seen, slot)
  PROVE  /\ more \in Seq(Nat)
         /\ \A i, j \in 1 .. Len(more) : i <= j => more[i] <= more[j]
         /\ \A i \in 1 .. Len(more) : more[i] <= slot
<1>1. /\ more \in Seq(Nat) /\ Len(seen) \in Nat /\ Len(more) = Len(seen) + 1
      /\ more[Len(seen) + 1] = slot
      /\ \A i \in 1 .. Len(seen) : more[i] = seen[i] /\ seen[i] \in Nat
  OBVIOUS
<1>2. \A i \in 1 .. Len(more) : i = Len(seen) + 1 \/ i \in 1 .. Len(seen)
  BY <1>1
<1>3. \A i \in 1 .. Len(more) : more[i] <= slot
  BY <1>1, <1>2
<1>4. ASSUME NEW i \in 1 .. Len(more), NEW j \in 1 .. Len(more), i <= j
      PROVE  more[i] <= more[j]
  <2>1. CASE j = Len(seen) + 1
    BY <1>1, <1>3, <2>1
  <2>2. CASE j \in 1 .. Len(seen)
    <3>1. i \in 1 .. Len(seen)
      BY <1>1, <1>4, <2>2
    <3> QED BY <1>1, <1>4, <2>2, <3>1
  <2> QED BY <1>2, <2>1, <2>2
<1> QED BY <1>1, <1>3, <1>4

\* A slot read now is not below the ones read before.
LEMMA SlotRead ==
  ASSUME IInv, NEW c \in Clients, pc[c] \in Handlers, NEW slot \in Nat,
         pc[c] \notin {"getValidators", "getAllValidators"},
         db.currentSlot <= slot, See(c, slot), UNCHANGED <<db, size, added>>,
         Finish(c, "ok") \/ (Goto(c, pc[c]) /\ slot = db.currentSlot)
  PROVE  IInv'
<1> DEFINE seen == call[c].seen
           k == [call[c] EXCEPT !.seen = Append(seen, slot)]
<1>1. /\ Typed /\ Placed /\ SlotsRise(c) /\ Finds(c) /\ call[c] \in Calls
      /\ seen \in Seq(Nat)
  BY DEF IInv, Typed, Calls
<1>2. k \in Calls
  <2>1. Append(seen, slot) \in Seq(Nat)
    BY <1>1
  <2> QED BY <1>1, <2>1 DEF Calls
<1>3. /\ k.id = call[c].id /\ k.position = call[c].position /\ k.amount = call[c].amount
      /\ k.ids = call[c].ids /\ k.left = call[c].left /\ k.found = call[c].found
      /\ k.known = call[c].known /\ k.seen = Append(seen, slot)
  BY <1>1 DEF Calls
<1>4. call' = [call EXCEPT ![c] = k]
  BY DEF See
<1> HIDE DEF k
<1>5. /\ call'[c] = k
      /\ pc'[c] = "idle" \/ (pc'[c] = pc[c] /\ slot = db.currentSlot)
      /\ reply'[c] = reply[c] \/ reply'[c] = "ok"
  BY <1>1, <1>4 DEF Finish, Goto, Typed
<1>6. SlotsRise(c)'
  <2>1. pc[c] # "idle"
    BY DEF Handlers
  <2>2. /\ \A i \in 1 .. Len(seen) : seen[i] \in Nat /\ seen[i] <= db.currentSlot
        /\ \A i, j \in 1 .. Len(seen) : i <= j => seen[i] <= seen[j]
    BY <1>1, <2>1 DEF SlotsRise
  <2>3. \A i \in 1 .. Len(seen) : seen[i] <= slot
    <3> SUFFICES ASSUME NEW i \in 1 .. Len(seen) PROVE seen[i] <= slot
      OBVIOUS
    <3>1. seen[i] \in Nat /\ seen[i] <= db.currentSlot /\ db.currentSlot \in Nat
      BY <1>1, <2>2, DatabaseTypes
    <3> QED BY <3>1
  <2> HIDE DEF seen
  <2>4. /\ \A i, j \in 1 .. Len(k.seen) : i <= j => k.seen[i] <= k.seen[j]
        /\ \A i \in 1 .. Len(k.seen) : k.seen[i] <= slot
    BY <1>1, <1>3, <2>2, <2>3, RisingAppend
  <2>5. db' = db
    OBVIOUS
  <2> QED BY <1>5, <2>4, <2>5 DEF SlotsRise
<1>7. ASSUME Typed' PROVE Finds(c)'
  <2>1. Grows /\ db' = db /\ added' = added
    BY <1>1, SameGrows
  <2>2. Placed' /\ Known' = Known
    BY <1>1, <2>1, PlacedStays DEF Known
  <2>3. \A id \in k.ids : Position(id)' = Position(id)
    BY <2>1 DEF Position
  <2> QED BY <1>1, <1>3, <1>5, <2>2, <2>3 DEF Finds
<1> QED BY <1>2, <1>3, <1>4, <1>6, <1>7, ReadKeeps

LEMMA SlotReadsKeep ==
  ASSUME IInv, NEW c \in Clients, getSyncStatus(c) \/ getFinalityCheckpoints(c)
  PROVE  IInv'
<1>1. /\ pc[c] \in Handlers /\ pc[c] \notin {"getValidators", "getAllValidators"}
      /\ UNCHANGED <<db, size, added>>
  BY DEF getSyncStatus, getFinalityCheckpoints, Handlers
<1>2. /\ db.currentSlot \in Nat /\ db.highestSlot \in Nat
      /\ db.currentSlot <= db.highestSlot
  BY DatabaseTypes DEF IInv
<1>3. \/ See(c, db.currentSlot) /\ (Finish(c, "ok") \/ Goto(c, pc[c]))
      \/ See(c, db.highestSlot) /\ Finish(c, "ok")
  BY DEF getSyncStatus, getFinalityCheckpoints
<1>4. CASE See(c, db.currentSlot) /\ (Finish(c, "ok") \/ Goto(c, pc[c]))
  BY <1>1, <1>2, <1>4, SlotRead
<1>5. CASE See(c, db.highestSlot) /\ Finish(c, "ok")
  BY <1>1, <1>2, <1>5, SlotRead
<1> QED BY <1>3, <1>4, <1>5

\* All validators: the slice holds every addition answered so far.
LEMMA AllValidatorsKeep ==
  ASSUME IInv, NEW c \in Clients, getAllValidators(c)
  PROVE  IInv'
<1> DEFINE all == 1 .. Len(db.validators)
           k == [call[c] EXCEPT !.found = all]
<1>1. /\ Typed /\ Placed /\ SlotsRise(c) /\ Finds(c) /\ call[c] \in Calls
      /\ pc[c] = "getAllValidators" /\ pc[c] \in Handlers
      /\ Finish(c, "ok") /\ UNCHANGED <<db, size, added>>
      /\ call' = [call EXCEPT ![c] = k]
  BY DEF IInv, Typed, getAllValidators, Handlers
<1>2. /\ k \in Calls /\ k.id = call[c].id /\ k.position = call[c].position
      /\ k.amount = call[c].amount /\ k.seen = call[c].seen /\ k.ids = call[c].ids
      /\ k.known = call[c].known /\ k.left = call[c].left
      /\ k.found = all
  <2>1. all \subseteq Nat
    BY <1>1, DatabaseTypes
  <2> HIDE DEF all
  <2> QED BY <1>1, <2>1 DEF Calls
<1> HIDE DEF k
<1>3. call'[c] = k /\ pc'[c] = "idle" /\ reply'[c] = "ok"
  BY <1>1 DEF Finish, Typed
<1>4. SlotsRise(c)'
  BY <1>1, <1>2, <1>3 DEF SlotsRise
<1>5. Finds(c)'
  <2>1. ASSUME NEW id \in k.ids \intersect k.known
        PROVE  Position(id)' \in k.found
    <3>1. id \in Ids \intersect Known
      BY <1>1, <1>2, <2>1 DEF Finds, Calls
    <3>2. Position(id) \in 1 .. Len(db.validators)
      BY <1>1, <3>1, KnownIsFound, PlacedIsFound
    <3> QED BY <1>1, <1>2, <3>2 DEF Position
  <2>2. k.known \subseteq Known'
    BY <1>1, <1>2 DEF Known, Finds
  <2> QED BY <1>1, <1>2, <1>3, <2>1, <2>2 DEF Finds
<1> QED BY <1>1, <1>2, <1>4, <1>5, ReadKeeps

\* A list of ids: one more is looked up, or none is left.
LEMMA ValidatorsKeep ==
  ASSUME IInv, NEW c \in Clients, getValidators(c)
  PROVE  IInv'
<1>1. /\ Typed /\ Placed /\ SlotsRise(c) /\ Finds(c) /\ call[c] \in Calls
      /\ pc[c] = "getValidators" /\ pc[c] \in Handlers
      /\ UNCHANGED <<db, size, added>>
  BY DEF IInv, Typed, getValidators, Handlers
<1>2. Known' = Known /\ \A id : Position(id)' = Position(id)
  BY <1>1 DEF Known, Position
<1>3. CASE call[c].left = {} /\ Finish(c, "ok") /\ call' = call
  <2>1. /\ call' = [call EXCEPT ![c] = call[c]] /\ call'[c] = call[c]
        /\ pc'[c] = "idle" /\ reply'[c] = "ok"
    BY <1>1, <1>3 DEF Finish, Typed
  <2>2. SlotsRise(c)' /\ Finds(c)'
    BY <1>1, <1>2, <1>3, <2>1 DEF SlotsRise, Finds
  <2> QED BY <1>1, <1>3, <2>1, <2>2, ReadKeeps
<1>4. ASSUME NEW id \in call[c].left,
             call' = [call EXCEPT ![c].left = @ \ {id},
                                  ![c].found = @ \union ({Position(id)} \ {0})],
             Goto(c, "getValidators")
      PROVE  IInv'
  <2> DEFINE k == [call[c] EXCEPT !.left = @ \ {id},
                                  !.found = @ \union ({Position(id)} \ {0})]
  <2>1. id \in Ids /\ call[c].ids \subseteq Ids /\ call[c].found \subseteq Nat
    BY <1>1 DEF Calls
  <2>2. Position(id) \in Nat
    BY <1>1, <2>1, PositionType, DatabaseTypes
  <2>3. call' = [call EXCEPT ![c] = k]
    BY <1>1, <1>4 DEF Typed
  <2>4. /\ k \in Calls /\ k.id = call[c].id /\ k.position = call[c].position
        /\ k.amount = call[c].amount /\ k.seen = call[c].seen /\ k.ids = call[c].ids
        /\ k.known = call[c].known /\ k.left = call[c].left \ {id}
        /\ k.found = call[c].found \union ({Position(id)} \ {0})
    BY <1>1, <2>1, <2>2 DEF Calls
  <2> HIDE DEF k
  <2>5. call'[c] = k /\ pc'[c] = pc[c] /\ reply'[c] = reply[c]
    BY <1>1, <1>4, <2>3 DEF Goto, Typed
  <2>6. SlotsRise(c)'
    BY <1>1, <2>4, <2>5 DEF SlotsRise
  <2>7. ASSUME NEW other \in (k.ids \ k.left) \intersect k.known
        PROVE  Position(other) \in k.found
    <3>1. CASE other = id
      <4>1. id \in Ids \intersect Known
        BY <1>1, <2>1, <2>4, <2>7, <3>1 DEF Finds
      <4>2. Position(id) # 0
        BY <1>1, <4>1, KnownIsFound, PlacedIsFound
      <4> QED BY <2>4, <3>1, <4>2
    <3>2. CASE other # id
      BY <1>1, <2>4, <2>7, <3>2 DEF Finds
    <3> QED BY <3>1, <3>2
  <2>8. Finds(c)'
    BY <1>1, <1>2, <2>4, <2>5, <2>7 DEF Finds
  <2> QED BY <1>1, <1>4, <2>3, <2>4, <2>6, <2>8, ReadKeeps
<1> QED BY <1>3, <1>4 DEF getValidators

-----------------------------------------------------------------------------
(* Requests and the process *)

LEMMA NoCallType ==
  /\ NoCall \in Calls
  /\ NoCall.position = 0 /\ NoCall.ids = {} /\ NoCall.left = {}
  /\ NoCall.found = {} /\ NoCall.seen = <<>> /\ NoCall.known = {}
  /\ NoCall.alone = TRUE /\ NoCall.handler = "none" /\ NoCall.amount = 0
BY UintConstants, BalanceAssumption DEF NoCall, Calls, Statuses, Uint

\* A record that has read nothing, in a step that needs nothing of it.
LEMMA NoCallKeeps ==
  ASSUME Typed, NEW d \in Clients, pc[d] = "idle"
  PROVE  /\ NoCall.position <= Len(db.validators)
         /\ pc[d] \notin {"addValidator", "getValidators", "getAllValidators"}
         /\ pc[d] \notin LookupSteps \union BalanceSteps \union ValidatorSteps
BY NoCallType, DatabaseTypes DEF LookupSteps, BalanceSteps, ValidatorSteps

\* What a request may ask for.
Asks(handler, request) ==
    /\ request \in Calls
    /\ request.position = 0 /\ request.found = {} /\ request.seen = <<>>
    /\ request.left = IF handler = "getValidators" THEN request.ids ELSE {}
    /\ handler \notin {"getValidators", "getAllValidators"} => request.ids = {}
    /\ handler = "addValidator" => request.id \in Pubkeys
    /\ handler \in LookupSteps => request.id \in Ids
    /\ handler \in BalanceSteps => request.amount \in Uint
    /\ handler = "setBalance" => request.balance = request.amount

\* The validators as they can be read.
Now == [i \in 1 .. Len(db.validators) |-> Readable(db.validators[i])]

LEMMA ReadableType ==
  ASSUME Typed, NEW v \in Validators
  PROVE  /\ StatusOf(v) \in Statuses /\ size[v.Pubkey] \in Statuses
         /\ Readable(v) \in Validators
<1>1. size[v.Pubkey] \in Statuses
  BY DEF Typed, Validators
<1>2. StatusOf(v) \in Statuses
  BY DEF StatusOf, Statuses, Validators
<1> QED BY <1>1, <1>2 DEF Readable, Validators

LEMMA NowType ==
  ASSUME Typed
  PROVE  /\ Now \in Seq(Validators) /\ Len(Now) = Len(db.validators)
         /\ \A i \in 1 .. Len(db.validators) : Now[i] = Readable(db.validators[i])
<1>1. Len(db.validators) \in Nat
  BY DatabaseTypes
<1>2. \A i \in 1 .. Len(db.validators) : Readable(db.validators[i]) \in Validators
  BY DatabaseTypes, ReadableType
<1> QED BY <1>1, <1>2 DEF Now

LEMMA AcceptKeeps ==
  ASSUME IInv, NEW c \in Clients, NEW handler \in Handlers, NEW request,
         Asks(handler, request), Accept(c, handler, request)
  PROVE  IInv'
<1> DEFINE alone == \A d \in Clients : pc[d] = "idle"
           before == IF alone THEN Now ELSE <<>>
           k == [request EXCEPT !.handler = handler, !.known = Known,
                                !.before = before, !.alone = alone]
<1>1. /\ Typed /\ Placed /\ server = "listening" /\ server' = server
      /\ UNCHANGED <<db, size, added, serving, exited>>
      /\ pc' = [pc EXCEPT ![c] = handler]
      /\ call' = [d \in Clients |-> IF d # c THEN Overlapped(d) ELSE k]
      /\ reply' = [d \in Clients |-> "none"]
  BY DEF IInv, Accept, process, Now
<1>2. Known \subseteq Pubkeys \union Nat /\ Known' = Known
  <2>1. \A a \in added : a[1] \in Pubkeys /\ a[2] \in Nat
    BY <1>1 DEF Typed
  <2> QED BY <1>1, <2>1 DEF Known
<1>3. before \in Seq(Validators) /\ alone \in BOOLEAN
  <2>1. <<>> \in Seq(Validators)
    OBVIOUS
  <2>2. Now \in Seq(Validators)
    BY <1>1, NowType
  <2>3. alone \in BOOLEAN
    OBVIOUS
  <2> HIDE DEF alone
  <2> QED BY <2>1, <2>2, <2>3
<1> HIDE DEF before, alone
<1>4. /\ k \in Calls /\ k.known = Known
      /\ k.position = 0 /\ k.found = {} /\ k.seen = <<>>
      /\ k.left = request.left /\ k.ids = request.ids /\ k.id = request.id
      /\ k.amount = request.amount
  BY <1>2, <1>3 DEF Asks, Calls
<1>5. \A d \in Clients : call[d] \in Calls /\ Overlapped(d) \in Calls
  <2>1. ASSUME NEW d \in Clients
        PROVE  call[d] \in Calls /\ [call[d] EXCEPT !.alone = FALSE, !.before = <<>>] \in Calls
    <3>1. call[d] \in Calls
      BY <1>1 DEF Typed
    <3> DEFINE none == <<>>
    <3>2. none \in Seq(Validators)
      OBVIOUS
    <3> HIDE DEF none
    <3>3. [call[d] EXCEPT !.alone = FALSE, !.before = none] \in Calls
      BY <3>1, <3>2 DEF Calls
    <3> QED BY <3>1, <3>3 DEF none
  <2> QED BY <2>1, NoCallType DEF Overlapped
<1> HIDE DEF k
<1>6. Typed'
  <2>1. call' \in [Clients -> Calls]
    BY <1>1, <1>4, <1>5
  <2>2. pc' \in [Clients -> Steps]
    BY <1>1 DEF Typed, Steps
  <2>3. reply' \in [Clients -> {"none", "ok", "error", "aborted"}]
    BY <1>1
  <2> QED BY <1>1, <2>1, <2>2, <2>3 DEF Typed
<1>7. Placed' /\ Quiet'
  BY <1>1, <1>6 DEF Placed, Quiet
<1>8. WellFormed(c)' /\ SlotsRise(c)' /\ Finds(c)'
  <2>1. pc'[c] = handler /\ call'[c] = k /\ reply'[c] = "none" /\ db' = db
    BY <1>1 DEF Typed
  <2>2. handler \notin ValidatorSteps /\ 0 <= Len(db.validators)
    BY <1>1, DatabaseTypes DEF Handlers, ValidatorSteps
  <2>3. WellFormed(c)'
    BY <1>4, <2>1, <2>2 DEF WellFormed, Asks
  <2>4. SlotsRise(c)'
    BY <1>4, <2>1 DEF SlotsRise
  <2>5. Finds(c)'
    BY <1>2, <1>4, <2>1 DEF Finds, Asks
  <2> QED BY <2>3, <2>4, <2>5
<1>9. ASSUME NEW d \in Clients \ {c}
      PROVE  WellFormed(d)' /\ SlotsRise(d)' /\ Finds(d)'
  <2>1. /\ pc'[d] = pc[d] /\ call'[d] = Overlapped(d) /\ reply'[d] = "none" /\ db' = db
        /\ \A id : Position(id)' = Position(id)
    BY <1>1 DEF Typed, Position
  <2>2. WellFormed(d) /\ SlotsRise(d) /\ Finds(d)
    BY DEF IInv
  <2>3. CASE pc[d] = "idle"
    <3>1. call'[d] = NoCall
      BY <2>1, <2>3 DEF Overlapped
    <3> QED BY <1>1, <2>1, <2>3, <3>1, NoCallKeeps, NoCallType
            DEF WellFormed, SlotsRise, Finds
  <2>4. CASE pc[d] # "idle"
    <3>1. /\ call'[d].id = call[d].id /\ call'[d].amount = call[d].amount
          /\ call'[d].position = call[d].position /\ call'[d].seen = call[d].seen
          /\ call'[d].ids = call[d].ids /\ call'[d].left = call[d].left
          /\ call'[d].found = call[d].found /\ call'[d].known = call[d].known
      BY <1>5, <2>1, <2>4, ZenonT(40) DEF Overlapped, Calls
    <3>2. WellFormed(d)' /\ SlotsRise(d)'
      BY <2>1, <2>2, <3>1 DEF WellFormed, SlotsRise
    <3>3. Finds(d)'
      BY <1>2, <2>1, <2>2, <3>1 DEF Finds
    <3> QED BY <3>2, <3>3
  <2> QED BY <2>3, <2>4
<1> QED BY <1>6, <1>7, <1>8, <1>9 DEF IInv

LEMMA RequestAsks ==
  ASSUME NEW c \in Clients, Request(c)
  PROVE  \E handler \in Handlers : \E request :
            Asks(handler, request) /\ Accept(c, handler, request)
<1> USE NoCallType DEF Calls
<1>1. CASE \E pubkey \in Pubkeys :
              Accept(c, "addValidator", [NoCall EXCEPT !.id = pubkey])
  <2>1. \A pubkey \in Pubkeys : Asks("addValidator", [NoCall EXCEPT !.id = pubkey])
    BY DEF Asks, LookupSteps, BalanceSteps, Ids
  <2> QED BY <1>1, <2>1 DEF Handlers
<1>2. CASE \E validated \in {0, 1} :
              Accept(c, "commitBlock", [NoCall EXCEPT !.amount = validated])
  <2>1. \A validated \in {0, 1} : Asks("commitBlock", [NoCall EXCEPT !.amount = validated])
    BY DEF Asks, LookupSteps, BalanceSteps
  <2> QED BY <1>2, <2>1 DEF Handlers
<1>3. CASE \E slot \in HeadSlots :
              Accept(c, "setHighestSlot", [NoCall EXCEPT !.amount = slot])
  <2>1. \A slot \in HeadSlots : Asks("setHighestSlot", [NoCall EXCEPT !.amount = slot])
    BY RequestAssumption DEF Asks, LookupSteps, BalanceSteps
  <2> QED BY <1>3, <2>1 DEF Handlers
<1>4. CASE \E id \in Ids, balance \in Balances :
              Accept(c, "setBalance", [NoCall EXCEPT !.id = id, !.amount = balance,
                                                     !.balance = balance])
  <2>1. \A id \in Ids, balance \in Balances :
           Asks("setBalance", [NoCall EXCEPT !.id = id, !.amount = balance,
                                             !.balance = balance])
    BY RequestAssumption, UintConstants, ZenonT(40) DEF Asks, LookupSteps, BalanceSteps
  <2> QED BY <1>4, <2>1 DEF Handlers
<1>5. CASE \E id \in Ids, status \in NewStatuses :
              Accept(c, "setStatus", [NoCall EXCEPT !.id = id, !.status = status])
  <2>1. \A id \in Ids, status \in NewStatuses :
           Asks("setStatus", [NoCall EXCEPT !.id = id, !.status = status])
    BY RequestAssumption DEF Asks, LookupSteps, BalanceSteps
  <2> QED BY <1>5, <2>1 DEF Handlers
<1>6. CASE \E id \in Ids, penalty \in Penalties :
              Accept(c, "slash", [NoCall EXCEPT !.id = id, !.amount = penalty])
  <2>1. \A id \in Ids, penalty \in Penalties :
           Asks("slash", [NoCall EXCEPT !.id = id, !.amount = penalty])
    BY RequestAssumption, UintConstants DEF Asks, LookupSteps, BalanceSteps
  <2> QED BY <1>6, <2>1 DEF Handlers
<1>7. CASE \E id \in Ids : Accept(c, "getValidator", [NoCall EXCEPT !.id = id])
  <2>1. \A id \in Ids : Asks("getValidator", [NoCall EXCEPT !.id = id])
    BY DEF Asks, LookupSteps, BalanceSteps
  <2> QED BY <1>7, <2>1 DEF Handlers
<1>8. CASE \E ids \in IdLists :
              Accept(c, "getValidators", [NoCall EXCEPT !.ids = ids, !.left = ids])
  <2>1. \A ids \in IdLists : Asks("getValidators", [NoCall EXCEPT !.ids = ids, !.left = ids])
    BY DEF IdLists, Asks, LookupSteps, BalanceSteps
  <2> QED BY <1>8, <2>1 DEF Handlers
<1>9. CASE Accept(c, "getAllValidators", [NoCall EXCEPT !.ids = Ids])
  <2>1. Asks("getAllValidators", [NoCall EXCEPT !.ids = Ids])
    BY DEF Asks, LookupSteps, BalanceSteps
  <2> QED BY <1>9, <2>1 DEF Handlers
<1>10. CASE \E handler \in {"getSyncStatus", "getFinalityCheckpoints", "getConfig"} :
               Accept(c, handler, NoCall)
  <2>1. \A handler \in {"getSyncStatus", "getFinalityCheckpoints", "getConfig"} :
           Asks(handler, NoCall)
    BY DEF Asks, LookupSteps, BalanceSteps
  <2> QED BY <1>10, <2>1 DEF Handlers
<1> QED BY <1>1, <1>2, <1>3, <1>4, <1>5, <1>6, <1>7, <1>8, <1>9, <1>10 DEF Request

LEMMA RequestKeeps ==
  ASSUME IInv, NEW c \in Clients, Request(c)
  PROVE  IInv'
BY RequestAsks, AcceptKeeps

LEMMA RejectKeeps ==
  ASSUME IInv, NEW c \in Clients, Reject(c)
  PROVE  IInv'
<1>1. /\ Typed /\ Placed /\ Quiet /\ pc[c] = "idle"
      /\ UNCHANGED <<db, size, pc, added, process>>
      /\ call' = [call EXCEPT ![c] = NoCall] /\ reply' = [reply EXCEPT ![c] = "error"]
  BY DEF IInv, Reject
<1>2. Typed'
  BY <1>1, NoCallType DEF Typed, process
<1>3. Placed' /\ Quiet'
  BY <1>1 DEF Placed, Quiet, process
<1>4. ASSUME NEW d \in Clients
      PROVE  WellFormed(d)' /\ SlotsRise(d)' /\ Finds(d)'
  <2>1. CASE d = c
    <3>1. pc'[c] = "idle" /\ call'[c] = NoCall /\ reply'[c] = "error" /\ db' = db
      BY <1>1 DEF Typed
    <3> QED BY <1>1, <2>1, <3>1, NoCallKeeps, NoCallType DEF WellFormed, SlotsRise, Finds
  <2>2. CASE d # c
    <3>1. pc'[d] = pc[d] /\ call'[d] = call[d] /\ reply'[d] = reply[d]
      BY <1>1, <2>2 DEF Typed
    <3> QED BY <1>1, <1>2, <1>3, <3>1, SameGrows, UndisturbedKeeps
  <2> QED BY <2>1, <2>2
<1> QED BY <1>2, <1>3, <1>4 DEF IInv

\* The process starts and stops serving without touching a handler; it stops
\* only when none is running.
ProcessStep == Start \/ Stop \/ ServeReturns \/ ServeFails \/ StopReturns \/ MainReturns

LEMMA ProcessCases ==
  ASSUME ProcessStep
  PROVE  UNCHANGED <<db, size, added>> /\ (UNCHANGED handlers \/ Exit)
BY DEF ProcessStep, Start, Stop, ServeReturns, ServeFails, StopReturns, MainReturns

LEMMA ProcessKeeps ==
  ASSUME IInv, ProcessStep
  PROVE  IInv'
<1>1. Typed /\ Placed /\ Quiet /\ UNCHANGED <<db, size, added>>
  BY ProcessCases DEF IInv
<1>2. server' \in {"new", "listening", "closing", "stopped"}
      /\ serving' \in BOOLEAN /\ exited' \in BOOLEAN
  BY <1>1 DEF Typed, ProcessStep, Start, Stop, ServeReturns, ServeFails, StopReturns,
     MainReturns, Exit
<1>3. Placed'
  BY <1>1 DEF Placed
<1>4. CASE UNCHANGED handlers
  <2>1. UNCHANGED <<pc, call, reply>>
    BY <1>4 DEF handlers
  <2>2. Typed'
    BY <1>1, <1>2, <2>1 DEF Typed
  <2>3. Quiet'
    BY <1>1, <2>1 DEF Quiet, ProcessStep, Start, Stop, ServeReturns, ServeFails,
       StopReturns, MainReturns, Exit
  <2>4. \A d \in Clients : WellFormed(d)' /\ SlotsRise(d)' /\ Finds(d)'
    BY <1>1, <1>3, <2>1, <2>2, SameGrows, UndisturbedKeeps
  <2> QED BY <1>3, <2>2, <2>3, <2>4 DEF IInv
<1>5. CASE Exit
  <2>1. \A d \in Clients : pc'[d] = "idle" /\ call'[d] = NoCall /\ reply'[d] = "none"
    BY <1>5 DEF Exit
  <2>2. Typed'
    BY <1>1, <1>2, <1>5, NoCallType DEF Typed, Exit, Steps
  <2>3. Quiet'
    BY <2>1 DEF Quiet
  <2>4. \A d \in Clients : WellFormed(d)' /\ SlotsRise(d)' /\ Finds(d)'
    BY <1>1, <2>1, NoCallType, DatabaseTypes
       DEF WellFormed, SlotsRise, Finds, LookupSteps, BalanceSteps, ValidatorSteps
  <2> QED BY <1>3, <2>2, <2>3, <2>4 DEF IInv
<1> QED BY <1>4, <1>5, ProcessCases

-----------------------------------------------------------------------------
(* The invariant holds *)

LEMMA InitKeeps == Init => IInv
<1> SUFFICES ASSUME Init PROVE IInv
  OBVIOUS
<1>1. Consistent(db) /\ db.currentSlot <= db.highestSlot /\ 0 <= Len(db.validators)
  BY NewGood DEF Init, Good, Consistent, NewDatabase
<1>2. Typed
  BY <1>1, NoCallType DEF Init, Typed, Steps, Statuses
<1>3. Placed /\ Quiet
  BY DEF Init, Placed, Quiet
<1>4. ASSUME NEW c \in Clients PROVE WellFormed(c) /\ SlotsRise(c) /\ Finds(c)
  <2>1. pc[c] = "idle" /\ call[c] = NoCall /\ reply[c] = "none"
    BY DEF Init
  <2> QED BY <1>2, <2>1, NoCallKeeps, NoCallType DEF WellFormed, SlotsRise, Finds
<1> QED BY <1>2, <1>3, <1>4 DEF IInv

LEMMA HandleKeeps ==
  ASSUME IInv, NEW c \in Clients, Handle(c)
  PROVE  IInv'
<1>1. CASE addValidator(c)
  BY <1>1, AddValidatorKeeps
<1>2. CASE commitBlock(c) \/ setHighestSlot(c) \/ getConfig(c) \/ getMeta(c)
  BY <1>2, MethodKeeps
<1>3. CASE getSyncStatus(c) \/ getFinalityCheckpoints(c)
  BY <1>3, SlotReadsKeep
<1>4. CASE getAllValidators(c)
  BY <1>4, AllValidatorsKeep
<1>5. CASE getValidators(c)
  BY <1>5, ValidatorsKeep
<1>6. CASE getValidator(c)
  BY <1>6, FindKeeps DEF getValidator, LookupSteps, ValidatorSteps, BalanceSteps
<1>7. CASE setBalance(c)
  BY <1>7, FindKeeps DEF setBalance, LookupSteps, ValidatorSteps, BalanceSteps
<1>8. CASE setStatus(c)
  BY <1>8, FindKeeps DEF setStatus, LookupSteps, ValidatorSteps, BalanceSteps
<1>9. CASE slash(c)
  BY <1>9, FindKeeps DEF slash, LookupSteps, ValidatorSteps, BalanceSteps
<1>10. CASE SetBalance(c) \/ Lower(c) \/ Raise(c)
  BY <1>10, SetBalanceKeeps, LowerKeeps, RaiseKeeps
<1>11. CASE \/ LowerTest(c) \/ LowerLoad(c) \/ RaiseTest(c) \/ RaiseLoad(c)
            \/ SetStatus(c) \/ Slash(c) \/ SlashExiting(c) \/ Charge(c)
  BY <1>11, LoadKeeps
<1>12. CASE StatusText(c) \/ Mark(c)
  BY <1>12, StatusTextKeeps, MarkKeeps
<1> QED BY <1>1, <1>2, <1>3, <1>4, <1>5, <1>6, <1>7, <1>8, <1>9, <1>10, <1>11,
           <1>12 DEF Handle

LEMMA NextKeeps == IInv /\ [Next]_vars => IInv'
<1> SUFFICES ASSUME IInv, [Next]_vars PROVE IInv'
  OBVIOUS
<1>1. CASE \E c \in Clients : Request(c) \/ Reject(c) \/ Handle(c)
  BY <1>1, RequestKeeps, RejectKeeps, HandleKeeps
<1>2. CASE ProcessStep
  BY <1>2, ProcessKeeps
<1>3. CASE UNCHANGED vars
  <2>1. /\ Typed /\ Placed /\ UNCHANGED <<db, size, pc, call, reply, added>>
        /\ UNCHANGED <<server, serving, exited>>
    BY <1>3 DEF IInv, vars, handlers, process
  <2>2. Typed' /\ Placed' /\ Quiet'
    BY <2>1 DEF IInv, Typed, Placed, Quiet
  <2>3. \A d \in Clients : WellFormed(d)' /\ SlotsRise(d)' /\ Finds(d)'
    BY <2>1, <2>2, SameGrows, UndisturbedKeeps
  <2> QED BY <2>2, <2>3 DEF IInv
<1> QED BY <1>1, <1>2, <1>3 DEF Next, ProcessStep

\* Between any two steps of any handlers, each finds what it relies on.
THEOREM Invariance == Spec => []IInv
BY InitKeeps, NextKeeps, PTL DEF Spec

\* Every response to getSyncStatus is a distance: the highest slot, read last,
\* is not below the current slot, read first.
THEOREM SyncDistanceCorrect == Spec => []SyncDistanceNeverWraps
<1>1. IInv => SyncDistanceNeverWraps
  BY DEF IInv, SyncDistanceNeverWraps, SlotsRise
<1> QED BY <1>1, Invariance, PTL

\* In every response to getFinalityCheckpoints the finalized epoch, from the
\* slot read first, is not ahead of the justified ones.
THEOREM FinalityCorrect == Spec => []FinalizedNotAhead
<1>1. IInv => FinalizedNotAhead
  BY DEF IInv, FinalizedNotAhead, SlotsRise
<1> QED BY <1>1, Invariance, PTL

\* However additions overlap, no pubkey and no index is answered twice, and an
\* answered index finds its pubkey ever after.
THEOREM IndicesCorrect == Spec => []IndicesStand
<1>1. ASSUME IInv PROVE IndicesStand
  <2>1. Typed /\ Placed
    BY <1>1 DEF IInv
  <2>2. \A a \in added : /\ a[1] \in Pubkeys /\ a[2] \in Nat
                         /\ PositionByPubkey(db, a[1]) = a[2] + 1
                         /\ PositionByIndex(db, a[2]) = a[2] + 1
                         /\ db.validators[a[2] + 1].Pubkey = a[1]
    BY <2>1, PlacedIsFound DEF Placed
  <2>3. ASSUME NEW a \in added, NEW b \in added PROVE a[1] = b[1] <=> a[2] = b[2]
    <3>1. a[2] + 1 = b[2] + 1 => a[2] = b[2]
      BY <2>2
    <3> QED BY <2>2, <3>1
  <2> QED BY <2>2, <2>3 DEF IndicesStand
<1> QED BY <1>1, Invariance, PTL

\* A validator whose addition was answered before a request arrived is in the
\* lists it asks for, and asking for it alone never fails.
THEOREM AddedCorrect == Spec => []AddedIsFound
<1>1. IInv => AddedIsFound
  BY DEF IInv, AddedIsFound, Answered, Finds
<1> QED BY <1>1, Invariance, PTL

\* Every variable, and every request at every step of its handler, has its type.
THEOREM TypeCorrect == Spec => []TypeOK
<1>1. ASSUME IInv PROVE TypeOK
  <2>1. ASSUME NEW c \in Clients
        PROVE  /\ DOMAIN call[c] = DOMAIN NoCall
               /\ call[c].position \in 0 .. Len(db.validators)
               /\ pc[c] \in ValidatorSteps => call[c].position # 0
               /\ call[c].amount \in Nat
               /\ call[c].balance \in Uint
               /\ call[c].loaded \in Uint
               /\ call[c].seen \in Seq(Nat)
    <3>1. Typed /\ WellFormed(c) /\ call[c] \in Calls
      BY <1>1 DEF IInv, Typed
    <3>2. DOMAIN call[c] = DOMAIN NoCall
      BY <3>1, NoCallType DEF Calls
    <3>3. call[c].position \in Nat /\ call[c].position <= Len(db.validators)
      BY <3>1 DEF WellFormed, Calls
    <3> QED BY <3>1, <3>2, <3>3, DatabaseTypes DEF WellFormed, Calls
  <2>2. Typed /\ db \in Databases
    BY <1>1, DatabaseTypes DEF IInv
  <2> QED BY <2>1, <2>2 DEF TypeOK, Typed, Steps
<1> QED BY <1>1, Invariance, PTL

\* After Stop has returned nil no step of a handler is left to touch the
\* database.
THEOREM NothingAfterStopCorrect == Spec => NothingAfterStop
<1>1. ASSUME IInv, Next, server = "stopped" PROVE UNCHANGED <<db, size>>
  <2>1. \A c \in Clients : pc[c] = "idle"
    BY <1>1 DEF IInv, Quiet
  <2>2. ASSUME NEW c \in Clients PROVE ~Handle(c) /\ ~Request(c) /\ ~Reject(c)
    <3>1. pc[c] = "idle"
      BY <2>1
    <3>2. ~Handle(c)
      BY <3>1 DEF Handle, addValidator, commitBlock, setHighestSlot, getConfig,
              getSyncStatus, getFinalityCheckpoints, getAllValidators, getValidators,
              getValidator, setBalance, setStatus, slash, Find, getMeta, SetBalance,
              LowerTest, LowerLoad, Lower, RaiseTest, RaiseLoad, Raise, LoadEffective,
              SetStatus, StatusText, Slash, SlashExiting, Mark, Charge
    <3>3. ~Request(c) /\ ~Reject(c)
      BY <1>1 DEF Request, Reject, Accept
    <3> QED BY <3>2, <3>3
  <2> QED BY <1>1, <2>2, ProcessCases DEF Next, ProcessStep
<1>2. IInv /\ [Next]_vars => [server = "stopped" => UNCHANGED <<db, size>>]_vars
  BY <1>1
<1> QED BY <1>2, Invariance, PTL DEF Spec, NothingAfterStop

-----------------------------------------------------------------------------
(* A request that runs alone *)

\* The validator a request goes on with: as it can be read now, and as it
\* could be read when the request arrived.
View(c) == Readable(Validator(c))
Before(c) == call[c].before[call[c].position]

\* What is left of it when Slash has marked it, what SetBalance is called
\* with, and what SetBalance makes of it.
Base(c) == IF call[c].handler = "slash" THEN [Before(c) EXCEPT !.Slashed = TRUE]
           ELSE Before(c)
Pay(c) == IF call[c].handler = "slash" THEN USub(Before(c).Balance, call[c].amount)
          ELSE call[c].amount
Paid(c) == [Base(c) EXCEPT !.Balance = Pay(c)]
LoweredBy(effective, balance) ==
    IF balance < USub(effective, DownMargin) THEN USub(effective, 1) ELSE effective
Lowered(c) == LoweredBy(Before(c).EffectiveBalance, Pay(c))
PaidAndLowered(c) == [Paid(c) EXCEPT !.EffectiveBalance = Lowered(c)]
Settled(c) == IF call[c].handler = "slash" THEN WithBalance(Base(c), Pay(c))
              ELSE Before(c)

\* The steps of SetBalance.
PaySteps == {"SetBalance", "lowerTest", "lowerLoad", "lower", "raiseTest",
             "raiseLoad", "raise"}

\* Which handler is at a step of a *Validator.
Belongs(c) ==
    LET h == call[c].handler
    IN  /\ pc[c] \in Handlers => call[c].position = 0 /\ h = pc[c]
        /\ pc[c] = "GetValidatorMeta" => h = "getValidator"
        /\ pc[c] \in PaySteps => h \in {"setBalance", "slash"}
        /\ pc[c] \in {"SetStatus", "statusText"} => h \in {"setStatus", "slash"}
        /\ pc[c] \in {"Slash", "exitingTest", "mark", "charge"} => h = "slash"

\* What a request that runs alone has made of its validator at each step.
Progress(c) ==
    LET k == call[c]
    IN  /\ pc[c] \in Handlers => k.before = Now
        /\ pc[c] = "setBalance" => k.balance = k.amount
        /\ pc[c] \in ValidatorSteps => Len(k.before) = Len(db.validators)
        /\ pc[c] \in {"GetValidatorMeta", "Slash", "exitingTest", "mark"}
              => View(c) = Before(c)
        /\ pc[c] \in {"SetBalance", "charge"} => View(c) = Base(c)
        /\ pc[c] \in PaySteps => k.balance = Pay(c)
        /\ pc[c] \in {"lowerTest", "lowerLoad", "lower"} => View(c) = Paid(c)
        /\ pc[c] \in {"lowerLoad", "lower"}
              => Pay(c) < USub(Before(c).EffectiveBalance, DownMargin)
        /\ pc[c] = "lower" => k.loaded = Before(c).EffectiveBalance
        /\ pc[c] \in {"raiseTest", "raiseLoad", "raise"} => View(c) = PaidAndLowered(c)
        /\ pc[c] \in {"raiseLoad", "raise"} => Pay(c) > UAdd(Lowered(c), UpMargin)
        /\ pc[c] = "raise" => k.loaded = Lowered(c)
        /\ pc[c] = "SetStatus" => View(c) = Settled(c)
        /\ pc[c] = "statusText" =>
              /\ size[Validator(c).Pubkey] = NewStatus(c)
              /\ [View(c) EXCEPT !.Status = NewStatus(c)]
                    = [Settled(c) EXCEPT !.Status = NewStatus(c)]
        /\ pc[c] = "exitingTest" => Before(c).Status # "active_ongoing"
        /\ k.handler = "slash" /\ pc[c] \in ValidatorSteps \ {"Slash", "exitingTest"}
              => Slashable(Before(c))

Solo(c) == call[c].alone /\ (pc[c] # "idle" \/ call[c].position # 0)

SoloInv ==
    /\ AloneIsSequential
    /\ \A c \in Clients :
        /\ Belongs(c)
        /\ Solo(c) => /\ \A d \in Clients : d # c => pc[d] = "idle"
                      /\ Progress(c)

-----------------------------------------------------------------------------
(* What can be read of a validator *)

\* A store of any field but the status shows in what can be read, and nothing
\* else does.
LEMMA ReadableWrites ==
  ASSUME Typed, NEW v \in Validators
  PROVE  /\ \A x \in Uint : Readable([v EXCEPT !.Balance = x])
                               = [Readable(v) EXCEPT !.Balance = x]
         /\ \A x \in Uint : Readable([v EXCEPT !.EffectiveBalance = x])
                               = [Readable(v) EXCEPT !.EffectiveBalance = x]
         /\ Readable([v EXCEPT !.Slashed = TRUE]) = [Readable(v) EXCEPT !.Slashed = TRUE]
<1>1. StatusOf(v) \in Statuses
  BY ReadableType
<1>2. ASSUME NEW w \in Validators, w.Status = v.Status, w.Pubkey = v.Pubkey
      PROVE  Readable(w) = [w EXCEPT !.Status = StatusOf(v)]
  BY <1>2 DEF Readable, StatusOf
<1>3. ASSUME NEW x \in Uint PROVE Readable([v EXCEPT !.Balance = x])
                                     = [Readable(v) EXCEPT !.Balance = x]
  <2> DEFINE w == [v EXCEPT !.Balance = x]
  <2>1. w \in Validators /\ w.Status = v.Status /\ w.Pubkey = v.Pubkey
    BY <1>3 DEF Validators
  <2>2. Readable(w) = [w EXCEPT !.Status = StatusOf(v)]
    BY <1>2, <2>1
  <2> QED BY <1>1, <2>2 DEF Readable, Validators
<1>4. ASSUME NEW x \in Uint PROVE Readable([v EXCEPT !.EffectiveBalance = x])
                                     = [Readable(v) EXCEPT !.EffectiveBalance = x]
  <2> DEFINE w == [v EXCEPT !.EffectiveBalance = x]
  <2>1. w \in Validators /\ w.Status = v.Status /\ w.Pubkey = v.Pubkey
    BY <1>4 DEF Validators
  <2>2. Readable(w) = [w EXCEPT !.Status = StatusOf(v)]
    BY <1>2, <2>1
  <2> QED BY <1>1, <2>2 DEF Readable, Validators
<1>5. Readable([v EXCEPT !.Slashed = TRUE]) = [Readable(v) EXCEPT !.Slashed = TRUE]
  <2> DEFINE w == [v EXCEPT !.Slashed = TRUE]
  <2>1. w \in Validators /\ w.Status = v.Status /\ w.Pubkey = v.Pubkey
    BY DEF Validators
  <2>2. Readable(w) = [w EXCEPT !.Status = StatusOf(v)]
    BY <1>2, <2>1
  <2> QED BY <1>1, <2>2 DEF Readable, Validators
<1> QED BY <1>3, <1>4, <1>5

LEMMA ReadableFields ==
  ASSUME Typed, NEW v \in Validators
  PROVE  /\ Readable(v).EffectiveBalance = v.EffectiveBalance
         /\ Readable(v).Balance = v.Balance /\ Readable(v).Status = StatusOf(v)
BY ReadableType DEF Readable, Validators

\* A status whose length and text are both stored is the one that is read.
LEMMA ReadableStatus ==
  ASSUME Typed, NEW v \in Validators, NEW status \in Statuses,
         size[v.Pubkey] = status
  PROVE  Readable([v EXCEPT !.Status = status]) = [Readable(v) EXCEPT !.Status = status]
<1> DEFINE w == [v EXCEPT !.Status = status]
<1>1. w \in Validators /\ w.Status = status /\ size[w.Pubkey] = status
  BY DEF Validators
<1>2. StatusOf(w) = status
  BY <1>1 DEF StatusOf, SameSize
<1>3. Readable(w) = [w EXCEPT !.Status = status]
  BY <1>2 DEF Readable
<1> QED BY <1>3, ReadableType DEF Readable, Validators

\* Marking first and paying then is paying first and marking then.
LEMMA SlashInSteps ==
  ASSUME NEW b \in Validators, NEW amount
  PROVE  [WithBalance([b EXCEPT !.Slashed = TRUE], USub(b.Balance, amount))
            EXCEPT !.Status = "active_slashed"]
         = Slashed(b, amount)
<1> DEFINE left == USub(b.Balance, amount)
           effective == EffectiveAfter(b.EffectiveBalance, left)
<1>1. [b EXCEPT !.Slashed = TRUE].EffectiveBalance = b.EffectiveBalance
  BY DEF Validators
<1>2. Slashed(b, amount) = [WithBalance(b, left) EXCEPT !.Slashed = TRUE,
                                                        !.Status = "active_slashed"]
  BY DEF Slashed
<1> HIDE DEF left
<1>3. /\ WithBalance(b, left) =
            [b EXCEPT !.Balance = left, !.EffectiveBalance = effective]
      /\ WithBalance([b EXCEPT !.Slashed = TRUE], left) =
            [[b EXCEPT !.Slashed = TRUE] EXCEPT !.Balance = left,
                                                !.EffectiveBalance = effective]
  BY <1>1 DEF WithBalance, Validators
<1> HIDE DEF effective
<1>4. [[[b EXCEPT !.Slashed = TRUE] EXCEPT !.Balance = left,
                                           !.EffectiveBalance = effective]
          EXCEPT !.Status = "active_slashed"]
      = [[b EXCEPT !.Balance = left, !.EffectiveBalance = effective]
            EXCEPT !.Slashed = TRUE, !.Status = "active_slashed"]
  BY DEF Validators
<1> QED BY <1>2, <1>3, <1>4 DEF left

\* What the steps of a *Validator start from.
LEMMA AloneFacts ==
  ASSUME IInv, SoloInv, NEW c \in Clients, pc[c] \in ValidatorSteps
  PROVE  /\ Typed /\ WellFormed(c) /\ Belongs(c)
         /\ call[c] \in Calls /\ call \in [Clients -> Calls] /\ pc \in [Clients -> Steps]
         /\ reply \in [Clients -> {"none", "ok", "error", "aborted"}]
         /\ call[c].position \in 1 .. Len(db.validators)
         /\ Validator(c) \in Validators /\ View(c) \in Validators
         /\ View(c).EffectiveBalance = Validator(c).EffectiveBalance
         /\ View(c).Balance = Validator(c).Balance
         /\ View(c).Status = StatusOf(Validator(c))
         /\ call[c].balance \in Uint /\ call[c].loaded \in Uint
         /\ pc[c] \in BalanceSteps => call[c].amount \in Uint
         /\ call[c].alone => /\ Progress(c)
                             /\ Len(call[c].before) = Len(db.validators)
                             /\ Before(c) \in Validators /\ Base(c) \in Validators
                             /\ Base(c).EffectiveBalance = Before(c).EffectiveBalance
                             /\ pc[c] \in BalanceSteps => Pay(c) \in Uint
<1>1. pc[c] # "idle"
  BY DEF ValidatorSteps
<1>2. call[c].alone => Progress(c)
  BY <1>1 DEF SoloInv, Solo
<1>3. /\ Typed /\ WellFormed(c) /\ Belongs(c) /\ call[c] \in Calls
      /\ call \in [Clients -> Calls] /\ pc \in [Clients -> Steps]
      /\ reply \in [Clients -> {"none", "ok", "error", "aborted"}]
  BY DEF IInv, SoloInv, Typed
<1>4. /\ Validator(c) \in Validators /\ View(c) \in Validators
      /\ View(c).EffectiveBalance = Validator(c).EffectiveBalance
      /\ View(c).Balance = Validator(c).Balance
      /\ View(c).Status = StatusOf(Validator(c))
  BY <1>3, ValidatorType, ReadableType, ReadableFields DEF View
<1>5. ASSUME call[c].alone
      PROVE  /\ Len(call[c].before) = Len(db.validators)
             /\ Before(c) \in Validators /\ Base(c) \in Validators
             /\ Base(c).EffectiveBalance = Before(c).EffectiveBalance
             /\ pc[c] \in BalanceSteps => Pay(c) \in Uint
  <2>1. Len(call[c].before) = Len(db.validators)
    BY <1>2, <1>5 DEF Progress
  <2>2. call[c].position \in 1 .. Len(call[c].before) /\ call[c].before \in Seq(Validators)
    BY <1>3, <2>1, ValidatorType DEF Calls
  <2>3. Before(c) \in Validators
    BY <2>2 DEF Before
  <2>4. Base(c) \in Validators /\ Base(c).EffectiveBalance = Before(c).EffectiveBalance
    BY <2>3 DEF Base, Validators
  <2>5. pc[c] \in BalanceSteps => Pay(c) \in Uint
    <3>1. Before(c).Balance \in Uint
      BY <2>3 DEF Validators
    <3> QED BY <3>1, ValidatorType, UintArithmetic DEF Pay
  <2> QED BY <2>1, <2>3, <2>4, <2>5
<1> QED BY <1>2, <1>3, <1>4, <1>5, ValidatorType

\* A step that leaves the rest of the record as it is leaves what was before
\* and what is to be.
LEMMA SameRecord ==
  ASSUME NEW c,
         call'[c].position = call[c].position, call'[c].handler = call[c].handler,
         call'[c].before = call[c].before, call'[c].amount = call[c].amount,
         call'[c].status = call[c].status
  PROVE  /\ Before(c)' = Before(c) /\ Base(c)' = Base(c) /\ Pay(c)' = Pay(c)
         /\ Paid(c)' = Paid(c) /\ Lowered(c)' = Lowered(c)
         /\ PaidAndLowered(c)' = PaidAndLowered(c) /\ Settled(c)' = Settled(c)
         /\ NewStatus(c)' = NewStatus(c)
         /\ UNCHANGED <<db, size>> =>
               View(c)' = View(c) /\ Validator(c)' = Validator(c)
<1>1. Before(c)' = Before(c) /\ NewStatus(c)' = NewStatus(c)
  BY DEF Before, NewStatus
<1>2. Base(c)' = Base(c) /\ Pay(c)' = Pay(c)
  BY <1>1 DEF Base, Pay
<1>3. Paid(c)' = Paid(c) /\ Lowered(c)' = Lowered(c)
  BY <1>1, <1>2 DEF Paid, Lowered
<1>4. PaidAndLowered(c)' = PaidAndLowered(c) /\ Settled(c)' = Settled(c)
  BY <1>1, <1>2, <1>3 DEF PaidAndLowered, Settled
<1>5. UNCHANGED <<db, size>> => View(c)' = View(c) /\ Validator(c)' = Validator(c)
  BY DEF View, Validator, Readable, StatusOf
<1> QED BY <1>1, <1>2, <1>3, <1>4, <1>5

\* A step that writes its handler's variables and no more of the record.
Keeps(c) ==
    /\ call'[c].position = call[c].position /\ call'[c].handler = call[c].handler
    /\ call'[c].before = call[c].before /\ call'[c].alone = call[c].alone
    /\ call'[c].amount = call[c].amount /\ call'[c].status = call[c].status

\* A store shows in what can be read.
LEMMA StoreShows ==
  ASSUME IInv, NEW c \in Clients, pc[c] \in ValidatorSteps,
         NEW w \in Validators, Store(c, w),
         w.Pubkey = Validator(c).Pubkey, w.Index = Validator(c).Index,
         size' = size, call'[c].position = call[c].position
  PROVE  /\ View(c)' = Readable(w) /\ Validator(c)' = w
         /\ Len(db'.validators) = Len(db.validators)
<1>1. Typed /\ WellFormed(c)
  BY DEF IInv
<1>2. /\ Len(db'.validators) = Len(db.validators)
      /\ db'.validators[call[c].position] = w
  BY <1>1, StoreGrows
<1>3. Validator(c)' = w
  BY <1>2 DEF Validator
<1> QED BY <1>2, <1>3 DEF View, Readable, StatusOf

\* A handler's step leaves the other clients' requests alone.
LEMMA HandleFrame ==
  ASSUME IInv, NEW c \in Clients, Handle(c)
  PROVE  /\ pc[c] # "idle"
         /\ \A d \in Clients \ {c} :
               pc'[d] = pc[d] /\ call'[d] = call[d] /\ reply'[d] = reply[d]
<1>1. Typed
  BY DEF IInv
<1>2. pc[c] # "idle"
  BY DEF Handle, addValidator, commitBlock, setHighestSlot, getConfig,
     getSyncStatus, getFinalityCheckpoints, getAllValidators, getValidators,
     getValidator, setBalance, setStatus, slash, Find, getMeta, SetBalance,
     LowerTest, LowerLoad, Lower, RaiseTest, RaiseLoad, Raise, LoadEffective,
     SetStatus, StatusText, Slash, SlashExiting, Mark, Charge
<1>3. (\E step : Goto(c, step)) \/ (\E code : Finish(c, code))
  BY DEF Handle, addValidator, commitBlock, setHighestSlot, getConfig,
     getSyncStatus, getFinalityCheckpoints, getAllValidators, getValidators,
     getValidator, setBalance, setStatus, slash, Find, getMeta, SetBalance,
     LowerTest, LowerLoad, Lower, RaiseTest, RaiseLoad, Raise, LoadEffective,
     SetStatus, StatusText, Slash, SlashExiting, Mark, Charge, AfterSetBalance
<1>4. \A d \in Clients \ {c} : pc'[d] = pc[d] /\ reply'[d] = reply[d]
  BY <1>1, <1>3 DEF Goto, Finish, Typed
<1>5. (\E k : call' = [call EXCEPT ![c] = k])
  <2>1. call = [call EXCEPT ![c] = call[c]]
    BY <1>1 DEF Typed
  <2>2. CASE call' = call
    BY <2>1, <2>2
  <2>3. CASE call' # call
    BY <1>1, <2>3 DEF Typed, Handle, addValidator, commitBlock, setHighestSlot, getConfig,
       getSyncStatus, getFinalityCheckpoints, getAllValidators, getValidators,
       getValidator, setBalance, setStatus, slash, Find, getMeta, SetBalance,
       LowerTest, LowerLoad, Lower, RaiseTest, RaiseLoad, Raise, LoadEffective,
       SetStatus, StatusText, Slash, SlashExiting, Mark, Charge, AfterSetBalance, See
  <2> QED BY <2>2, <2>3
<1>6. \A d \in Clients \ {c} : call'[d] = call[d]
  BY <1>1, <1>5 DEF Typed
<1> QED BY <1>2, <1>4, <1>6

\* What a request leaves when it ends, and what its own step has to show.
Result(c) ==
    LET k == call[c]
    IN  /\ Readable(db.validators[k.position])
              = Sequential(k.handler, Before(c), k.amount, k.status)
        /\ reply[c] = Answer(k.handler, Before(c))

Outcome(c) ==
    /\ Belongs(c)
    /\ call[c].alone => IF pc[c] = "idle" THEN call[c].position # 0 => Result(c)
                        ELSE Progress(c)

LEMMA SoloStep ==
  ASSUME IInv, SoloInv, NEW c \in Clients, Handle(c),
         call'[c].alone => call[c].alone, Outcome(c)'
  PROVE  SoloInv'
<1>1. /\ pc[c] # "idle"
      /\ \A d \in Clients \ {c} :
            pc'[d] = pc[d] /\ call'[d] = call[d] /\ reply'[d] = reply[d]
  BY HandleFrame
<1>2. ASSUME NEW d \in Clients \ {c} PROVE Belongs(d)' /\ ~Solo(d)'
  <2>1. Belongs(d) /\ ~Solo(d)
    BY <1>1 DEF SoloInv
  <2> QED BY <1>1, <2>1 DEF Belongs, Solo
<1>3. Solo(c)' => \A d \in Clients : d # c => pc'[d] = "idle"
  BY <1>1 DEF SoloInv, Solo
<1>4. Solo(c)' => Progress(c)'
  <2>1. ASSUME pc'[c] = "idle" PROVE Progress(c)'
    BY <2>1 DEF Progress, Handlers, ValidatorSteps, PaySteps
  <2> QED BY <2>1 DEF Outcome, Solo
<1>5. AloneIsSequential'
  <2> SUFFICES ASSUME NEW d \in Clients, pc'[d] = "idle", call'[d].alone,
                      call'[d].position # 0
               PROVE  Result(d)'
    BY DEF AloneIsSequential, Result, Before
  <2>1. CASE d = c
    BY <2>1 DEF Outcome
  <2>2. CASE d # c
    BY <1>2, <2>2 DEF Solo
  <2> QED BY <2>1, <2>2
<1> QED BY <1>2, <1>3, <1>4, <1>5 DEF SoloInv, Outcome

\* Where neither the request nor the database changes.
LEMMA SameProgress ==
  ASSUME NEW d, UNCHANGED <<db, size>>, pc'[d] = pc[d], call'[d] = call[d]
  PROVE  /\ Belongs(d) => Belongs(d)'
         /\ Progress(d) => Progress(d)'
         /\ reply'[d] = reply[d] /\ Result(d) => Result(d)'
<1>1. /\ Before(d)' = Before(d) /\ Base(d)' = Base(d) /\ Pay(d)' = Pay(d)
      /\ Paid(d)' = Paid(d) /\ Lowered(d)' = Lowered(d)
      /\ PaidAndLowered(d)' = PaidAndLowered(d) /\ Settled(d)' = Settled(d)
      /\ NewStatus(d)' = NewStatus(d)
      /\ View(d)' = View(d) /\ Validator(d)' = Validator(d)
  BY SameRecord
<1>2. Now' = Now
  BY DEF Now, Readable, StatusOf
<1>3. Readable(db.validators[call[d].position])'
         = Readable(db.validators[call[d].position])
  BY DEF Readable, StatusOf
<1>4. Belongs(d) => Belongs(d)'
  BY DEF Belongs
<1>5. Progress(d) => Progress(d)'
  BY <1>1, <1>2 DEF Progress
<1>6. reply'[d] = reply[d] /\ Result(d) => Result(d)'
  BY <1>1, <1>3 DEF Result
<1> QED BY <1>4, <1>5, <1>6

\* What every step of SetBalance starts from.
LEMMA PayFacts ==
  ASSUME IInv, SoloInv, NEW c \in Clients, pc[c] \in PaySteps, call[c].alone
  PROVE  /\ call[c].balance = Pay(c)
         /\ Len(call[c].before) = Len(db.validators)
         /\ call[c].handler = "slash" => Slashable(Before(c))
BY AloneFacts DEF Progress, PaySteps, ValidatorSteps

\* Handlers without a *Validator.
LEMMA ReadsAlone ==
  ASSUME IInv, SoloInv, NEW c \in Clients,
         \/ addValidator(c) \/ commitBlock(c) \/ setHighestSlot(c) \/ getConfig(c)
         \/ getSyncStatus(c) \/ getFinalityCheckpoints(c)
         \/ getAllValidators(c) \/ getValidators(c)
  PROVE  SoloInv'
<1>1. Handle(c)
  BY DEF Handle
<1>2. /\ Typed /\ call[c] \in Calls /\ Belongs(c) /\ (Solo(c) => Progress(c))
      /\ pc[c] \in Handlers
  BY DEF IInv, Typed, SoloInv, Handlers, addValidator, commitBlock, setHighestSlot,
     getConfig, getSyncStatus, getFinalityCheckpoints, getAllValidators, getValidators
<1>3. size' = size /\ (pc'[c] = "idle" \/ (pc'[c] = pc[c] /\ db' = db))
  BY <1>2 DEF Typed, Finish, Goto, addValidator, commitBlock, setHighestSlot,
     getConfig, getSyncStatus, getFinalityCheckpoints, getAllValidators, getValidators
<1>4. Keeps(c)
  <2>1. CASE call' = call
    BY <2>1 DEF Keeps
  <2>2. CASE getSyncStatus(c) \/ getFinalityCheckpoints(c)
    <3>1. PICK seen : call' = [call EXCEPT ![c].seen = seen]
      BY <2>2 DEF getSyncStatus, getFinalityCheckpoints, See
    <3> QED BY <1>2, <3>1 DEF Typed, Calls, Keeps
  <2>3. CASE getAllValidators(c)
    <3>1. PICK found : call' = [call EXCEPT ![c].found = found]
      BY <2>3 DEF getAllValidators
    <3> QED BY <1>2, <3>1 DEF Typed, Calls, Keeps
  <2>4. CASE getValidators(c) /\ call' # call
    <3>1. PICK left, found : call' = [call EXCEPT ![c].left = left, ![c].found = found]
      BY <2>4 DEF getValidators
    <3> QED BY <1>2, <3>1 DEF Typed, Calls, Keeps
  <2>5. CASE addValidator(c) \/ commitBlock(c) \/ setHighestSlot(c) \/ getConfig(c)
    BY <2>5 DEF addValidator, commitBlock, setHighestSlot, getConfig, Keeps
  <2> QED BY <2>1, <2>2, <2>3, <2>4, <2>5
<1>5. "idle" \notin Handlers \union ValidatorSteps
      /\ Handlers \intersect (ValidatorSteps \union {"idle"}) = {}
      /\ Handlers \intersect PaySteps = {} /\ pc[c] \notin LookupSteps
  BY DEF Handlers, ValidatorSteps, PaySteps, LookupSteps, addValidator, commitBlock,
     setHighestSlot, getConfig, getSyncStatus, getFinalityCheckpoints,
     getAllValidators, getValidators
<1>6. Belongs(c)'
  BY <1>2, <1>3, <1>4, <1>5 DEF Belongs, Keeps, Handlers, PaySteps
<1>7. CASE pc'[c] = "idle"
  <2>1. call'[c].position = 0
    BY <1>2, <1>4 DEF Belongs, Keeps
  <2> QED BY <1>1, <1>4, <1>6, <1>7, <2>1, SoloStep DEF Outcome, Keeps
<1>8. CASE pc'[c] # "idle"
  <2>1. ASSUME call[c].alone PROVE Progress(c)'
    <3>1. pc[c] \notin ValidatorSteps /\ pc[c] # "setBalance"
          /\ pc'[c] = pc[c] /\ db' = db
      BY <1>2, <1>3, <1>5, <1>8 DEF LookupSteps
    <3>2. call'[c].before = Now'
      <4>1. call[c].before = Now
        BY <1>2, <1>5, <2>1 DEF Solo, Progress
      <4>2. Now' = Now
        BY <1>3, <3>1 DEF Now, Readable, StatusOf
      <4> QED BY <1>4, <4>1, <4>2 DEF Keeps
    <3> QED BY <3>1, <3>2 DEF Progress, ValidatorSteps, PaySteps
  <2> QED BY <1>1, <1>4, <1>6, <1>8, <2>1, SoloStep DEF Outcome, Keeps
<1> QED BY <1>7, <1>8

\* The lookup: the validator found is still as it was when the request arrived.
LEMMA FindAlone ==
  ASSUME IInv, SoloInv, NEW c \in Clients,
         getValidator(c) \/ setBalance(c) \/ setStatus(c) \/ slash(c)
  PROVE  SoloInv'
<1>1. Handle(c)
  BY DEF Handle
<1>2. PICK handler \in LookupSteps, step \in {"GetValidatorMeta", "SetBalance", "SetStatus", "Slash"} :
         /\ Find(c, handler, step)
         /\ handler = "getValidator" => step = "GetValidatorMeta"
         /\ handler = "setBalance" => step = "SetBalance"
         /\ handler = "setStatus" => step = "SetStatus"
         /\ handler = "slash" => step = "Slash"
  BY DEF getValidator, setBalance, setStatus, slash, LookupSteps
<1>3. /\ Typed /\ call[c] \in Calls /\ Belongs(c) /\ (Solo(c) => Progress(c))
      /\ pc[c] = handler /\ pc[c] \in Handlers
      /\ call[c].position = 0 /\ call[c].handler = handler /\ call[c].id \in Ids
      /\ UNCHANGED <<db, size>>
  BY <1>2 DEF IInv, Typed, SoloInv, Handlers, Find, LookupSteps, Belongs, WellFormed
<1>4. CASE Finish(c, "aborted") /\ call' = call
  <2>1. pc'[c] = "idle" /\ call'[c] = call[c]
    BY <1>3, <1>4 DEF Finish, Typed
  <2>2. Belongs(c)'
    BY <2>1 DEF Belongs, Handlers, PaySteps
  <2> QED BY <1>1, <1>3, <2>1, <2>2, SoloStep DEF Outcome
<1>5. ASSUME NEW position, position = Position(call[c].id), position # 0,
             call' = [call EXCEPT ![c].position = position], Goto(c, step)
      PROVE  SoloInv'
  <2>1. /\ pc'[c] = step /\ call'[c].position = position
        /\ call'[c].handler = handler /\ call'[c].before = call[c].before
        /\ call'[c].alone = call[c].alone /\ call'[c].amount = call[c].amount
        /\ call'[c].balance = call[c].balance
    BY <1>3, <1>5 DEF Goto, Typed, Calls
  <2>2. Belongs(c)'
    BY <1>2, <2>1 DEF Belongs, Handlers, LookupSteps, PaySteps
  <2>3. ASSUME call[c].alone PROVE Progress(c)'
    <3>1. call[c].before = Now /\ (handler = "setBalance" => call[c].balance = call[c].amount)
      BY <1>3, <2>3 DEF Solo, Progress, Handlers
    <3>2. position \in 1 .. Len(db.validators)
      BY <1>3, <1>5, PositionType, DatabaseTypes
    <3>3. View(c)' = Before(c)'
      <4>1. View(c)' = Readable(db.validators[position])
        BY <1>3, <2>1 DEF View, Validator, Readable, StatusOf
      <4>2. Before(c)' = Now[position]
        BY <2>1, <3>1 DEF Before
      <4> QED BY <1>3, <3>2, <4>1, <4>2, NowType
    <3>4. handler # "slash" => /\ Base(c)' = Before(c)' /\ Settled(c)' = Before(c)'
                               /\ Pay(c)' = call'[c].amount
      BY <2>1 DEF Base, Settled, Pay
    <3>5. Len(call'[c].before) = Len(db'.validators)
      BY <1>3, <2>1, <3>1, NowType
    <3>6. CASE step = "SetBalance"
      <4>1. handler = "setBalance"
        BY <1>2, <3>6 DEF LookupSteps
      <4> QED BY <2>1, <3>1, <3>3, <3>4, <3>5, <3>6, <4>1
              DEF Progress, Handlers, ValidatorSteps, PaySteps
    <3>7. CASE step # "SetBalance"
      BY <1>2, <2>1, <3>3, <3>4, <3>5, <3>7
         DEF Progress, Handlers, LookupSteps, ValidatorSteps, PaySteps
    <3> QED BY <3>6, <3>7
  <2> QED BY <1>1, <1>2, <2>1, <2>2, <2>3, SoloStep DEF Outcome
<1> QED BY <1>2, <1>4, <1>5 DEF Find

\* The values SetBalance leaves in between, and the one it ends with.
LEMMA PaidFacts ==
  ASSUME NEW c, Base(c) \in Validators, Pay(c) \in Uint,
         Base(c).EffectiveBalance = Before(c).EffectiveBalance
  PROVE  /\ Paid(c) \in Validators
         /\ Paid(c).EffectiveBalance = Before(c).EffectiveBalance
         /\ Lowered(c) \in Uint /\ PaidAndLowered(c) \in Validators
         /\ PaidAndLowered(c).EffectiveBalance = Lowered(c)
         /\ Lowered(c) = Before(c).EffectiveBalance => PaidAndLowered(c) = Paid(c)
         /\ ~(Pay(c) > UAdd(Lowered(c), UpMargin)) =>
               PaidAndLowered(c) = WithBalance(Base(c), Pay(c))
         /\ Pay(c) > UAdd(Lowered(c), UpMargin) =>
               [PaidAndLowered(c) EXCEPT !.EffectiveBalance = UAdd(Lowered(c), 1)]
                  = WithBalance(Base(c), Pay(c))
<1> DEFINE b == Base(c)
           e == Before(c).EffectiveBalance
           pay == Pay(c)
           paid == Paid(c)
           lowered == Lowered(c)
<1>1. /\ b \in Validators /\ pay \in Uint /\ paid = [b EXCEPT !.Balance = pay]
      /\ e = b.EffectiveBalance /\ lowered = LoweredBy(e, pay)
      /\ PaidAndLowered(c) = [paid EXCEPT !.EffectiveBalance = lowered]
  BY DEF Paid, Lowered, PaidAndLowered
<1> HIDE DEF b, e, pay, paid, lowered
<1>2. e \in Uint /\ lowered \in Uint
  <2>1. e \in Uint
    BY <1>1 DEF Validators
  <2> QED BY <1>1, <2>1, UintArithmetic, UintConstants DEF LoweredBy
<1>3. paid \in Validators /\ paid.EffectiveBalance = e
  BY <1>1 DEF Validators
<1>4. /\ PaidAndLowered(c) \in Validators /\ PaidAndLowered(c).EffectiveBalance = lowered
      /\ lowered = e => PaidAndLowered(c) = paid
  <2> DEFINE p == PaidAndLowered(c)
  <2>1. p = [paid EXCEPT !.EffectiveBalance = lowered]
    BY <1>1
  <2> HIDE DEF p
  <2>2. p \in Validators /\ p.EffectiveBalance = lowered
    BY <1>2, <1>3, <2>1 DEF Validators
  <2>3. lowered = e => p = paid
    BY <1>3, <2>1 DEF Validators
  <2> QED BY <2>2, <2>3 DEF p
<1>5. WithBalance(b, pay) =
         [b EXCEPT !.Balance = pay,
                   !.EffectiveBalance = IF pay > UAdd(lowered, UpMargin)
                                        THEN UAdd(lowered, 1) ELSE lowered]
  <2>1. EffectiveAfter(e, pay) =
           IF pay > UAdd(lowered, UpMargin) THEN UAdd(lowered, 1) ELSE lowered
    BY <1>1 DEF EffectiveAfter, LoweredBy
  <2>2. WithBalance(b, pay) =
           [b EXCEPT !.Balance = pay, !.EffectiveBalance = EffectiveAfter(e, pay)]
    BY <1>1 DEF WithBalance, Validators
  <2> QED BY <2>1, <2>2
<1>6. \A x : /\ [paid EXCEPT !.EffectiveBalance = x]
                   = [b EXCEPT !.Balance = pay, !.EffectiveBalance = x]
             /\ [[paid EXCEPT !.EffectiveBalance = lowered] EXCEPT !.EffectiveBalance = x]
                   = [b EXCEPT !.Balance = pay, !.EffectiveBalance = x]
  BY <1>1 DEF Validators
<1>7. ~(pay > UAdd(lowered, UpMargin)) => PaidAndLowered(c) = WithBalance(b, pay)
  BY <1>1, <1>5, <1>6
<1>8. pay > UAdd(lowered, UpMargin) =>
         [PaidAndLowered(c) EXCEPT !.EffectiveBalance = UAdd(lowered, 1)]
            = WithBalance(b, pay)
  BY <1>1, <1>5, <1>6
<1> QED BY <1>2, <1>3, <1>4, <1>7, <1>8 DEF b, e, pay, paid, lowered

\* GetValidatorMeta.
LEMMA MetaAlone ==
  ASSUME IInv, SoloInv, NEW c \in Clients, getMeta(c)
  PROVE  SoloInv'
<1>1. Handle(c) /\ pc[c] = "GetValidatorMeta" /\ pc[c] \in ValidatorSteps
  BY DEF Handle, getMeta, ValidatorSteps
<1>2. /\ pc'[c] = "idle" /\ call'[c] = call[c] /\ UNCHANGED <<db, size>>
      /\ reply'[c] = "ok"
  BY <1>1, AloneFacts DEF getMeta, Finish
<1>3. Belongs(c)'
  BY <1>2 DEF Belongs, Handlers, PaySteps
<1>4. ASSUME call[c].alone PROVE Result(c)'
  <2>1. View(c) = Before(c) /\ call[c].handler = "getValidator"
    BY <1>1, <1>4, AloneFacts DEF Progress, Belongs
  <2>2. View(c)' = Before(c)'
    BY <1>2, <2>1, SameRecord
  <2> QED BY <1>2, <2>1, <2>2 DEF Result, Sequential, Answer, View, Validator
<1> QED BY <1>1, <1>2, <1>3, <1>4, SoloStep DEF Outcome

\* SetBalance pays first.
LEMMA PayAlone ==
  ASSUME IInv, SoloInv, NEW c \in Clients, SetBalance(c)
  PROVE  SoloInv'
<1> DEFINE w == [Validator(c) EXCEPT !.Balance = call[c].balance]
<1>1. /\ Handle(c) /\ pc[c] = "SetBalance" /\ pc[c] \in ValidatorSteps
      /\ pc[c] \in BalanceSteps /\ Store(c, w)
  BY DEF Handle, SetBalance, ValidatorSteps, BalanceSteps
<1>2. /\ pc'[c] = "lowerTest" /\ call'[c] = call[c] /\ size' = size
  BY <1>1, AloneFacts DEF SetBalance, Goto
<1>3. w \in Validators /\ w.Pubkey = Validator(c).Pubkey /\ w.Index = Validator(c).Index
  BY <1>1, AloneFacts DEF Validators
<1>4. Readable(w) = [View(c) EXCEPT !.Balance = call[c].balance]
  BY <1>1, AloneFacts, ReadableWrites DEF View
<1> HIDE DEF w
<1>5. View(c)' = Readable(w) /\ Len(db'.validators) = Len(db.validators)
  BY <1>1, <1>2, <1>3, StoreShows
<1>6. Belongs(c)'
  BY <1>1, <1>2, AloneFacts DEF Belongs, Handlers, PaySteps
<1>7. ASSUME call[c].alone PROVE Progress(c)'
  <2>1. View(c) = Base(c) /\ call[c].balance = Pay(c)
    BY <1>1, <1>7, AloneFacts DEF Progress, PaySteps
  <2>2. View(c)' = Paid(c)
    BY <1>4, <1>5, <2>1 DEF Paid
  <2> QED BY <1>1, <1>2, <1>5, <1>7, <2>1, <2>2, SameRecord, AloneFacts, ZenonT(40)
          DEF Progress, Handlers, ValidatorSteps, PaySteps
<1> QED BY <1>1, <1>2, <1>6, <1>7, SoloStep DEF Outcome

\* The first test of the hysteresis.
LEMMA LowerTestAlone ==
  ASSUME IInv, SoloInv, NEW c \in Clients, LowerTest(c)
  PROVE  SoloInv'
<1> DEFINE low == call[c].balance < USub(Validator(c).EffectiveBalance, DownMargin)
<1>1. /\ Handle(c) /\ pc[c] = "lowerTest" /\ pc[c] \in ValidatorSteps
      /\ pc[c] \in BalanceSteps
  BY DEF Handle, LowerTest, ValidatorSteps, BalanceSteps
<1>2. /\ pc'[c] = IF low THEN "lowerLoad" ELSE "raiseTest"
      /\ UNCHANGED <<db, size>> /\ call'[c] = call[c]
  BY <1>1, AloneFacts DEF LowerTest, Goto
<1>3. Belongs(c)'
  BY <1>1, <1>2, AloneFacts DEF Belongs, Handlers, PaySteps
<1>4. ASSUME call[c].alone PROVE Progress(c)'
  <2>1. View(c) = Paid(c) /\ call[c].balance = Pay(c)
    BY <1>1, <1>4, AloneFacts DEF Progress, PaySteps
  <2>2. low <=> Pay(c) < USub(Before(c).EffectiveBalance, DownMargin)
    BY <1>1, <1>4, <2>1, AloneFacts, PaidFacts
  <2>3. ~low => Paid(c) = PaidAndLowered(c)
    BY <1>1, <1>4, <2>2, AloneFacts, PaidFacts DEF Lowered, LoweredBy
  <2> HIDE DEF low
  <2>4. /\ Len(call[c].before) = Len(db.validators)
        /\ call[c].handler = "slash" => Slashable(Before(c))
    BY <1>1, <1>4, PayFacts DEF PaySteps
  <2>5. /\ View(c)' = View(c) /\ Before(c)' = Before(c) /\ Pay(c)' = Pay(c)
        /\ Paid(c)' = Paid(c) /\ PaidAndLowered(c)' = PaidAndLowered(c)
    BY <1>2, SameRecord
  <2>6. CASE low
    BY <1>2, <2>1, <2>2, <2>4, <2>5, <2>6
       DEF Progress, Handlers, ValidatorSteps, PaySteps
  <2>7. CASE ~low
    BY <1>2, <2>1, <2>3, <2>4, <2>5, <2>7
       DEF Progress, Handlers, ValidatorSteps, PaySteps
  <2> QED BY <2>6, <2>7
<1> QED BY <1>1, <1>2, <1>3, <1>4, SoloStep DEF Outcome

\* The two loads: of what the test before them saw.
LEMMA LoadAlone ==
  ASSUME IInv, SoloInv, NEW c \in Clients, LowerLoad(c) \/ RaiseLoad(c)
  PROVE  SoloInv'
<1> DEFINE e == Validator(c).EffectiveBalance
<1>1. /\ Handle(c) /\ pc[c] \in {"lowerLoad", "raiseLoad"} /\ pc[c] \in ValidatorSteps
      /\ pc[c] \in BalanceSteps
  BY DEF Handle, LowerLoad, RaiseLoad, LoadEffective, ValidatorSteps, BalanceSteps
<1>2. /\ pc'[c] = IF pc[c] = "lowerLoad" THEN "lower" ELSE "raise"
      /\ UNCHANGED <<db, size>> /\ call' = [call EXCEPT ![c].loaded = e]
  BY <1>1, AloneFacts DEF LowerLoad, RaiseLoad, LoadEffective, Goto
<1>3. Keeps(c) /\ call'[c].balance = call[c].balance /\ call'[c].loaded = e
  BY <1>1, <1>2, AloneFacts DEF Keeps, Calls
<1>4. Belongs(c)'
  BY <1>1, <1>2, <1>3, AloneFacts DEF Keeps, Belongs, Handlers, PaySteps
<1>5. ASSUME call[c].alone PROVE Progress(c)'
  <2>1. e = View(c).EffectiveBalance
    BY <1>1, AloneFacts
  <2>4. /\ Len(call[c].before) = Len(db.validators)
        /\ call[c].handler = "slash" => Slashable(Before(c))
    BY <1>1, <1>5, PayFacts DEF PaySteps
  <2>5. /\ View(c)' = View(c) /\ Before(c)' = Before(c) /\ Pay(c)' = Pay(c)
        /\ Paid(c)' = Paid(c) /\ Lowered(c)' = Lowered(c)
        /\ PaidAndLowered(c)' = PaidAndLowered(c)
    BY <1>2, <1>3, SameRecord DEF Keeps
  <2>2. CASE pc[c] = "lowerLoad"
    <3>1. /\ View(c) = Paid(c) /\ call[c].balance = Pay(c)
          /\ Pay(c) < USub(Before(c).EffectiveBalance, DownMargin)
      BY <1>1, <1>5, <2>2, AloneFacts DEF Progress, PaySteps
    <3>2. e = Before(c).EffectiveBalance
      BY <1>1, <1>5, <2>1, <3>1, AloneFacts, PaidFacts
    <3> HIDE DEF e
    <3> QED BY <1>2, <1>3, <2>2, <2>4, <2>5, <3>1, <3>2
            DEF Keeps, Progress, Handlers, ValidatorSteps, PaySteps
  <2>3. CASE pc[c] = "raiseLoad"
    <3>1. /\ View(c) = PaidAndLowered(c) /\ call[c].balance = Pay(c)
          /\ Pay(c) > UAdd(Lowered(c), UpMargin)
      BY <1>1, <1>5, <2>3, AloneFacts DEF Progress, PaySteps
    <3>2. e = Lowered(c)
      BY <1>1, <1>5, <2>1, <3>1, AloneFacts, PaidFacts
    <3> HIDE DEF e
    <3> QED BY <1>2, <1>3, <2>3, <2>4, <2>5, <3>1, <3>2
            DEF Keeps, Progress, Handlers, ValidatorSteps, PaySteps
  <2> QED BY <1>1, <2>2, <2>3
<1> QED BY <1>1, <1>2, <1>3, <1>4, <1>5, SoloStep DEF Outcome, Keeps

LEMMA LowerAlone ==
  ASSUME IInv, SoloInv, NEW c \in Clients, Lower(c)
  PROVE  SoloInv'
<1> DEFINE lowered == USub(call[c].loaded, 1)
           w == [Validator(c) EXCEPT !.EffectiveBalance = lowered]
<1>1. /\ Handle(c) /\ pc[c] = "lower" /\ pc[c] \in ValidatorSteps
      /\ pc[c] \in BalanceSteps /\ Store(c, w)
  BY DEF Handle, Lower, ValidatorSteps, BalanceSteps
<1>2. /\ pc'[c] = "raiseTest" /\ size' = size
      /\ Keeps(c) /\ call'[c].balance = call[c].balance
  BY <1>1, AloneFacts DEF Lower, Goto, Keeps, Calls
<1>3. lowered \in Uint
  BY <1>1, AloneFacts, UintArithmetic, UintConstants
<1> HIDE DEF lowered
<1>4. w \in Validators /\ w.Pubkey = Validator(c).Pubkey /\ w.Index = Validator(c).Index
  BY <1>1, <1>3, AloneFacts DEF Validators
<1>5. Readable(w) = [View(c) EXCEPT !.EffectiveBalance = lowered]
  BY <1>1, <1>3, AloneFacts, ReadableWrites DEF View
<1> HIDE DEF w
<1>6. View(c)' = Readable(w) /\ Len(db'.validators) = Len(db.validators)
  BY <1>1, <1>2, <1>4, StoreShows DEF Keeps
<1>7. Belongs(c)'
  BY <1>1, <1>2, AloneFacts DEF Keeps, Belongs, Handlers, PaySteps
<1>8. ASSUME call[c].alone PROVE Progress(c)'
  <2>1. /\ View(c) = Paid(c) /\ call[c].balance = Pay(c)
        /\ call[c].loaded = Before(c).EffectiveBalance
        /\ Pay(c) < USub(Before(c).EffectiveBalance, DownMargin)
    BY <1>1, <1>8, AloneFacts DEF Progress, PaySteps
  <2>2. lowered = Lowered(c)
    BY <2>1 DEF Lowered, LoweredBy, lowered
  <2>3. View(c)' = PaidAndLowered(c)
    BY <1>5, <1>6, <2>1, <2>2 DEF PaidAndLowered
  <2> QED BY <1>1, <1>2, <1>6, <1>8, <2>1, <2>3, SameRecord, AloneFacts, ZenonT(40)
          DEF Keeps, Progress, Handlers, ValidatorSteps, PaySteps
<1> QED BY <1>1, <1>2, <1>7, <1>8, SoloStep DEF Outcome, Keeps

\* Where SetBalance ends: setBalance answers, slash goes on to the status.
LEMMA SettledEnds ==
  ASSUME IInv, SoloInv, NEW c \in Clients, Handle(c),
         pc[c] \in {"raiseTest", "raise"}, AfterSetBalance(c),
         Len(db'.validators) = Len(db.validators),
         call[c].alone => View(c)' = WithBalance(Base(c), Pay(c))
  PROVE  SoloInv'
<1>1. pc[c] \in ValidatorSteps
  BY DEF ValidatorSteps
<1>2. /\ Typed /\ Belongs(c) /\ call[c].handler \in {"setBalance", "slash"}
      /\ Keeps(c)
  BY <1>1, AloneFacts DEF Belongs, PaySteps, AfterSetBalance, Keeps, Calls
<1>3. Before(c)' = Before(c) /\ Base(c)' = Base(c) /\ Settled(c)' = Settled(c)
  BY <1>2, SameRecord DEF Keeps
<1>4. CASE call[c].handler = "setBalance"
  <2>1. pc'[c] = "idle" /\ reply'[c] = "ok"
    BY <1>2, <1>4 DEF AfterSetBalance, Finish, Typed
  <2>2. Belongs(c)'
    BY <2>1 DEF Belongs, Handlers, PaySteps
  <2>3. ASSUME call[c].alone PROVE Result(c)'
    <3>1. View(c)' = WithBalance(Before(c)', call'[c].amount)
      BY <1>2, <1>3, <1>4, <2>3 DEF Base, Pay, Keeps
    <3> QED BY <1>2, <1>4, <2>1, <3>1
            DEF Result, Sequential, Answer, View, Validator, Keeps
  <2> QED BY <1>2, <2>1, <2>2, <2>3, SoloStep DEF Outcome, Keeps
<1>5. CASE call[c].handler = "slash"
  <2>1. pc'[c] = "SetStatus"
    BY <1>2, <1>5 DEF AfterSetBalance, Goto, Typed
  <2>2. Belongs(c)'
    BY <1>2, <1>5, <2>1 DEF Belongs, Handlers, PaySteps, Keeps
  <2>3. ASSUME call[c].alone PROVE Progress(c)'
    <3>1. View(c)' = Settled(c)'
      BY <1>3, <1>5, <2>3 DEF Settled
    <3>2. Len(call[c].before) = Len(db.validators) /\ Slashable(Before(c))
      BY <1>1, <1>5, <2>3, AloneFacts DEF Progress, ValidatorSteps
    <3> QED BY <1>2, <1>3, <2>1, <3>1, <3>2
            DEF Keeps, Progress, Handlers, ValidatorSteps, PaySteps
  <2> QED BY <1>2, <2>1, <2>2, <2>3, SoloStep DEF Outcome, Keeps
<1> QED BY <1>2, <1>4, <1>5

\* The second test.
LEMMA RaiseTestAlone ==
  ASSUME IInv, SoloInv, NEW c \in Clients, RaiseTest(c)
  PROVE  SoloInv'
<1> DEFINE bound == UAdd(Validator(c).EffectiveBalance, UpMargin)
<1>1. /\ Handle(c) /\ pc[c] = "raiseTest" /\ pc[c] \in ValidatorSteps
      /\ pc[c] \in BalanceSteps /\ UNCHANGED <<db, size>>
  BY DEF Handle, RaiseTest, ValidatorSteps, BalanceSteps
<1>2. ASSUME call[c].alone
      PROVE  /\ View(c) = PaidAndLowered(c) /\ call[c].balance = Pay(c)
             /\ bound = UAdd(Lowered(c), UpMargin)
  <2>1. View(c) = PaidAndLowered(c) /\ call[c].balance = Pay(c)
    BY <1>1, <1>2, AloneFacts DEF Progress, PaySteps
  <2>2. Validator(c).EffectiveBalance = Lowered(c)
    BY <1>1, <1>2, <2>1, AloneFacts, PaidFacts
  <2> QED BY <2>1, <2>2
<1>3. bound \in Nat /\ call[c].balance \in Nat
  BY <1>1, AloneFacts, UintArithmetic, UintConstants DEF Validators
<1> HIDE DEF bound
<1>4. CASE call[c].balance > bound /\ Goto(c, "raiseLoad") /\ call' = call
  <2>1. pc'[c] = "raiseLoad" /\ call'[c] = call[c]
    BY <1>1, <1>4, AloneFacts DEF Goto
  <2>2. Belongs(c)'
    BY <1>1, <2>1, AloneFacts DEF Belongs, Handlers, PaySteps
  <2>3. ASSUME call[c].alone PROVE Progress(c)'
    <3>1. /\ Len(call[c].before) = Len(db.validators)
          /\ call[c].handler = "slash" => Slashable(Before(c))
      BY <1>1, <2>3, PayFacts DEF PaySteps
    <3>2. /\ View(c)' = View(c) /\ Before(c)' = Before(c) /\ Pay(c)' = Pay(c)
          /\ Lowered(c)' = Lowered(c) /\ PaidAndLowered(c)' = PaidAndLowered(c)
      BY <1>1, <2>1, SameRecord
    <3> QED BY <1>1, <1>2, <1>4, <2>1, <2>3, <3>1, <3>2
            DEF Progress, Handlers, ValidatorSteps, PaySteps
  <2> QED BY <1>1, <2>1, <2>2, <2>3, SoloStep DEF Outcome
<1>5. CASE call[c].balance <= bound /\ AfterSetBalance(c)
  <2>1. ASSUME call[c].alone PROVE View(c)' = WithBalance(Base(c), Pay(c))
    <3>1. call'[c].position = call[c].position
      BY <1>1, <1>5, AloneFacts DEF AfterSetBalance, Calls
    <3>2. View(c)' = View(c)
      BY <1>1, <3>1 DEF View, Validator, Readable, StatusOf
    <3>3. ~(Pay(c) > UAdd(Lowered(c), UpMargin))
      BY <1>2, <1>3, <1>5, <2>1
    <3> QED BY <1>1, <1>2, <2>1, <3>2, <3>3, AloneFacts, PaidFacts
  <2> QED BY <1>1, <1>5, <2>1, SettledEnds
<1> QED BY <1>4, <1>5 DEF RaiseTest, bound

LEMMA RaiseAlone ==
  ASSUME IInv, SoloInv, NEW c \in Clients, Raise(c)
  PROVE  SoloInv'
<1> DEFINE raised == UAdd(call[c].loaded, 1)
           w == [Validator(c) EXCEPT !.EffectiveBalance = raised]
<1>1. /\ Handle(c) /\ pc[c] = "raise" /\ pc[c] \in ValidatorSteps
      /\ pc[c] \in BalanceSteps /\ Store(c, w) /\ AfterSetBalance(c) /\ size' = size
  BY DEF Handle, Raise, ValidatorSteps, BalanceSteps
<1>2. raised \in Uint /\ call'[c].position = call[c].position
  <2>1. raised \in Uint
    BY <1>1, AloneFacts, UintArithmetic, UintConstants
  <2>2. call'[c].position = call[c].position
    BY <1>1, AloneFacts DEF AfterSetBalance, Calls
  <2> QED BY <2>1, <2>2
<1> HIDE DEF raised
<1>3. w \in Validators /\ w.Pubkey = Validator(c).Pubkey /\ w.Index = Validator(c).Index
  BY <1>1, <1>2, AloneFacts DEF Validators
<1>4. Readable(w) = [View(c) EXCEPT !.EffectiveBalance = raised]
  BY <1>1, <1>2, AloneFacts, ReadableWrites DEF View
<1> HIDE DEF w
<1>5. View(c)' = Readable(w) /\ Len(db'.validators) = Len(db.validators)
  BY <1>1, <1>2, <1>3, StoreShows
<1>6. ASSUME call[c].alone PROVE View(c)' = WithBalance(Base(c), Pay(c))
  <2>1. /\ View(c) = PaidAndLowered(c) /\ call[c].loaded = Lowered(c)
        /\ Pay(c) > UAdd(Lowered(c), UpMargin)
    BY <1>1, <1>6, AloneFacts DEF Progress
  <2> QED BY <1>1, <1>4, <1>5, <1>6, <2>1, AloneFacts, PaidFacts DEF raised
<1> QED BY <1>1, <1>5, <1>6, SettledEnds

\* SetStatus, the length.  Until the text is stored too, only the status that
\* can be read may change.
LEMMA SizeAlone ==
  ASSUME IInv, SoloInv, NEW c \in Clients, SetStatus(c)
  PROVE  SoloInv'
<1>1. Handle(c) /\ pc[c] = "SetStatus" /\ pc[c] \in ValidatorSteps
  BY DEF Handle, SetStatus, ValidatorSteps
<1>2. pc'[c] = "statusText" /\ call'[c] = call[c] /\ db' = db
  BY <1>1, AloneFacts DEF SetStatus, Goto
<1>3. Belongs(c)'
  BY <1>1, <1>2, AloneFacts DEF Belongs, Handlers, PaySteps
<1>4. ASSUME call[c].alone PROVE Progress(c)'
  <2> DEFINE v == Validator(c)
  <2>1. v \in Validators /\ Validator(c)' = v /\ View(c) = Settled(c)
    BY <1>1, <1>2, <1>4, AloneFacts DEF Validator, Progress
  <2>2. size'[v.Pubkey] = NewStatus(c)
    BY <1>1, <2>1, AloneFacts DEF SetStatus, Typed, Validators
  <2>3. \E s, t : View(c) = [v EXCEPT !.Status = s] /\ View(c)' = [v EXCEPT !.Status = t]
    BY <2>1 DEF View, Readable
  <2>4. [View(c)' EXCEPT !.Status = NewStatus(c)] = [View(c) EXCEPT !.Status = NewStatus(c)]
    BY <2>1, <2>3 DEF Validators
  <2> HIDE DEF v
  <2> QED BY <1>1, <1>2, <1>4, <2>1, <2>2, <2>4, SameRecord, AloneFacts
          DEF Progress, Handlers, ValidatorSteps, PaySteps
<1> QED BY <1>1, <1>2, <1>3, <1>4, SoloStep DEF Outcome

\* SetStatus, the text, with which setStatus and slash end.
LEMMA TextAlone ==
  ASSUME IInv, SoloInv, NEW c \in Clients, StatusText(c)
  PROVE  SoloInv'
<1> DEFINE status == NewStatus(c)
           w == [Validator(c) EXCEPT !.Status = status]
<1>1. /\ Handle(c) /\ pc[c] = "statusText" /\ pc[c] \in ValidatorSteps /\ Store(c, w)
  BY DEF Handle, StatusText, ValidatorSteps
<1>2. pc'[c] = "idle" /\ reply'[c] = "ok" /\ call'[c] = call[c] /\ size' = size
  BY <1>1, AloneFacts DEF StatusText, Finish
<1>3. /\ status \in Statuses
      /\ w \in Validators /\ w.Pubkey = Validator(c).Pubkey /\ w.Index = Validator(c).Index
  BY <1>1, AloneFacts, StatusTypes DEF Validators
<1>4. View(c)' = Readable(w)
  <2> HIDE DEF w
  <2> QED BY <1>1, <1>2, <1>3, StoreShows
<1>5. Belongs(c)'
  BY <1>2 DEF Belongs, Handlers, PaySteps
<1>6. ASSUME call[c].alone PROVE Result(c)'
  <2>1. /\ size[Validator(c).Pubkey] = status
        /\ [View(c) EXCEPT !.Status = status] = [Settled(c) EXCEPT !.Status = status]
        /\ call[c].handler \in {"setStatus", "slash"}
    BY <1>1, <1>6, AloneFacts DEF Progress, Belongs
  <2>2. Readable(w) = [Settled(c) EXCEPT !.Status = status]
    BY <1>1, <1>3, <2>1, AloneFacts, ReadableStatus DEF View
  <2>3. Before(c)' = Before(c) /\ Readable(db.validators[call[c].position])' = Readable(w)
    BY <1>2, <1>4, SameRecord DEF View, Validator
  <2>4. CASE call[c].handler = "setStatus"
    <3>1. Readable(w) = [Before(c) EXCEPT !.Status = call[c].status]
      BY <2>2, <2>4 DEF Settled, NewStatus
    <3> QED BY <1>2, <2>3, <2>4, <3>1 DEF Result, Sequential, Answer
  <2>5. CASE call[c].handler = "slash"
    <3>1. Slashable(Before(c)) /\ Before(c) \in Validators
      BY <1>1, <1>6, <2>5, AloneFacts DEF Progress
    <3>2. Readable(w) =
             [WithBalance([Before(c) EXCEPT !.Slashed = TRUE],
                          USub(Before(c).Balance, call[c].amount))
                EXCEPT !.Status = "active_slashed"]
      BY <2>2, <2>5 DEF Settled, Base, Pay, NewStatus
    <3>3. Readable(w) = Slashed(Before(c), call[c].amount)
      BY <3>1, <3>2, SlashInSteps
    <3> QED BY <1>2, <2>3, <2>5, <3>1, <3>3 DEF Result, Sequential, Answer
  <2> QED BY <2>1, <2>4, <2>5
<1> QED BY <1>1, <1>2, <1>5, <1>6, SoloStep DEF Outcome

\* Slash tests the status that can be read, and ends where it accepts none.
LEMMA SlashAlone ==
  ASSUME IInv, SoloInv, NEW c \in Clients, Slash(c) \/ SlashExiting(c)
  PROVE  SoloInv'
<1>1. /\ Handle(c) /\ pc[c] \in {"Slash", "exitingTest"} /\ pc[c] \in ValidatorSteps
      /\ call' = call /\ UNCHANGED <<db, size>>
  BY DEF Handle, Slash, SlashExiting, ValidatorSteps
<1>2. call'[c] = call[c] /\ call[c].handler = "slash"
  BY <1>1, AloneFacts DEF Belongs
<1>3. Before(c)' = Before(c) /\ View(c)' = View(c)
  BY <1>1, <1>2, SameRecord
<1>4. ASSUME call[c].alone
      PROVE  /\ Len(call[c].before) = Len(db.validators) /\ View(c) = Before(c)
             /\ Before(c).Status = StatusOf(Validator(c))
             /\ pc[c] = "exitingTest" => Before(c).Status # "active_ongoing"
  BY <1>1, <1>4, AloneFacts DEF Progress
<1>5. CASE pc'[c] = "mark" /\ StatusOf(Validator(c)) \in {"active_ongoing", "active_exiting"}
  <2>1. Belongs(c)'
    BY <1>2, <1>5 DEF Belongs, Handlers, PaySteps
  <2>2. ASSUME call[c].alone PROVE Progress(c)'
    BY <1>1, <1>2, <1>3, <1>4, <1>5, <2>2
       DEF Slashable, Progress, Handlers, ValidatorSteps, PaySteps
  <2> QED BY <1>1, <1>2, <1>5, <2>1, <2>2, SoloStep DEF Outcome
<1>6. CASE pc'[c] = "exitingTest" /\ StatusOf(Validator(c)) # "active_ongoing"
  <2>1. Belongs(c)'
    BY <1>2, <1>6 DEF Belongs, Handlers, PaySteps
  <2>2. ASSUME call[c].alone PROVE Progress(c)'
    BY <1>1, <1>2, <1>3, <1>4, <1>6, <2>2
       DEF Progress, Handlers, ValidatorSteps, PaySteps
  <2> QED BY <1>1, <1>2, <1>6, <2>1, <2>2, SoloStep DEF Outcome
<1>7. CASE /\ pc'[c] = "idle" /\ reply'[c] = "error" /\ pc[c] = "exitingTest"
           /\ StatusOf(Validator(c)) # "active_exiting"
  <2>1. Belongs(c)'
    BY <1>7 DEF Belongs, Handlers, PaySteps
  <2>2. ASSUME call[c].alone PROVE Result(c)'
    <3>1. ~Slashable(Before(c))
      BY <1>4, <1>7, <2>2 DEF Slashable
    <3>2. View(c)' = Before(c)'
      BY <1>3, <1>4, <2>2
    <3> QED BY <1>2, <1>3, <1>7, <3>1, <3>2 DEF Result, Sequential, Answer, View, Validator
  <2> QED BY <1>1, <1>2, <1>7, <2>1, <2>2, SoloStep DEF Outcome
<1>8. CASE Slash(c)
  BY <1>1, <1>5, <1>6, <1>8, AloneFacts DEF Slash, Goto
<1>9. CASE SlashExiting(c)
  BY <1>1, <1>5, <1>7, <1>9, AloneFacts DEF SlashExiting, Goto, Finish
<1> QED BY <1>8, <1>9

LEMMA MarkAlone ==
  ASSUME IInv, SoloInv, NEW c \in Clients, Mark(c)
  PROVE  SoloInv'
<1> DEFINE w == [Validator(c) EXCEPT !.Slashed = TRUE]
<1>1. /\ Handle(c) /\ pc[c] = "mark" /\ pc[c] \in ValidatorSteps /\ Store(c, w)
  BY DEF Handle, Mark, ValidatorSteps
<1>2. /\ pc'[c] = "charge" /\ call'[c] = call[c] /\ call[c].handler = "slash"
      /\ size' = size
  BY <1>1, AloneFacts DEF Mark, Goto, Belongs
<1>3. w \in Validators /\ w.Pubkey = Validator(c).Pubkey /\ w.Index = Validator(c).Index
  BY <1>1, AloneFacts DEF Validators
<1>4. Readable(w) = [View(c) EXCEPT !.Slashed = TRUE]
  BY <1>1, AloneFacts, ReadableWrites DEF View
<1> HIDE DEF w
<1>5. View(c)' = Readable(w) /\ Len(db'.validators) = Len(db.validators)
  BY <1>1, <1>2, <1>3, StoreShows
<1>6. Belongs(c)'
  BY <1>2 DEF Belongs, Handlers, PaySteps
<1>7. ASSUME call[c].alone PROVE Progress(c)'
  <2>1. View(c) = Before(c) /\ Slashable(Before(c))
    BY <1>1, <1>2, <1>7, AloneFacts DEF Progress
  <2>2. View(c)' = Base(c)
    BY <1>2, <1>4, <1>5, <2>1 DEF Base
  <2> QED BY <1>1, <1>2, <1>5, <1>7, <2>1, <2>2, SameRecord, AloneFacts, ZenonT(40)
          DEF Progress, Handlers, ValidatorSteps, PaySteps
<1> QED BY <1>1, <1>2, <1>6, <1>7, SoloStep DEF Outcome

LEMMA ChargeAlone ==
  ASSUME IInv, SoloInv, NEW c \in Clients, Charge(c)
  PROVE  SoloInv'
<1> DEFINE charged == USub(Validator(c).Balance, call[c].amount)
<1>1. /\ Handle(c) /\ pc[c] = "charge" /\ pc[c] \in ValidatorSteps
      /\ UNCHANGED <<db, size>> /\ call' = [call EXCEPT ![c].balance = charged]
  BY DEF Handle, Charge, ValidatorSteps
<1>2. pc'[c] = "SetBalance" /\ call[c].handler = "slash"
  BY <1>1, AloneFacts DEF Charge, Goto, Belongs
<1>3. Keeps(c) /\ call'[c].balance = charged
  BY <1>1, AloneFacts DEF Keeps, Calls
<1>4. Belongs(c)'
  BY <1>2, <1>3 DEF Keeps, Belongs, Handlers, PaySteps
<1>5. ASSUME call[c].alone PROVE Progress(c)'
  <2>1. View(c) = Base(c) /\ Slashable(Before(c)) /\ Before(c) \in Validators
    BY <1>1, <1>2, <1>5, AloneFacts DEF Progress, ValidatorSteps
  <2>2. charged = Pay(c)
    <3>1. Base(c).Balance = Before(c).Balance
      BY <2>1 DEF Base, Validators
    <3> QED BY <1>1, <1>2, <2>1, <3>1, AloneFacts DEF Pay
  <2> HIDE DEF charged
  <2>3. Len(call[c].before) = Len(db.validators)
    BY <1>1, <1>5, AloneFacts
  <2>4. /\ View(c)' = View(c) /\ Before(c)' = Before(c) /\ Base(c)' = Base(c)
        /\ Pay(c)' = Pay(c)
    BY <1>1, <1>3, SameRecord DEF Keeps
  <2> QED BY <1>1, <1>2, <1>3, <2>1, <2>2, <2>3, <2>4
          DEF Keeps, Progress, Handlers, ValidatorSteps, PaySteps
<1> QED BY <1>1, <1>2, <1>3, <1>4, <1>5, SoloStep DEF Outcome, Keeps

\* A request that arrives is alone exactly when no other one is running, and
\* none that was running is from now on.
LEMMA AcceptAlone ==
  ASSUME IInv, SoloInv, NEW c \in Clients, NEW handler \in Handlers,
         NEW request, Asks(handler, request), Accept(c, handler, request)
  PROVE  SoloInv'
<1> DEFINE alone == \A d \in Clients : pc[d] = "idle"
           before == IF alone THEN Now ELSE <<>>
           k == [request EXCEPT !.handler = handler, !.known = Known,
                                !.before = before, !.alone = alone]
<1>1. /\ Typed /\ UNCHANGED <<db, size>> /\ pc' = [pc EXCEPT ![c] = handler]
      /\ call' = [d \in Clients |-> IF d # c THEN Overlapped(d) ELSE k]
  BY DEF IInv, Accept, Now
<1>2. alone \in BOOLEAN /\ (alone => before = Now) /\ Now' = Now
  BY <1>1 DEF Now, Readable, StatusOf
<1> HIDE DEF before, alone
<1>3. /\ pc'[c] = handler /\ call'[c].position = 0 /\ call'[c].handler = handler
      /\ call'[c].before = before /\ call'[c].alone = alone
      /\ handler = "setBalance" => call'[c].balance = call'[c].amount
  BY <1>1, <1>2 DEF Typed, Asks, Calls
<1>4. handler # "idle" /\ handler \notin ValidatorSteps \union PaySteps
  BY DEF Handlers, ValidatorSteps, PaySteps
<1>5. ASSUME NEW d \in Clients \ {c}
      PROVE  /\ Belongs(d)' /\ pc'[d] = pc[d]
             /\ call'[d].alone => call'[d].position = 0 /\ pc'[d] = "idle"
  <2>1. pc'[d] = pc[d] /\ call'[d] = Overlapped(d) /\ Belongs(d) /\ call[d] \in Calls
    BY <1>1 DEF Typed, SoloInv
  <2>2. CASE pc[d] = "idle"
    <3>1. call'[d].position = 0
      BY <2>1, <2>2, NoCallType DEF Overlapped
    <3> QED BY <2>1, <2>2, <3>1 DEF Belongs, Handlers, PaySteps
  <2>3. CASE pc[d] # "idle"
    <3>1. /\ call'[d].position = call[d].position /\ call'[d].handler = call[d].handler
          /\ call'[d].alone = FALSE
      BY <2>1, <2>3 DEF Overlapped, Calls
    <3> QED BY <2>1, <3>1 DEF Belongs
  <2> QED BY <2>2, <2>3
<1>6. Belongs(c)'
  BY <1>3, <1>4 DEF Belongs, Handlers, PaySteps
<1>7. ASSUME alone PROVE Progress(c)' /\ \A d \in Clients : d # c => pc'[d] = "idle"
  <2>1. \A d \in Clients : d # c => pc'[d] = "idle"
    BY <1>5, <1>7 DEF alone
  <2>2. Progress(c)'
    BY <1>2, <1>3, <1>4, <1>7 DEF Progress, ValidatorSteps, PaySteps
  <2> QED BY <2>1, <2>2
<1>8. AloneIsSequential'
  BY <1>3, <1>4, <1>5 DEF AloneIsSequential
<1> QED BY <1>3, <1>5, <1>6, <1>7, <1>8 DEF SoloInv, Solo

\* A rejected request leaves nothing to answer for.
LEMMA RejectAlone ==
  ASSUME IInv, SoloInv, NEW c \in Clients, Reject(c)
  PROVE  SoloInv'
<1>1. /\ Typed /\ UNCHANGED <<db, size>> /\ pc' = pc /\ pc[c] = "idle"
      /\ call' = [call EXCEPT ![c] = NoCall]
      /\ reply' = [reply EXCEPT ![c] = "error"]
  BY DEF IInv, Reject
<1>2. call'[c].position = 0 /\ pc'[c] = "idle"
  BY <1>1, NoCallType DEF Typed
<1>3. \A d \in Clients \ {c} : call'[d] = call[d] /\ reply'[d] = reply[d] /\ pc'[d] = pc[d]
  BY <1>1 DEF Typed
<1>4. ASSUME NEW d \in Clients \ {c}
      PROVE  /\ Belongs(d)'
             /\ Solo(d)' => Solo(d)
             /\ Progress(d) => Progress(d)'
  <2>1. call'[d] = call[d] /\ pc'[d] = pc[d]
    BY <1>1, <1>3
  <2>2. Belongs(d) /\ (Solo(d)' => Solo(d))
    BY <2>1 DEF SoloInv, Solo
  <2> QED BY <1>1, <2>1, <2>2, SameProgress
<1>5. Belongs(c)' /\ ~Solo(c)'
  BY <1>2 DEF Belongs, Solo, Handlers, PaySteps
<1>6. AloneIsSequential'
  <2> SUFFICES ASSUME NEW d \in Clients, pc'[d] = "idle", call'[d].alone,
                      call'[d].position # 0
               PROVE  Result(d)'
    BY DEF AloneIsSequential, Result, Before
  <2>1. d # c
    BY <1>2
  <2>2. Result(d)
    BY <1>1, <1>3, <2>1 DEF SoloInv, AloneIsSequential, Result, Before
  <2> QED BY <1>1, <1>3, <2>1, <2>2, SameProgress
<1> QED BY <1>1, <1>4, <1>5, <1>6 DEF SoloInv

\* The process touches no validator, and its end leaves no request.
LEMMA ProcessAlone ==
  ASSUME SoloInv, UNCHANGED <<db, size>>, UNCHANGED handlers \/ Exit
  PROVE  SoloInv'
<1>1. CASE UNCHANGED <<pc, call, reply>>
  <2>1. ASSUME NEW d \in Clients
        PROVE  Belongs(d)' /\ (Solo(d)' <=> Solo(d)) /\ (Progress(d) => Progress(d)')
    <3>1. Belongs(d)
      BY DEF SoloInv
    <3>2. Solo(d)' <=> Solo(d)
      BY <1>1 DEF Solo
    <3> QED BY <1>1, <3>1, <3>2, SameProgress
  <2>2. AloneIsSequential'
    <3> SUFFICES ASSUME NEW d \in Clients, pc'[d] = "idle", call'[d].alone,
                        call'[d].position # 0
                 PROVE  Result(d)'
      BY DEF AloneIsSequential, Result, Before
    <3>1. Result(d)
      BY <1>1 DEF SoloInv, AloneIsSequential, Result, Before
    <3> QED BY <1>1, <3>1, SameProgress
  <2> QED BY <1>1, <2>1, <2>2 DEF SoloInv
<1>2. CASE Exit
  <2>1. \A d \in Clients : pc'[d] = "idle" /\ call'[d].position = 0
    BY <1>2, NoCallType DEF Exit
  <2> QED BY <2>1 DEF SoloInv, AloneIsSequential, Belongs, Solo, Handlers, PaySteps
<1> QED BY <1>1, <1>2 DEF handlers

LEMMA HandleAlone ==
  ASSUME IInv, SoloInv, NEW c \in Clients, Handle(c)
  PROVE  SoloInv'
<1>1. CASE \/ addValidator(c) \/ commitBlock(c) \/ setHighestSlot(c) \/ getConfig(c)
           \/ getSyncStatus(c) \/ getFinalityCheckpoints(c)
           \/ getAllValidators(c) \/ getValidators(c)
  BY <1>1, ReadsAlone
<1>2. CASE getValidator(c) \/ setBalance(c) \/ setStatus(c) \/ slash(c)
  BY <1>2, FindAlone
<1>3. CASE getMeta(c) \/ SetBalance(c)
  BY <1>3, MetaAlone, PayAlone
<1>4. CASE \/ LowerTest(c) \/ LowerLoad(c) \/ Lower(c)
           \/ RaiseTest(c) \/ RaiseLoad(c) \/ Raise(c)
  BY <1>4, LowerTestAlone, LoadAlone, LowerAlone, RaiseTestAlone, RaiseAlone
<1>5. CASE SetStatus(c) \/ StatusText(c)
  BY <1>5, SizeAlone, TextAlone
<1>6. CASE Slash(c) \/ SlashExiting(c) \/ Mark(c) \/ Charge(c)
  BY <1>6, SlashAlone, MarkAlone, ChargeAlone
<1> QED BY <1>1, <1>2, <1>3, <1>4, <1>5, <1>6 DEF Handle

LEMMA InitAlone == Init => SoloInv
<1> SUFFICES ASSUME Init PROVE SoloInv
  OBVIOUS
<1>1. \A c \in Clients : pc[c] = "idle" /\ call[c].position = 0
  BY NoCallType DEF Init
<1> QED BY <1>1 DEF SoloInv, AloneIsSequential, Belongs, Solo, Handlers, PaySteps

LEMMA NextAlone == IInv /\ SoloInv /\ [Next]_vars => SoloInv'
<1> SUFFICES ASSUME IInv, SoloInv, [Next]_vars PROVE SoloInv'
  OBVIOUS
<1>1. ASSUME NEW c \in Clients, Request(c) PROVE SoloInv'
  BY <1>1, RequestAsks, AcceptAlone
<1>2. ASSUME NEW c \in Clients, Reject(c) \/ Handle(c) PROVE SoloInv'
  BY <1>2, RejectAlone, HandleAlone
<1>3. CASE UNCHANGED vars
  BY <1>3, ProcessAlone DEF vars
<1>4. CASE ProcessStep
  BY <1>4, ProcessCases, ProcessAlone
<1> QED BY <1>1, <1>2, <1>3, <1>4 DEF Next, ProcessStep

\* setBalance, setStatus and slash, in all their loads and stores, leave of a
\* validator what the methods in one piece make of the validator that could be
\* read when the request arrived, unless another request overlapped.  A slash
\* charges its penalty exactly where it met a slashable status, and answers an
\* error exactly where it did not.  Only overlapping requests can lose or mix
\* updates, for every number of validators and every penalty and balance.
THEOREM AloneCorrect == Spec => []AloneIsSequential
<1>1. SoloInv => AloneIsSequential
  BY DEF SoloInv
<1> QED BY <1>1, InitAlone, NextAlone, Invariance, PTL DEF Spec

=============================================================================

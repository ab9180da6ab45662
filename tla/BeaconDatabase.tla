--------------------------- MODULE BeaconDatabase ---------------------------
(***************************************************************************)
(* The in-memory database of the Beacon node mock (beacon/db): what each   *)
(* method of Database and Validator does to the value of one database.     *)
(*                                                                         *)
(* A method that takes db.lock is one operator here, because the lock      *)
(* makes it atomic.  Validator methods take no lock; the modules that use  *)
(* them decide how finely they interleave.                                 *)
(*                                                                         *)
(* A *Validator is identified by its database instance and its position in *)
(* db.validators, so validatorPubkeyMap maps a pubkey to a position, or to *)
(* 0 (nil) when it has no entry; executionBlockMap maps a slot to its      *)
(* block, or to NoBlock.  The pending deposits are kept as a set of        *)
(* *Deposit pointers: the order and the multiplicity of the slice are      *)
(* abstracted, membership and emptiness are not.  Withdrawal credentials   *)
(* and the epoch fields of a validator are written once, copied unchanged, *)
(* and left out.                                                           *)
(***************************************************************************)
EXTENDS Integers, Sequences

CONSTANTS
    Pubkeys,          \* validator public keys
    Deposits,         \* *Deposit pointers the callers allocate
    FirstBlock,       \* config.FirstExecutionBlockIndex
    StartingBalance,  \* 32e9 in settings.go
    DownMargin,       \* 25e7 in SetBalance
    UpMargin,         \* 125e7 in SetBalance
    UintMod,          \* 2^64: balances are uint64
    MaxSlot           \* bound on the slots explored

ASSUME ChainAssumption == FirstBlock \in Nat /\ MaxSlot \in Nat
ASSUME BalanceAssumption ==
    /\ UintMod \in Nat \ {0, 1}
    /\ StartingBalance \in 0 .. UintMod - 1
    /\ DownMargin \in 0 .. UintMod - 1
    /\ UpMargin \in 0 .. UintMod - 1

Uint == 0 .. UintMod - 1

\* The beacon.ValidatorState values; "exited" stands for every state that
\* the code does not mention.
Statuses == {"pending_initialized", "active_ongoing", "active_exiting",
             "active_slashed", "exited"}

Validators == [Pubkey : Pubkeys, Index : Nat, Balance : Uint,
               EffectiveBalance : Uint, Status : Statuses, Slashed : BOOLEAN]

Slots == 0 .. MaxSlot
NoBlock == -1

Databases == [validators : Seq(Validators),
              pendingDeposits : SUBSET Deposits,
              validatorPubkeyMap : [Pubkeys -> Nat],
              executionBlockMap : [Slots -> Nat \union {NoBlock}],
              currentSlot : Nat,
              highestSlot : Nat,
              nextExecutionBlockIndex : Nat]

NewDatabase ==
    [validators |-> <<>>,
     pendingDeposits |-> {},
     validatorPubkeyMap |-> [pubkey \in Pubkeys |-> 0],
     executionBlockMap |-> [slot \in Slots |-> NoBlock],
     currentSlot |-> 0,
     highestSlot |-> 0,
     nextExecutionBlockIndex |-> FirstBlock]

-----------------------------------------------------------------------------
(* Validators *)

\* uint64 subtraction and addition.
USub(a, b) == IF a >= b THEN a - b ELSE a + UintMod - b
UAdd(a, b) == IF a + b < UintMod THEN a + b ELSE a + b - UintMod

NewValidator(pubkey, index) ==
    [Pubkey |-> pubkey,
     Index |-> index,
     Balance |-> StartingBalance,
     EffectiveBalance |-> StartingBalance,
     Status |-> "pending_initialized",
     Slashed |-> FALSE]

\* The two hysteresis tests of SetBalance run one after the other, the
\* second on the effective balance the first one left.
EffectiveAfter(effective, balance) ==
    LET lowered == IF balance < USub(effective, DownMargin)
                   THEN USub(effective, 1) ELSE effective
    IN  IF balance > UAdd(lowered, UpMargin)
        THEN UAdd(lowered, 1) ELSE lowered

WithBalance(v, balance) ==
    [v EXCEPT !.Balance = balance,
              !.EffectiveBalance = EffectiveAfter(@, balance)]

Slashable(v) == v.Status \in {"active_ongoing", "active_exiting"}

\* Slash on a validator that passed the status test.
Slashed(v, penalty) ==
    [WithBalance(v, USub(v.Balance, penalty))
        EXCEPT !.Slashed = TRUE, !.Status = "active_slashed"]

-----------------------------------------------------------------------------
(* Database methods *)

HasPubkey(db, pubkey) == db.validatorPubkeyMap[pubkey] # 0

\* AddValidator, when the pubkey is not registered yet.
WithValidator(db, pubkey) ==
    [db EXCEPT
        !.validators = Append(@, NewValidator(pubkey, Len(@))),
        !.validatorPubkeyMap[pubkey] = Len(db.validators) + 1]

\* Mutant: the bound of GetValidatorByIndex is off by one.
PositionPastEnd(db, index) ==
    IF index > Len(db.validators) THEN 0 ELSE index + 1

\* The positions GetValidatorByIndex and GetValidatorByPubkey return; 0 is nil.
PositionByIndex(db, index) ==
    IF index >= Len(db.validators) THEN 0 ELSE index + 1
PositionByPubkey(db, pubkey) == db.validatorPubkeyMap[pubkey]

\* A validated slot is linked to the next execution block.
WithBlock(db, slotValidated) ==
    LET slot == db.currentSlot
        block == db.nextExecutionBlockIndex
    IN  [db EXCEPT
            !.executionBlockMap =
                IF slotValidated THEN [@ EXCEPT ![slot] = block] ELSE @,
            !.nextExecutionBlockIndex = IF slotValidated THEN @ + 1 ELSE @,
            !.currentSlot = slot + 1,
            !.highestSlot = IF slot + 1 > @ THEN slot + 1 ELSE @]

WithHighestSlot(db, slot) ==
    [db EXCEPT !.highestSlot = IF slot > @ THEN slot ELSE @]

WithDeposit(db, deposit) ==
    [db EXCEPT !.pendingDeposits = @ \union {deposit}]

\* The new slice is made with capacity len - 1: no pending deposits, no slice.
RemovePanics(db) == db.pendingDeposits = {}

WithoutDeposit(db, deposit) ==
    [db EXCEPT !.pendingDeposits = @ \ {deposit}]

\* The positions that hold the pubkey, and the one a lookup written in the
\* order of the slice ends up with.
PositionsOf(validators, pubkey) ==
    {i \in 1 .. Len(validators) : validators[i].Pubkey = pubkey}
LastPosition(validators, pubkey) ==
    CHOOSE i \in PositionsOf(validators, pubkey) :
        \A j \in PositionsOf(validators, pubkey) : j <= i

\* Mutant: the clone counts blocks from the first one again.
CloneFromFirstBlock(db) ==
    [db EXCEPT !.pendingDeposits = {}, !.nextExecutionBlockIndex = FirstBlock]

\* Clone copies the validators, rebuilds the lookup from the copies, and
\* copies the slots and the block map.  It starts from a new database and
\* never touches its pendingDeposits.
Clone(db) ==
    [validators |-> db.validators,
     pendingDeposits |-> {},
     validatorPubkeyMap |->
        [pubkey \in Pubkeys |->
            IF PositionsOf(db.validators, pubkey) = {} THEN 0
            ELSE LastPosition(db.validators, pubkey)],
     executionBlockMap |-> db.executionBlockMap,
     currentSlot |-> db.currentSlot,
     highestSlot |-> db.highestSlot,
     nextExecutionBlockIndex |-> db.nextExecutionBlockIndex]

-----------------------------------------------------------------------------
(* What makes one database well formed *)

\* Index, slice and pubkey lookup tell the same story: the validator at a
\* position carries the index of that position, its pubkey leads back to it,
\* and every registered pubkey leads to a validator that carries it.
LookupsAgree(db) ==
    /\ \A i \in 1 .. Len(db.validators) :
          /\ db.validators[i].Index = i - 1
          /\ db.validatorPubkeyMap[db.validators[i].Pubkey] = i
    /\ \A pubkey \in Pubkeys :
          HasPubkey(db, pubkey) =>
             /\ db.validatorPubkeyMap[pubkey] \in 1 .. Len(db.validators)
             /\ db.validators[db.validatorPubkeyMap[pubkey]].Pubkey = pubkey

Linked(db) == {slot \in Slots : db.executionBlockMap[slot] # NoBlock}

\* Only past slots are linked, links follow the order of the slots, and the
\* linked blocks are exactly the ones from FirstBlock up to the next index:
\* no execution block is skipped and none is linked from two slots.
ChainLinked(db) ==
    LET links == db.executionBlockMap
    IN  /\ db.currentSlot <= db.highestSlot
        /\ FirstBlock <= db.nextExecutionBlockIndex
        /\ \A slot \in Linked(db) :
              /\ slot < db.currentSlot
              /\ links[slot] \in FirstBlock .. db.nextExecutionBlockIndex - 1
        /\ \A s, t \in Linked(db) : s < t => links[s] < links[t]
        /\ \A block \in FirstBlock .. db.nextExecutionBlockIndex - 1 :
              \E slot \in Linked(db) : links[slot] = block
=============================================================================

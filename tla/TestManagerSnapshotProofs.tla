---------------------- MODULE TestManagerSnapshotProofs ----------------------
(***************************************************************************)
(* Proofs about what TestManager's snapshots hold: a stored name has a     *)
(* copy of every service from one moment, a revert brings all of them      *)
(* back, and the two chains stay aligned, for any number of snapshots,     *)
(* modules, failing calls, slots and mined blocks.                         *)
(*                                                                         *)
(* A method is a chain of calls, any of which may be its last, so the      *)
(* inductive invariant says at each call what the ones before it have      *)
(* done: Taking for CreateSnapshot, Restoring for RevertSnapshot, Offset   *)
(* for CommitBlock and AdvanceSlots.                                       *)
(***************************************************************************)
EXTENDS TestManagerProofs, BeaconDatabaseProofs

-----------------------------------------------------------------------------
(* Types, and which snapshot a method is about *)

MocksType ==
    /\ Consistent(bn)
    /\ docker \in Contents
    /\ files \in Contents \union {NoValue, PartialCopy}
    /\ modules \in [Instances -> Contents]

StoresType ==
    /\ bnSnaps \in [Names -> Databases \union {NoValue}]
    /\ \A n \in Names : bnSnaps[n] # NoValue => Consistent(bnSnaps[n])
    /\ dockerSnaps \in [Names -> Contents \union {NoValue}]
    /\ fsSnaps \in [Names -> Contents \union {NoValue, PartialCopy}]
    /\ DOMAIN snapshots \subseteq 1 .. created
    /\ \A n \in DOMAIN snapshots :
          snapshots[n] \in [Instances -> Contents \union {NoValue}]

FrameType ==
    /\ interval \in BOOLEAN
    /\ registeredModules \in [ModuleNames -> Instances \union {NoValue}]
    /\ folders \subseteq {"test", "snapshots"}

ControlType ==
    /\ pc \in {"connect", "idle", "failed"} \union CreateCalls
              \union RevertCalls \union ChainCalls
    /\ arg \in 1 .. created
    /\ todo \subseteq ModuleNames
    /\ states \in [Instances -> Contents \union {NoValue}]
    /\ left \in 0 .. MaxAdvance
    /\ amount \in 0 .. MaxAdvance
    /\ closing \in BOOLEAN

OutcomeType ==
    /\ last \in {"none", "create", "revert", "close", "commit", "skip"}
    /\ last # "none" => pc = "idle"
    /\ faults \in 0 .. MaxFaults
    /\ ideal \in [Names -> Worlds \union {NoValue}]
    /\ drifted \subseteq Names
    /\ disturbed \in BOOLEAN
    /\ drifted # {} => disturbed

\* The names under which the services were seen: the stored ones, and the one
\* that is being taken.
Seen(n) == Stored(n) \/ (pc \in AfterCopy /\ n = arg)

\* CreateSnapshot is about a name that is not stored, RevertSnapshot about one
\* that is.
AboutNew ==
    /\ pc \in {"connect", "evm_snapshot"} \union AfterCopy => ~Stored(arg)
    /\ pc \in RevertCalls => Stored(arg)
    /\ \A n \in Names : Seen(n) => ideal[n] \in Worlds

TInv == MocksType /\ StoresType /\ FrameType /\ ControlType /\ OutcomeType /\ AboutNew

-----------------------------------------------------------------------------
(* Snapshots *)

\* What CreateSnapshot has copied, call by call, is what was there when
\* Hardhat's copy was taken: nothing else runs that could change it.
Taking ==
    pc \in AfterCopy =>
        /\ hardhatSnapshotMap[arg] # 0
        /\ bn = ideal[arg].bn /\ docker = ideal[arg].docker
        /\ files = ideal[arg].files /\ modules = ideal[arg].modules
        /\ pc # "bn_take" => bnSnaps[arg] = Clone(ideal[arg].bn)
        /\ pc \in {"fs_take", "modules_take"} => dockerSnaps[arg] = ideal[arg].docker
        /\ pc = "modules_take" =>
              /\ fsSnaps[arg] = ideal[arg].files
              /\ \A i \in Instances : states[i] \in {NoValue, ideal[arg].modules[i]}

\* The module of a name is as the snapshot has it, when the snapshot has it.
ModuleRestored(m) ==
    LET i == registeredModules[m]
    IN  i # NoValue /\ snapshots[arg][i] # NoValue => modules[i] = ideal[arg].modules[i]

\* What RevertSnapshot has restored, call by call.
Restoring ==
    /\ pc \in RevertCalls \ {"evm_revert"} /\ arg \notin drifted
          => Told(el) = Told(ideal[arg].el)
    /\ pc \in {"docker_revert", "fs_revert", "modules_revert", "fs_close"}
          => bn = Clone(ideal[arg].bn)
    /\ pc \in {"fs_revert", "modules_revert", "fs_close"} => docker = ideal[arg].docker
    /\ pc \in {"modules_revert", "fs_close"} =>
          /\ files = ideal[arg].files
          /\ \A m \in ModuleNames \ todo : ModuleRestored(m)
    /\ pc = "fs_close" => todo = {}

SInv == StoredIsComplete /\ Taking /\ Restoring /\ RevertRestores

-----------------------------------------------------------------------------
(* The two chains *)

\* A chain whose clock lags a database by so many slots, and has so many
\* blocks more than the database knows of.
Offset(chain, db, slots, blocks) ==
    /\ chain.offset + slots = db.currentSlot
    /\ chain.block = db.nextExecutionBlockIndex + chain.sent + chain.auto + blocks

Aligned(chain, db) == Offset(chain, db, 0, 0)

SeenAligned == \A n \in Names : Seen(n) => Aligned(ideal[n].el, ideal[n].bn)

\* The chains in the snapshots, and at each call.  While a snapshot is being
\* reverted they are what Restoring says.
AInv ==
    ~disturbed =>
        /\ SeenAligned
        /\ pc \in {"connect", "idle", "evm_snapshot", "evm_revert", "evm_mine"}
                  \union AfterCopy => Aligned(el, bn)
        /\ pc = "evm_increaseTime" => Offset(el, bn, 0, 1)
        /\ pc = "bn_commit" => Offset(el, bn, -1, 1)
        /\ pc = "bn_skip" => Offset(el, bn, amount - left, 0)
        /\ pc = "evm_increaseTimeAll" => Offset(el, bn, amount, 0)

-----------------------------------------------------------------------------
(* Types: which actions change what, and to what *)

LEMMA InitTInv == Init => TInv
<1> SUFFICES ASSUME Init PROVE TInv
  OBVIOUS
<1>1. MocksType
  BY NewGood, ContentAssumption DEF Init, MocksType, Good, Consistent
<1>2. StoresType
  BY DEF Init, StoresType
<1>3. FrameType
  BY DEF Init, FrameType
<1>4. ControlType
  <2>1. pc = "connect" /\ todo = {} /\ closing = FALSE /\ left = 0 /\ amount = 0
        /\ arg = 1 /\ created = 1
    BY DEF Init, Baseline
  <2>2. states \in [Instances -> Contents \union {NoValue}]
    BY DEF Init
  <2>3. 0 \in 0 .. MaxAdvance /\ 1 \in 1 .. 1
    BY BoundAssumption
  <2> QED BY <2>1, <2>2, <2>3 DEF ControlType
<1>5. OutcomeType
  <2>1. ideal \in [Names -> Worlds \union {NoValue}]
    BY DEF Init
  <2>2. 0 \in 0 .. MaxFaults
    BY BoundAssumption
  <2> QED BY <2>1, <2>2 DEF Init, OutcomeType
<1>6. AboutNew
  BY DEF Init, AboutNew, Stored, Seen, RevertCalls, AfterCopy
<1> QED BY <1>1, <1>2, <1>3, <1>4, <1>5, <1>6 DEF TInv

\* What the names in the type invariant amount to.
LEMMA Arguments ==
  ASSUME TInv, HInv
  PROVE  /\ arg \in Names /\ created \in Names /\ Baseline \in Names
         /\ created \in Nat /\ 1 .. created \subseteq Names
BY BoundAssumption, BaselineIsName DEF HInv, HardhatType, Names

\* The Beacon mock's database changes by a revert, a slot, a new head, or a
\* validator.
LEMMA BeaconChanges ==
  ASSUME TInv, HInv, [Next]_vars
  PROVE  Consistent(bn')
<1>1. \/ bn' = bn \/ RevertBeacon
      \/ bn' = WithBlock(bn, TRUE) \/ bn' = WithBlock(bn, FALSE)
      \/ \E slot \in Slots : bn' = WithHighestSlot(bn, slot)
      \/ \E pubkey \in Pubkeys : ~HasPubkey(bn, pubkey) /\ bn' = WithValidator(bn, pubkey)
  <2>1. CASE Step
    BY <2>1 DEF Step, Connect, TakeHardhat, TakeBeacon, TakeDocker, TakeFiles, TakeModule,
        StoreSnapshot, RevertHardhat, RetakeHardhat, RevertDocker, RevertFiles,
        RevertModule, EndRevert, CloseFiles, FilesClosed, FilesLeft, MineBlock,
        IncreaseTime, CommitBeacon, SkipSlot, IncreaseTimeAll, mocks
  <2>4. CASE UseBeacon
    BY <2>4, BoundAssumption DEF UseBeacon
  <2>2. CASE Test /\ ~UseBeacon
    BY <2>2 DEF Test, CreateSnapshot, RevertSnapshot, RevertToBaseline, Close,
        BeginRevert, CommitBlock, AdvanceSlots, BeginAdvance, SetMiningInterval,
        SetBeaconHeadSlot, RegisterModule, SendTransaction, UseMocks, mocks
  <2>3. CASE IntervalMine \/ UNCHANGED vars
    BY <2>3 DEF IntervalMine, vars, mocks
  <2> QED BY <2>1, <2>2, <2>3, <2>4 DEF Next
<1>2. Consistent(bn)
  BY DEF TInv, MocksType
<1>3. CASE RevertBeacon
  <2>1. Consistent(bnSnaps[arg]) /\ bn' = Clone(bnSnaps[arg])
    BY <1>3, Arguments DEF RevertBeacon, TInv, StoresType
  <2> QED BY <2>1, CloneIsCopy
<1>4. CASE \E slot \in Slots : bn' = WithHighestSlot(bn, slot)
  BY <1>2, <1>4, HighestConsistent DEF Slots
<1>5. CASE bn' = WithBlock(bn, TRUE) \/ bn' = WithBlock(bn, FALSE)
  BY <1>2, <1>5, BlockConsistent
<1>6. CASE \E pubkey \in Pubkeys :
               ~HasPubkey(bn, pubkey) /\ bn' = WithValidator(bn, pubkey)
  BY <1>2, <1>6, ValidatorConsistent
<1> QED BY <1>1, <1>2, <1>3, <1>4, <1>5, <1>6

LEMMA DockerChanges ==
  ASSUME TInv, HInv, [Next]_vars
  PROVE  docker' \in Contents
<1>1. docker' = docker \/ RevertDocker \/ docker' \in Contents
  <2>1. CASE Step
    BY <2>1 DEF Step, Connect, TakeHardhat, TakeBeacon, TakeDocker, TakeFiles, TakeModule,
        StoreSnapshot, RevertHardhat, RetakeHardhat, RevertBeacon, RevertFiles,
        RevertModule, EndRevert, CloseFiles, FilesClosed, FilesLeft, MineBlock,
        IncreaseTime, CommitBeacon, SkipSlot, IncreaseTimeAll, mocks
  <2>2. CASE Test
    BY <2>2 DEF Test, CreateSnapshot, RevertSnapshot, RevertToBaseline, Close,
        BeginRevert, CommitBlock, AdvanceSlots, BeginAdvance, SetMiningInterval,
        SetBeaconHeadSlot, RegisterModule, SendTransaction, UseBeacon, UseMocks, mocks
  <2>3. CASE IntervalMine \/ UNCHANGED vars
    BY <2>3 DEF IntervalMine, vars, mocks
  <2> QED BY <2>1, <2>2, <2>3 DEF Next
<1> QED BY <1>1, Arguments DEF TInv, MocksType, StoresType, RevertDocker

LEMMA FilesChange ==
  ASSUME TInv, HInv, [Next]_vars
  PROVE  files' \in Contents \union {NoValue, PartialCopy}
<1>1. files' = files \/ RevertFiles \/ files' \in Contents \union {NoValue, PartialCopy}
  <2>1. CASE Step
    BY <2>1 DEF Step, Connect, TakeHardhat, TakeBeacon, TakeDocker, TakeFiles, TakeModule,
        StoreSnapshot, RevertHardhat, RetakeHardhat, RevertBeacon, RevertDocker,
        RevertModule, EndRevert, CloseFiles, FilesClosed, FilesLeft, MineBlock,
        IncreaseTime, CommitBeacon, SkipSlot, IncreaseTimeAll, mocks
  <2>2. CASE Test
    BY <2>2 DEF Test, CreateSnapshot, RevertSnapshot, RevertToBaseline, Close,
        BeginRevert, CommitBlock, AdvanceSlots, BeginAdvance, SetMiningInterval,
        SetBeaconHeadSlot, RegisterModule, SendTransaction, UseBeacon, UseMocks, mocks
  <2>3. CASE IntervalMine \/ UNCHANGED vars
    BY <2>3 DEF IntervalMine, vars, mocks
  <2> QED BY <2>1, <2>2, <2>3 DEF Next
<1> QED BY <1>1, Arguments DEF TInv, MocksType, StoresType, RevertFiles

LEMMA ModulesChange ==
  ASSUME TInv, HInv, [Next]_vars
  PROVE  modules' \in [Instances -> Contents]
<1>0. modules \in [Instances -> Contents]
  BY DEF TInv, MocksType
<1>1. \/ modules' = modules \/ RevertModule
      \/ \E i \in Instances, c \in Contents : modules' = [modules EXCEPT ![i] = c]
  <2>1. CASE Step
    BY <2>1 DEF Step, Connect, TakeHardhat, TakeBeacon, TakeDocker, TakeFiles, TakeModule,
        StoreSnapshot, RevertHardhat, RetakeHardhat, RevertBeacon, RevertDocker,
        RevertFiles, EndRevert, CloseFiles, FilesClosed, FilesLeft, MineBlock,
        IncreaseTime, CommitBeacon, SkipSlot, IncreaseTimeAll, mocks
  <2>2. CASE Test
    BY <2>2 DEF Test, CreateSnapshot, RevertSnapshot, RevertToBaseline, Close,
        BeginRevert, CommitBlock, AdvanceSlots, BeginAdvance, SetMiningInterval,
        SetBeaconHeadSlot, RegisterModule, SendTransaction, UseBeacon, UseMocks, mocks
  <2>3. CASE IntervalMine \/ UNCHANGED vars
    BY <2>3 DEF IntervalMine, vars, mocks
  <2> QED BY <2>1, <2>2, <2>3 DEF Next
<1>2. CASE RevertModule
  <2>1. PICK i : \/ modules' = modules
                 \/ modules' = [modules EXCEPT ![i] = snapshots[arg][i]]
                    /\ snapshots[arg][i] # NoValue
    BY <1>2 DEF RevertModule
  <2>2. CASE i \in Instances /\ Stored(arg)
    <3>1. snapshots[arg][i] \in Contents \union {NoValue}
      BY <2>2 DEF TInv, StoresType, Stored
    <3> QED BY <1>0, <2>1, <3>1
  <2>3. CASE i \notin Instances
    BY <1>0, <2>1, <2>3
  <2>4. Stored(arg)
    BY <1>2 DEF RevertModule, TInv, AboutNew, RevertCalls
  <2> QED BY <2>2, <2>3, <2>4
<1> QED BY <1>0, <1>1, <1>2

\* Each map has one action that writes it.
LEMMA StoreWriters ==
  ASSUME [Next]_vars
  PROVE  /\ bnSnaps' = bnSnaps \/ TakeBeacon
         /\ dockerSnaps' = dockerSnaps \/ TakeDocker
         /\ fsSnaps' = fsSnaps \/ TakeFiles
         /\ snapshots' = snapshots \/ StoreSnapshot
         /\ ideal' = ideal \/ TakeHardhat
         /\ created' = created \/ CreateSnapshot
<1>1. CASE Step
  BY <1>1 DEF Step, Connect, TakeHardhat, TakeBeacon, TakeDocker, TakeFiles, TakeModule,
      StoreSnapshot, RevertHardhat, RetakeHardhat, RevertBeacon, RevertDocker,
      RevertFiles, RevertModule, EndRevert, CloseFiles, FilesClosed, FilesLeft,
      MineBlock, IncreaseTime, CommitBeacon, SkipSlot, IncreaseTimeAll, stores, frame
<1>2. CASE Test
  BY <1>2 DEF Test, CreateSnapshot, RevertSnapshot, RevertToBaseline, Close,
      BeginRevert, CommitBlock, AdvanceSlots, BeginAdvance, SetMiningInterval,
      SetBeaconHeadSlot, RegisterModule, SendTransaction, UseBeacon, UseMocks, stores, frame
<1>3. CASE IntervalMine \/ UNCHANGED vars
  BY <1>3 DEF IntervalMine, vars, stores, frame, history
<1> QED BY <1>1, <1>2, <1>3 DEF Next

LEMMA StoresKeepType ==
  ASSUME TInv, HInv, [Next]_vars
  PROVE  StoresType'
<1>1. /\ bnSnaps \in [Names -> Databases \union {NoValue}]
      /\ \A n \in Names : bnSnaps[n] # NoValue => Consistent(bnSnaps[n])
      /\ dockerSnaps \in [Names -> Contents \union {NoValue}]
      /\ fsSnaps \in [Names -> Contents \union {NoValue, PartialCopy}]
      /\ DOMAIN snapshots \subseteq 1 .. created
      /\ \A n \in DOMAIN snapshots :
            snapshots[n] \in [Instances -> Contents \union {NoValue}]
      /\ MocksType /\ ControlType
  BY DEF TInv, StoresType
<1>2. /\ bnSnaps' \in [Names -> Databases \union {NoValue}]
      /\ \A n \in Names : bnSnaps'[n] # NoValue => Consistent(bnSnaps'[n])
  <2>1. CASE TakeBeacon
    <3>1. Consistent(Clone(bn)) /\ bnSnaps' = [bnSnaps EXCEPT ![arg] = Clone(bn)]
      BY <1>1, <2>1, CloneIsCopy DEF TakeBeacon, MocksType
    <3>2. Clone(bn) \in Databases
      BY <3>1 DEF Consistent
    <3> QED BY <1>1, <3>1, <3>2
  <2> QED BY <1>1, <2>1, StoreWriters
<1>3. dockerSnaps' \in [Names -> Contents \union {NoValue}]
  BY <1>1, StoreWriters DEF TakeDocker, MocksType
<1>4. fsSnaps' \in [Names -> Contents \union {NoValue, PartialCopy}]
  BY <1>1, StoreWriters DEF TakeFiles, MocksType
<1>5. created' \in Nat /\ created <= created'
  BY StoreWriters, Arguments DEF CreateSnapshot
<1>6. /\ DOMAIN snapshots' \subseteq 1 .. created'
      /\ \A n \in DOMAIN snapshots' :
            snapshots'[n] \in [Instances -> Contents \union {NoValue}]
  <2>1. 1 .. created \subseteq 1 .. created'
    BY <1>5, Arguments
  <2>2. CASE StoreSnapshot
    <3>1. /\ arg \in 1 .. created /\ states \in [Instances -> Contents \union {NoValue}]
      BY <1>1 DEF ControlType
    <3>2. snapshots' = [n \in DOMAIN snapshots \union {arg} |->
                          IF n = arg THEN states ELSE snapshots[n]]
      BY <2>2 DEF StoreSnapshot
    <3> QED BY <1>1, <2>1, <3>1, <3>2
  <2> QED BY <1>1, <2>1, <2>2, StoreWriters
<1> QED BY <1>2, <1>3, <1>4, <1>6 DEF StoresType

LEMMA FrameKeepsType ==
  ASSUME TInv, [Next]_vars
  PROVE  FrameType'
<1>1. /\ interval \in BOOLEAN
      /\ registeredModules \in [ModuleNames -> Instances \union {NoValue}]
      /\ folders \subseteq {"test", "snapshots"}
  BY DEF TInv, FrameType
<1>2. CASE Step
  <2>1. /\ interval' = interval /\ registeredModules' = registeredModules
        /\ folders' \in {folders, {}, {"snapshots"}}
    BY <1>2 DEF Step, Connect, TakeHardhat, TakeBeacon, TakeDocker, TakeFiles, TakeModule,
        StoreSnapshot, RevertHardhat, RetakeHardhat, RevertBeacon, RevertDocker,
        RevertFiles, RevertModule, EndRevert, CloseFiles, FilesClosed, FilesLeft,
        MineBlock, IncreaseTime, CommitBeacon, SkipSlot, IncreaseTimeAll, frame
  <2> QED BY <1>1, <2>1 DEF FrameType
<1>3. CASE Test
  <2>1. /\ interval' \in BOOLEAN /\ folders' = folders
        /\ \/ registeredModules' = registeredModules
           \/ \E i \in Instances : registeredModules' = [registeredModules EXCEPT ![i[1]] = i]
    BY <1>1, <1>3 DEF Test, CreateSnapshot, RevertSnapshot, RevertToBaseline, Close,
        BeginRevert, CommitBlock, AdvanceSlots, BeginAdvance, SetMiningInterval,
        SetBeaconHeadSlot, RegisterModule, SendTransaction, UseBeacon, UseMocks, frame
  <2> QED BY <1>1, <2>1 DEF FrameType
<1>4. CASE IntervalMine \/ UNCHANGED vars
  BY <1>1, <1>4 DEF IntervalMine, vars, frame, FrameType
<1> QED BY <1>2, <1>3, <1>4 DEF Next

\* How a call ends, with what it leaves of the counts and flags.
LEMMA CallEnds ==
  ASSUME TInv, Step
  PROVE  /\ pc # "idle" /\ pc # "failed"
         /\ pc' \in {"idle", "failed"} \union CreateCalls \union RevertCalls
                    \union ChainCalls
         /\ last' \in {"none", "create", "revert", "close", "commit", "skip"}
         /\ last' # "none" => pc' = "idle"
         /\ faults' \in 0 .. MaxFaults
         /\ disturbed' \in BOOLEAN /\ (disturbed => disturbed')
<1>1. /\ faults \in 0 .. MaxFaults /\ disturbed \in BOOLEAN
      /\ last \in {"none", "create", "revert", "close", "commit", "skip"}
      /\ last # "none" => pc = "idle"
      /\ \A call \in CreateCalls \union RevertCalls \union ChainCalls \union {"connect"} :
            call # "idle" /\ call # "failed"
  BY DEF TInv, OutcomeType, CreateCalls, RevertCalls, ChainCalls
<1>2. pc \in CreateCalls \union RevertCalls \union ChainCalls \union {"connect"}
  BY DEF Step, Connect, TakeHardhat, TakeBeacon, TakeDocker, TakeFiles, TakeModule,
      StoreSnapshot, RevertHardhat, RetakeHardhat, RevertBeacon, RevertDocker,
      RevertFiles, RevertModule, EndRevert, CloseFiles, FilesClosed, FilesLeft,
      MineBlock, IncreaseTime,
      CommitBeacon, SkipSlot, IncreaseTimeAll, CreateCalls, RevertCalls, ChainCalls
<1>3. last = "none"
  BY <1>1, <1>2
<1>4. \/ \E call \in CreateCalls \union RevertCalls \union ChainCalls : Goto(call)
      \/ \E method \in {"create", "revert", "close", "commit", "skip"} : Return(method)
      \/ Fail \/ Refuse
      \/ pc' = "evm_resnapshot" /\ (disturbed' = TRUE \/ disturbed' = disturbed)
            /\ UNCHANGED <<last, faults>>
  BY <1>1 DEF Step, Connect, TakeHardhat, TakeBeacon, TakeDocker, TakeFiles, TakeModule,
      StoreSnapshot, RevertHardhat, RetakeHardhat, RevertBeacon, RevertDocker,
      RevertFiles, RevertModule, EndRevert, CloseFiles, FilesClosed, FilesLeft,
      MineBlock, IncreaseTime,
      CommitBeacon, SkipSlot, IncreaseTimeAll, CreateCalls, RevertCalls, ChainCalls
<1>5. CASE \E call \in CreateCalls \union RevertCalls \union ChainCalls : Goto(call)
  BY <1>1, <1>2, <1>3, <1>5 DEF Goto
<1>6. CASE \E method \in {"create", "revert", "close", "commit", "skip"} : Return(method)
  BY <1>1, <1>2, <1>6 DEF Return
<1>7. CASE Fail
  <2>1. faults + 1 \in 0 .. MaxFaults
    BY <1>1, <1>7, BoundAssumption DEF Fail
  <2> QED BY <1>1, <1>2, <1>7, <2>1 DEF Fail, ReturnError
<1>8. CASE Refuse
  BY <1>1, <1>2, <1>8 DEF Refuse, ReturnError
<1>9. CASE pc' = "evm_resnapshot" /\ (disturbed' = TRUE \/ disturbed' = disturbed)
             /\ UNCHANGED <<last, faults>>
  BY <1>1, <1>2, <1>3, <1>9 DEF RevertCalls
<1> QED BY <1>4, <1>5, <1>6, <1>7, <1>8, <1>9

\* What the test does begins when no method is running.
LEMMA TestBegins ==
  ASSUME TInv, Test
  PROVE  /\ pc = "idle" /\ last' = "none"
         /\ pc' \in {"idle", "failed", "evm_snapshot", "evm_revert", "evm_mine", "bn_skip"}
         /\ faults' \in 0 .. MaxFaults
         /\ disturbed' \in BOOLEAN /\ (disturbed => disturbed')
         /\ UNCHANGED <<stores, ideal, drifted>>
<1>1. faults \in 0 .. MaxFaults /\ disturbed \in BOOLEAN
  BY DEF TInv, OutcomeType
<1>2. /\ pc = "idle"
      /\ \/ \E call \in {"idle", "evm_snapshot", "evm_revert", "evm_mine", "bn_skip"} :
               Begin(call)
         \/ Fail
         \/ UseBeacon
  BY DEF Test, CreateSnapshot, RevertSnapshot, RevertToBaseline, Close, BeginRevert,
      CommitBlock, AdvanceSlots, BeginAdvance, SetMiningInterval, SetBeaconHeadSlot,
      RegisterModule, SendTransaction, UseMocks, UseBeacon, Begin, Idle
<1>3. UNCHANGED <<stores, ideal, drifted>>
  BY DEF Test, CreateSnapshot, RevertSnapshot, RevertToBaseline, Close, BeginRevert,
      CommitBlock, AdvanceSlots, BeginAdvance, SetMiningInterval, SetBeaconHeadSlot,
      RegisterModule, SendTransaction, UseBeacon, UseMocks
<1>4. CASE Fail
  <2>1. faults + 1 \in 0 .. MaxFaults
    BY <1>1, <1>4, BoundAssumption DEF Fail
  <2> QED BY <1>1, <1>2, <1>3, <1>4, <2>1 DEF Fail, ReturnError
<1>5. CASE \E call \in {"idle", "evm_snapshot", "evm_revert", "evm_mine", "bn_skip"} :
               Begin(call)
  BY <1>1, <1>2, <1>3, <1>5 DEF Begin
<1>6. CASE UseBeacon
  <2>1. pc' = pc /\ last' = "none" /\ faults' = faults
    BY <1>6 DEF UseBeacon
  <2>2. disturbed' = disturbed \/ disturbed' = TRUE
    BY <1>6 DEF UseBeacon
  <2> QED BY <1>1, <1>2, <1>3, <2>1, <2>2
<1> QED BY <1>2, <1>4, <1>5, <1>6

\* What a running method's step does to its variables.
LEMMA StepControl ==
  ASSUME TInv, Step
  PROVE  /\ arg' = arg /\ closing' = closing /\ amount' = amount /\ created' = created
         /\ registeredModules' = registeredModules
         /\ left' = left \/ (left' = left - 1 /\ left > 0)
         /\ todo' \subseteq ModuleNames
         /\ states' \in [Instances -> Contents \union {NoValue}]
<1>1. /\ todo \subseteq ModuleNames /\ left \in 0 .. MaxAdvance
      /\ states \in [Instances -> Contents \union {NoValue}]
      /\ modules \in [Instances -> Contents]
  BY DEF TInv, ControlType, MocksType
<1>2. /\ arg' = arg /\ closing' = closing /\ amount' = amount /\ created' = created
      /\ registeredModules' = registeredModules
  BY DEF Step, Connect, TakeHardhat, TakeBeacon, TakeDocker, TakeFiles, TakeModule,
      StoreSnapshot, RevertHardhat, RetakeHardhat, RevertBeacon, RevertDocker,
      RevertFiles, RevertModule, EndRevert, CloseFiles, FilesClosed, FilesLeft,
      MineBlock, IncreaseTime, CommitBeacon, SkipSlot, IncreaseTimeAll, control, frame
<1>3. left' = left \/ (left' = left - 1 /\ left > 0)
  <2>1. CASE CommitBeacon \/ SkipSlot
    <3>1. left \in Nat
      BY <1>1, BoundAssumption
    <3>2. CASE CommitBeacon
      BY <3>1, <3>2 DEF CommitBeacon
    <3>3. CASE SkipSlot
      BY <3>1, <3>3 DEF SkipSlot
    <3> QED BY <2>1, <3>2, <3>3
  <2>2. ~CommitBeacon /\ ~SkipSlot => left' = left
    BY DEF Step, Connect, TakeHardhat, TakeBeacon, TakeDocker, TakeFiles, TakeModule,
        StoreSnapshot, RevertHardhat, RetakeHardhat, RevertBeacon, RevertDocker,
        RevertFiles, RevertModule, EndRevert, CloseFiles, FilesClosed, FilesLeft,
        MineBlock, IncreaseTime, IncreaseTimeAll, control
  <2> QED BY <2>1, <2>2
<1>4. todo' \subseteq ModuleNames
  BY <1>1 DEF Step, Connect, TakeHardhat, TakeBeacon, TakeDocker, TakeFiles, TakeModule,
      StoreSnapshot, RevertHardhat, RetakeHardhat, RevertBeacon, RevertDocker,
      RevertFiles, RevertModule, EndRevert, CloseFiles, FilesClosed, FilesLeft,
      MineBlock, IncreaseTime, CommitBeacon, SkipSlot, IncreaseTimeAll, control
<1>5. states' \in [Instances -> Contents \union {NoValue}]
  <2>1. \/ states' = states \/ states' = [i \in Instances |-> NoValue]
        \/ \E i : states' = [states EXCEPT ![i] = modules[i]]
    BY DEF Step, Connect, TakeHardhat, TakeBeacon, TakeDocker, TakeFiles, TakeModule,
        StoreSnapshot, RevertHardhat, RetakeHardhat, RevertBeacon, RevertDocker,
        RevertFiles, RevertModule, EndRevert, CloseFiles, FilesClosed, FilesLeft,
        MineBlock, IncreaseTime, CommitBeacon, SkipSlot, IncreaseTimeAll, control
  <2>2. ASSUME NEW i PROVE [states EXCEPT ![i] = modules[i]]
                              \in [Instances -> Contents \union {NoValue}]
    <3>1. CASE i \in Instances
      BY <1>1, <3>1
    <3>2. CASE i \notin Instances
      BY <1>1, <3>2
    <3> QED BY <3>1, <3>2
  <2> QED BY <1>1, <2>1, <2>2
<1> QED BY <1>2, <1>3, <1>4, <1>5

LEMMA ControlKeepsType ==
  ASSUME TInv, HInv, [Next]_vars
  PROVE  ControlType'
<1>1. /\ ControlType /\ created \in Nat /\ 1 <= created
  BY Arguments DEF TInv, ControlType, HInv, HardhatType, Names
<1>2. CASE Step
  <2>1. left' \in 0 .. MaxAdvance
    BY <1>1, <1>2, StepControl, BoundAssumption DEF ControlType
  <2>2. pc' \in {"connect", "idle", "failed"} \union CreateCalls \union RevertCalls
                \union ChainCalls
    BY <1>2, CallEnds
  <2> QED BY <1>1, <1>2, <2>1, <2>2, StepControl DEF ControlType
<1>3. CASE Test
  <2>1. pc' \in {"connect", "idle", "failed"} \union CreateCalls \union RevertCalls
                \union ChainCalls
    BY <1>3, TestBegins DEF CreateCalls, RevertCalls, ChainCalls
  <2>2. /\ todo' = todo /\ states' = states /\ closing' \in BOOLEAN
        /\ \/ created' = created + 1 /\ arg' = created + 1
           \/ created' = created /\ (arg' = arg \/ arg' \in DOMAIN snapshots)
    BY <1>1, <1>3 DEF Test, CreateSnapshot, RevertSnapshot, RevertToBaseline, Close,
        BeginRevert, CommitBlock, AdvanceSlots, BeginAdvance, SetMiningInterval,
        SetBeaconHeadSlot, RegisterModule, SendTransaction, UseBeacon, UseMocks,
        frame, control, Stored, ControlType
  <2>3. arg' \in 1 .. created'
    BY <1>1, <2>2 DEF ControlType, TInv, StoresType
  <2>4. \/ left' = left /\ amount' = amount
        \/ \E slots \in 0 .. MaxAdvance : left' = slots /\ amount' = slots
    <3>1. 1 \in 0 .. MaxAdvance
      BY BoundAssumption
    <3> QED BY <1>3, <3>1 DEF Test, CreateSnapshot, RevertSnapshot, RevertToBaseline,
        Close, BeginRevert, CommitBlock, AdvanceSlots, BeginAdvance, SetMiningInterval,
        SetBeaconHeadSlot, RegisterModule, SendTransaction, UseBeacon, UseMocks, control
  <2> QED BY <1>1, <2>1, <2>2, <2>3, <2>4 DEF ControlType
<1>4. CASE IntervalMine \/ UNCHANGED vars
  BY <1>1, <1>4 DEF IntervalMine, vars, control, frame, ControlType
<1> QED BY <1>2, <1>3, <1>4 DEF Next

LEMMA WorldType ==
  ASSUME TInv, HInv
  PROVE  World \in Worlds
BY DEF TInv, MocksType, HInv, HardhatType, World, Worlds, Consistent

LEMMA OutcomeKeepsType ==
  ASSUME TInv, HInv, [Next]_vars
  PROVE  OutcomeType'
<1>1. OutcomeType
  BY DEF TInv
<1>2. ideal' \in [Names -> Worlds \union {NoValue}]
  BY <1>1, StoreWriters, WorldType DEF OutcomeType, TakeHardhat
<1>3. CASE Step
  <2>1. \/ drifted' = drifted
        \/ drifted' \in {drifted, drifted \union {arg}}
             /\ (drifted' # drifted => disturbed')
    BY <1>3 DEF Step, Connect, TakeHardhat, TakeBeacon, TakeDocker, TakeFiles, TakeModule,
        StoreSnapshot, RevertHardhat, RetakeHardhat, RevertBeacon, RevertDocker,
        RevertFiles, RevertModule, EndRevert, CloseFiles, FilesClosed, FilesLeft,
        MineBlock, IncreaseTime, CommitBeacon, SkipSlot, IncreaseTimeAll
  <2>2. drifted' \subseteq Names /\ (drifted' # {} => disturbed')
    BY <1>1, <1>3, <2>1, CallEnds, Arguments DEF OutcomeType
  <2> QED BY <1>1, <1>2, <1>3, <2>2, CallEnds DEF OutcomeType
<1>4. CASE Test
  BY <1>1, <1>2, <1>4, TestBegins DEF OutcomeType
<1>5. CASE IntervalMine \/ UNCHANGED vars
  BY <1>1, <1>5 DEF IntervalMine, vars, history, OutcomeType
<1> QED BY <1>2, <1>3, <1>4, <1>5 DEF Next

LEMMA AboutKeeps ==
  ASSUME TInv, HInv, [Next]_vars
  PROVE  AboutNew'
<1>1. /\ AboutNew /\ arg \in Names
      /\ {"connect", "evm_snapshot"} \intersect AfterCopy = {}
      /\ ({"connect", "evm_snapshot"} \union AfterCopy) \intersect RevertCalls = {}
      /\ {"idle", "failed"} \intersect (RevertCalls \union AfterCopy) = {}
  BY Arguments DEF TInv, AfterCopy, RevertCalls
<1>2. CASE Connect \/ TakeHardhat \/ TakeBeacon \/ TakeDocker \/ TakeFiles \/ TakeModule
  <2>1. /\ arg' = arg /\ snapshots' = snapshots
        /\ pc \in {"connect", "evm_snapshot"} \union AfterCopy
        /\ pc' \in {"evm_snapshot", "idle", "failed"} \union AfterCopy
    BY <1>2 DEF Connect, TakeHardhat, TakeBeacon, TakeDocker, TakeFiles, TakeModule,
        Goto, Fail, Refuse, ReturnError, stores, control, AfterCopy
  <2>2. CASE TakeHardhat /\ pc' = "bn_take"
    <3>1. ideal' = [ideal EXCEPT ![arg] = World]
      BY <2>2 DEF TakeHardhat, Fail, ReturnError
    <3>2. ideal'[arg] \in Worlds /\ \A n \in Names \ {arg} : ideal'[n] = ideal[n]
      BY <1>1, <3>1, WorldType DEF TInv, OutcomeType
    <3> QED BY <1>1, <2>1, <2>2, <3>2 DEF AboutNew, Seen, Stored
  <2>3. CASE ideal' = ideal /\ (pc' \in AfterCopy => pc \in AfterCopy)
    BY <1>1, <2>1, <2>3 DEF AboutNew, Seen, Stored
  <2>4. \/ TakeHardhat /\ pc' = "bn_take"
        \/ ideal' = ideal /\ (pc' \in AfterCopy => pc \in AfterCopy)
    BY <1>2 DEF Connect, TakeHardhat, TakeBeacon, TakeDocker, TakeFiles, TakeModule,
        Goto, Fail, ReturnError, AfterCopy
  <2> QED BY <2>2, <2>3, <2>4
<1>3. CASE StoreSnapshot
  <2>1. /\ arg' = arg /\ DOMAIN snapshots' = DOMAIN snapshots \union {arg}
        /\ pc = "modules_take" /\ pc' = "idle" /\ ideal' = ideal
    BY <1>3 DEF StoreSnapshot, Return, control
  <2> QED BY <1>1, <2>1 DEF AboutNew, Seen, Stored, AfterCopy
<1>4. CASE \/ RevertHardhat \/ RetakeHardhat \/ RevertBeacon \/ RevertDocker
           \/ RevertFiles \/ RevertModule \/ EndRevert \/ CloseFiles
  <2>1. /\ arg' = arg /\ snapshots' = snapshots /\ ideal' = ideal
        /\ pc \in RevertCalls /\ pc' \in {"idle", "failed"} \union RevertCalls
    BY <1>4 DEF RevertHardhat, RetakeHardhat, RevertBeacon, RevertDocker, RevertFiles,
        RevertModule, EndRevert, CloseFiles, FilesClosed, FilesLeft, Goto, Return,
        Fail, Refuse, ReturnError, stores, control, RevertCalls
  <2> QED BY <1>1, <2>1 DEF AboutNew, Seen, Stored
<1>5. CASE MineBlock \/ IncreaseTime \/ CommitBeacon \/ SkipSlot \/ IncreaseTimeAll
  <2>1. /\ snapshots' = snapshots /\ ideal' = ideal
        /\ pc' \in {"idle", "failed"} \union ChainCalls
    BY <1>5 DEF MineBlock, IncreaseTime, CommitBeacon, SkipSlot, IncreaseTimeAll,
        Goto, Return, Fail, ReturnError, stores, ChainCalls
  <2>2. pc' \notin {"connect", "evm_snapshot"} \union AfterCopy \union RevertCalls
    BY <2>1 DEF ChainCalls, AfterCopy, RevertCalls
  <2> QED BY <1>1, <2>1, <2>2 DEF AboutNew, Seen, Stored
<1>6. CASE Test
  <2>1. snapshots' = snapshots /\ ideal' = ideal /\ pc = "idle" /\ pc' \notin AfterCopy
    BY <1>6, TestBegins DEF stores, AfterCopy
  <2>2. pc' = "evm_snapshot" => CreateSnapshot
    BY <1>6 DEF Test, RevertSnapshot, RevertToBaseline, Close, BeginRevert,
        CommitBlock, AdvanceSlots, BeginAdvance, SetMiningInterval, SetBeaconHeadSlot,
        RegisterModule, SendTransaction, UseBeacon, UseMocks, Idle, Begin, Fail, ReturnError
  <2>3. pc' \in RevertCalls => \E n, byClose : BeginRevert(n, byClose)
    BY <1>6 DEF Test, CreateSnapshot, RevertSnapshot, RevertToBaseline, Close,
        CommitBlock, AdvanceSlots, BeginAdvance, SetMiningInterval, SetBeaconHeadSlot,
        RegisterModule, SendTransaction, UseBeacon, UseMocks, Idle, Begin, Fail,
        ReturnError, RevertCalls
  <2>4. CreateSnapshot => arg' \notin DOMAIN snapshots
    BY Arguments DEF CreateSnapshot, TInv, StoresType
  <2>5. \A n, byClose : BeginRevert(n, byClose) => arg' \in DOMAIN snapshots
    BY DEF BeginRevert, Stored
  <2>6. pc' # "connect"
    BY <1>6, TestBegins
  <2> QED BY <1>1, <2>1, <2>2, <2>3, <2>4, <2>5, <2>6 DEF AboutNew, Seen, Stored
<1>7. CASE IntervalMine \/ UNCHANGED vars
  BY <1>1, <1>7 DEF IntervalMine, vars, stores, control, history, AboutNew, Seen, Stored
<1> QED BY <1>2, <1>3, <1>4, <1>5, <1>6, <1>7 DEF Next, Step

LEMMA NextTInv == TInv /\ HInv /\ [Next]_vars => TInv'
<1> SUFFICES ASSUME TInv, HInv, [Next]_vars PROVE TInv'
  OBVIOUS
<1>1. MocksType'
  BY BeaconChanges, DockerChanges, FilesChange, ModulesChange DEF MocksType
<1> QED BY <1>1, StoresKeepType, FrameKeepsType, ControlKeepsType, OutcomeKeepsType,
           AboutKeeps DEF TInv

THEOREM TypeInvariance == Spec => [](TInv /\ HInv)
<1> QED BY InitTInv, NextTInv, HardhatInvariance, PTL DEF Spec

\* Every variable keeps its type: in particular what the snapshot maps, the
\* running method and the history hold at every one of its calls
\* (test-manager.go).
THEOREM TypeCorrect == Spec => []TypeOK
<1>1. TInv /\ HInv => TypeOK
  <2> SUFFICES ASSUME TInv, HInv PROVE TypeOK
    OBVIOUS
  <2>1. World \in Worlds
    BY WorldType
  <2>2. /\ el \in Chains /\ saved \in Seq(Chains) /\ live \subseteq 1 .. Len(saved)
        /\ hardhatSnapshotMap \in [Names -> 0 .. Len(saved)]
        /\ created \in Names /\ lost \in BOOLEAN
    BY DEF HInv, HardhatType
  <2>3. DOMAIN snapshots \subseteq Names
    BY Arguments DEF TInv, StoresType
  <2>4. /\ bnSnaps \in [Names -> Databases \union {NoValue}]
        /\ dockerSnaps \in [Names -> Contents \union {NoValue}]
        /\ fsSnaps \in [Names -> Contents \union {NoValue, PartialCopy}]
        /\ \A n \in DOMAIN snapshots :
              snapshots[n] \in [Instances -> Contents \union {NoValue}]
    BY DEF TInv, StoresType
  <2>5. FrameType /\ ControlType /\ OutcomeType
    BY DEF TInv
  <2> QED BY <2>1, <2>2, <2>3, <2>4, <2>5 DEF FrameType, ControlType, OutcomeType, TypeOK
<1> QED BY <1>1, TypeInvariance, PTL

-----------------------------------------------------------------------------
(* What snapshots hold *)

Invariants == TInv /\ HInv /\ SInv

LEMMA InitSInv == Init => SInv
BY DEF Init, SInv, StoredIsComplete, Stored, Taking, Restoring, RevertRestores,
       AfterCopy, RevertCalls

\* The classes of calls do not overlap.
LEMMA Calls ==
  /\ AfterCopy \intersect RevertCalls = {}
  /\ \A call \in AfterCopy \union RevertCalls \union ChainCalls :
        call \notin {"connect", "idle", "failed", "evm_snapshot"}
  /\ ChainCalls \intersect (AfterCopy \union RevertCalls) = {}
BY DEF AfterCopy, RevertCalls, ChainCalls

\* Outside the two methods there is nothing to say of the method.
LEMMA QuietSInv ==
  ASSUME SInv, UNCHANGED <<stores, ideal>>,
         pc' \notin AfterCopy \union (RevertCalls \ {"evm_revert"}),
         last' \notin {"revert", "close"}
  PROVE  SInv'
<1>1. StoredIsComplete'
  BY DEF SInv, StoredIsComplete, Stored, stores
<1>2. Taking' /\ RevertRestores'
  BY DEF Taking, RevertRestores
<1>3. Restoring'
  BY DEF Restoring, RevertCalls
<1> QED BY <1>1, <1>2, <1>3 DEF SInv

\* Taking a copy under a name that is not stored changes no stored name.
LEMMA StoredStays ==
  ASSUME StoredIsComplete, ~Stored(arg), snapshots' = snapshots,
         \A n \in Names \ {arg} : /\ hardhatSnapshotMap'[n] = hardhatSnapshotMap[n]
                                  /\ bnSnaps'[n] = bnSnaps[n]
                                  /\ dockerSnaps'[n] = dockerSnaps[n]
                                  /\ fsSnaps'[n] = fsSnaps[n]
                                  /\ ideal'[n] = ideal[n]
  PROVE  StoredIsComplete'
BY DEF StoredIsComplete, Stored

\* A call of CreateSnapshot that fails, or is refused, ends it; whatever it
\* left is under a name that is not stored.
LEMMA TakeEnds ==
  ASSUME Invariants, pc \in {"evm_snapshot"} \union AfterCopy, arg' = arg,
         Fail \/ Refuse, snapshots' = snapshots, ideal' = ideal,
         UNCHANGED <<hardhatSnapshotMap, bnSnaps, dockerSnaps>>,
         fsSnaps' = fsSnaps \/ fsSnaps' = [fsSnaps EXCEPT ![arg] = PartialCopy]
  PROVE  SInv'
<1>1. ~Stored(arg)
  BY DEF Invariants, TInv, AboutNew
<1>2. \A n \in Names \ {arg} : fsSnaps'[n] = fsSnaps[n]
  BY DEF Invariants, TInv, StoresType
<1>3. StoredIsComplete'
  BY <1>1, <1>2, StoredStays DEF Invariants, SInv
<1>4. pc' \in {"idle", "failed"} /\ last' = "none"
  BY DEF Fail, Refuse, ReturnError
<1>5. Taking' /\ RevertRestores' /\ Restoring'
  BY <1>4, Calls DEF Taking, RevertRestores, Restoring, RevertCalls
<1> QED BY <1>3, <1>5 DEF SInv

\* A call of CreateSnapshot that succeeds.
LEMMA TakeGoesOn ==
  ASSUME Invariants, pc \in {"evm_snapshot"} \union AfterCopy, arg' = arg,
         \E call \in AfterCopy : Goto(call), snapshots' = snapshots,
         \A n \in Names \ {arg} : /\ hardhatSnapshotMap'[n] = hardhatSnapshotMap[n]
                                  /\ bnSnaps'[n] = bnSnaps[n]
                                  /\ dockerSnaps'[n] = dockerSnaps[n]
                                  /\ fsSnaps'[n] = fsSnaps[n]
                                  /\ ideal'[n] = ideal[n],
         Taking'
  PROVE  SInv'
<1>1. StoredIsComplete'
  BY StoredStays DEF Invariants, SInv, TInv, AboutNew
<1>2. pc' \in AfterCopy /\ last' = last
  BY DEF Goto
<1>3. last' \notin {"revert", "close"}
  BY <1>2, Calls DEF Invariants, TInv, OutcomeType
<1>4. Restoring' /\ RevertRestores'
  BY <1>2, <1>3, Calls DEF Restoring, RevertRestores, RevertCalls, AfterCopy
<1> QED BY <1>1, <1>4 DEF SInv

LEMMA TakeHardhatSInv ==
  ASSUME Invariants, TakeHardhat
  PROVE  SInv'
<1>1. /\ pc = "evm_snapshot" /\ arg' = arg /\ arg \in Names
      /\ UNCHANGED <<mocks, bnSnaps, dockerSnaps, fsSnaps, snapshots>>
      /\ ideal \in [Names -> Worlds \union {NoValue}]
      /\ hardhatSnapshotMap \in [Names -> 0 .. Len(saved)] /\ Len(saved) \in Nat
  BY Arguments DEF TakeHardhat, control, Invariants, TInv, OutcomeType, HInv, HardhatType
<1>2. CASE Fail /\ UNCHANGED <<hardhatSnapshotMap, ideal>>
  BY <1>1, <1>2, TakeEnds
<1>3. CASE /\ hardhatSnapshotMap' = [hardhatSnapshotMap EXCEPT ![arg] = Len(saved) + 1]
           /\ ideal' = [ideal EXCEPT ![arg] = World]
           /\ Goto("bn_take")
  <2>1. /\ hardhatSnapshotMap'[arg] # 0
        /\ ideal'[arg].bn = bn /\ ideal'[arg].docker = docker
        /\ ideal'[arg].files = files /\ ideal'[arg].modules = modules
    BY <1>1, <1>3 DEF World
  <2>2. Taking'
    BY <1>1, <1>3, <2>1 DEF Taking, Goto, mocks
  <2>3. \A n \in Names \ {arg} : /\ ideal'[n] = ideal[n]
                                 /\ hardhatSnapshotMap'[n] = hardhatSnapshotMap[n]
    BY <1>1, <1>3
  <2> QED BY <1>1, <1>3, <2>2, <2>3, TakeGoesOn DEF AfterCopy
<1> QED BY <1>2, <1>3 DEF TakeHardhat

LEMMA TakeMocksSInv ==
  ASSUME Invariants, TakeBeacon \/ TakeDocker
  PROVE  SInv'
<1>1. /\ pc \in {"bn_take", "docker_take"} /\ arg' = arg /\ arg \in Names
      /\ UNCHANGED <<mocks, hardhatSnapshotMap, fsSnaps, snapshots, ideal>>
      /\ bnSnaps \in [Names -> Databases \union {NoValue}]
      /\ dockerSnaps \in [Names -> Contents \union {NoValue}]
      /\ Taking
  BY Arguments DEF TakeBeacon, TakeDocker, control, Invariants, TInv, StoresType, SInv
<1>2. CASE TakeBeacon
  <2>1. /\ bnSnaps' = [bnSnaps EXCEPT ![arg] = Clone(bn)] /\ dockerSnaps' = dockerSnaps
        /\ Goto("docker_take") /\ pc = "bn_take"
    BY <1>2 DEF TakeBeacon
  <2>2. Taking'
    BY <1>1, <2>1 DEF Taking, Goto, mocks, AfterCopy
  <2> QED BY <1>1, <2>1, <2>2, TakeGoesOn DEF AfterCopy
<1>3. CASE TakeDocker /\ dockerSnaps' = [dockerSnaps EXCEPT ![arg] = docker]
                      /\ Goto("fs_take")
  <2>1. bnSnaps' = bnSnaps /\ pc = "docker_take"
    BY <1>3 DEF TakeDocker
  <2>2. Taking'
    BY <1>1, <1>3, <2>1 DEF Taking, Goto, mocks, AfterCopy
  <2> QED BY <1>1, <1>3, <2>1, <2>2, TakeGoesOn DEF AfterCopy
<1>4. CASE TakeDocker /\ Fail /\ dockerSnaps' = dockerSnaps
  BY <1>1, <1>4, TakeEnds DEF TakeDocker, AfterCopy
<1> QED BY <1>2, <1>3, <1>4 DEF TakeDocker

LEMMA TakeFilesSInv ==
  ASSUME Invariants, TakeFiles
  PROVE  SInv'
<1>1. /\ pc = "fs_take" /\ arg' = arg /\ arg \in Names
      /\ UNCHANGED <<mocks, hardhatSnapshotMap, bnSnaps, dockerSnaps, snapshots, ideal>>
      /\ fsSnaps \in [Names -> Contents \union {NoValue, PartialCopy}]
      /\ Taking
  BY Arguments DEF TakeFiles, Invariants, TInv, StoresType, SInv
<1>2. CASE Fail \/ Refuse
  BY <1>1, <1>2, TakeEnds DEF TakeFiles, AfterCopy, Goto, Fail, Refuse, ReturnError
<1>3. CASE /\ fsSnaps' = [fsSnaps EXCEPT ![arg] = files]
           /\ Goto("modules_take")
           /\ states' = [i \in Instances |-> NoValue]
  <2>1. Taking'
    BY <1>1, <1>3 DEF Taking, Goto, mocks, AfterCopy
  <2> QED BY <1>1, <1>3, <2>1, TakeGoesOn DEF AfterCopy
<1> QED BY <1>2, <1>3 DEF TakeFiles

LEMMA TakeModuleSInv ==
  ASSUME Invariants, TakeModule
  PROVE  SInv'
<1>1. /\ pc = "modules_take" /\ arg' = arg
      /\ UNCHANGED <<mocks, stores, ideal>>
      /\ states \in [Instances -> Contents \union {NoValue}]
      /\ Taking
  BY DEF TakeModule, Invariants, TInv, ControlType, SInv
<1>2. CASE Fail
  BY <1>1, <1>2, TakeEnds DEF stores, AfterCopy
<1>3. CASE Goto("modules_take") /\ \E i : states' = [states EXCEPT ![i] = modules[i]]
  <2>1. \A i \in Instances : states'[i] \in {NoValue, ideal[arg].modules[i]}
    BY <1>1, <1>3 DEF Taking, AfterCopy
  <2>2. Taking'
    BY <1>1, <1>3, <2>1 DEF Taking, Goto, mocks, stores, AfterCopy
  <2> QED BY <1>1, <1>3, <2>2, TakeGoesOn DEF stores, AfterCopy
<1> QED BY <1>2, <1>3 DEF TakeModule

LEMMA StoreSInv ==
  ASSUME Invariants, StoreSnapshot
  PROVE  SInv'
<1>1. /\ pc = "modules_take" /\ arg' = arg /\ arg \in Names
      /\ UNCHANGED <<mocks, hardhatSnapshotMap, bnSnaps, dockerSnaps, fsSnaps, ideal>>
      /\ pc' = "idle" /\ last' = "create"
      /\ snapshots' = [n \in DOMAIN snapshots \union {arg} |->
                          IF n = arg THEN states ELSE snapshots[n]]
      /\ Taking /\ StoredIsComplete
  BY Arguments DEF StoreSnapshot, Return, control, Invariants, SInv
<1>2. StoredIsComplete'
  <2> SUFFICES ASSUME NEW n \in Names, n \in DOMAIN snapshots'
               PROVE  /\ hardhatSnapshotMap[n] # 0
                      /\ bnSnaps[n] = Clone(ideal[n].bn)
                      /\ dockerSnaps[n] = ideal[n].docker
                      /\ fsSnaps[n] = ideal[n].files
                      /\ \A i \in Instances :
                            snapshots'[n][i] \in {NoValue, ideal[n].modules[i]}
    BY <1>1 DEF StoredIsComplete, Stored
  <2>1. CASE n = arg
    BY <1>1, <2>1 DEF Taking, AfterCopy
  <2>2. CASE n # arg
    <3>1. n \in DOMAIN snapshots /\ snapshots'[n] = snapshots[n]
      BY <1>1, <2>2
    <3> QED BY <1>1, <3>1 DEF StoredIsComplete, Stored
  <2> QED BY <2>1, <2>2
<1>3. Taking' /\ Restoring' /\ RevertRestores'
  BY <1>1, Calls DEF Taking, Restoring, RevertRestores, RevertCalls
<1> QED BY <1>2, <1>3 DEF SInv

\* A call of RevertSnapshot that succeeds and leaves the stored snapshots as
\* they are.
LEMMA RevertGoesOn ==
  ASSUME Invariants, pc \in RevertCalls, \E call \in RevertCalls : pc' = call,
         UNCHANGED <<last, snapshots, bnSnaps, dockerSnaps, fsSnaps, ideal>>,
         \A n \in Names : hardhatSnapshotMap'[n] \in {hardhatSnapshotMap[n], Len(saved) + 1},
         Restoring'
  PROVE  SInv'
<1>1. Len(saved) + 1 # 0
  BY DEF Invariants, HInv, HardhatType
<1>2. StoredIsComplete'
  BY <1>1 DEF Invariants, SInv, StoredIsComplete, Stored
<1>3. last' \notin {"revert", "close"} /\ pc' \notin AfterCopy
  BY Calls DEF Invariants, TInv, OutcomeType
<1> QED BY <1>2, <1>3 DEF SInv, Taking, RevertRestores

\* evm_revert brings the chain back when Hardhat still has the copy; when it
\* has not, the name is drifted from then on.
LEMMA RevertHardhatSInv ==
  ASSUME Invariants, RevertHardhat
  PROVE  SInv'
<1>1. /\ pc = "evm_revert" /\ arg' = arg /\ arg \in Names
      /\ UNCHANGED <<stores, ideal>>
  BY Arguments DEF RevertHardhat, control, Invariants
<1>2. CASE Fail
  BY <1>1, <1>2, QuietSInv, Calls DEF Invariants, Fail, ReturnError
<1>3. CASE /\ EvmRevert(hardhatSnapshotMap[arg])
           /\ pc' = "evm_resnapshot" /\ last' = last
           /\ drifted' = IF hardhatSnapshotMap[arg] \in live THEN drifted
                         ELSE drifted \union {arg}
  <2>1. arg \notin drifted' => Told(el') = Told(ideal[arg].el)
    BY <1>1, <1>3 DEF EvmRevert, Invariants, HInv, Faithful
  <2>2. Restoring'
    BY <1>1, <1>3, <2>1 DEF Restoring
  <2> QED BY <1>1, <1>3, <2>2, RevertGoesOn DEF stores, RevertCalls
<1> QED BY <1>2, <1>3 DEF RevertHardhat

LEMMA RetakeHardhatSInv ==
  ASSUME Invariants, RetakeHardhat
  PROVE  SInv'
<1>1. /\ pc = "evm_resnapshot" /\ arg' = arg /\ arg \in Names
      /\ UNCHANGED <<bnSnaps, dockerSnaps, fsSnaps, snapshots, ideal, drifted>>
      /\ Restoring
      /\ hardhatSnapshotMap \in [Names -> 0 .. Len(saved)]
  BY Arguments DEF RetakeHardhat, control, Invariants, SInv, HInv, HardhatType
<1>2. CASE Fail /\ UNCHANGED hardhatSnapshotMap
  BY <1>1, <1>2, QuietSInv, Calls DEF Invariants, Fail, ReturnError, stores
<1>3. CASE /\ EvmSnapshot
           /\ hardhatSnapshotMap' = [hardhatSnapshotMap EXCEPT ![arg] = Len(saved) + 1]
           /\ Goto("bn_revert")
  <2>1. el' = el /\ pc' = "bn_revert" /\ last' = last
    BY <1>3 DEF EvmSnapshot, Goto
  <2>2. Restoring'
    BY <1>1, <2>1 DEF Restoring, RevertCalls
  <2>3. \A n \in Names : hardhatSnapshotMap'[n] \in {hardhatSnapshotMap[n], Len(saved) + 1}
    BY <1>1, <1>3
  <2> QED BY <1>1, <2>1, <2>2, <2>3, RevertGoesOn DEF RevertCalls
<1> QED BY <1>2, <1>3 DEF RetakeHardhat

\* The mocks get back what StoredIsComplete says their copies are.
LEMMA RevertMocksSInv ==
  ASSUME Invariants, RevertBeacon \/ RevertDocker \/ RevertFiles
  PROVE  SInv'
<1>1. /\ arg' = arg /\ arg \in Names /\ Stored(arg)
      /\ pc \in {"bn_revert", "docker_revert", "fs_revert"}
      /\ UNCHANGED <<stores, ideal, drifted, el, modules>>
      /\ Restoring /\ StoredIsComplete
  BY Arguments DEF RevertBeacon, RevertDocker, RevertFiles, control, hardhat, Invariants,
     SInv, TInv, AboutNew, RevertCalls
<1>2. CASE Fail \/ Refuse
  BY <1>1, <1>2, QuietSInv, Calls DEF Invariants, Fail, Refuse, ReturnError
<1>3. CASE RevertBeacon
  <2>1. /\ bn' = Clone(bnSnaps[arg]) /\ bnSnaps[arg] = Clone(ideal[arg].bn)
        /\ pc = "bn_revert" /\ pc' = "docker_revert" /\ last' = last
    BY <1>1, <1>3 DEF RevertBeacon, Goto, StoredIsComplete
  <2>2. Clone(bnSnaps[arg]) = bnSnaps[arg]
    <3>1. Consistent(bnSnaps[arg])
      BY <1>1, <1>3 DEF Invariants, TInv, StoresType, RevertBeacon
    <3>2. bnSnaps[arg] \in Databases /\ bnSnaps[arg].pendingDeposits = {}
      BY <2>1, <3>1 DEF Clone, Consistent
    <3>3. [bnSnaps[arg] EXCEPT !.pendingDeposits = {}] = bnSnaps[arg]
      BY <3>2 DEF Databases
    <3> QED BY <3>1, <3>3, CloneIsCopy
  <2>3. Restoring'
    BY <1>1, <2>1, <2>2 DEF Restoring, RevertCalls
  <2> QED BY <1>1, <2>1, <2>3, RevertGoesOn DEF stores, RevertCalls
<1>4. CASE RevertDocker /\ docker' = dockerSnaps[arg] /\ Goto("fs_revert")
  <2>1. /\ docker' = ideal[arg].docker /\ bn' = bn
        /\ pc = "docker_revert" /\ pc' = "fs_revert" /\ last' = last
    BY <1>1, <1>4 DEF RevertDocker, Goto, StoredIsComplete
  <2>2. Restoring'
    BY <1>1, <2>1 DEF Restoring, RevertCalls
  <2> QED BY <1>1, <2>1, <2>2, RevertGoesOn DEF stores, RevertCalls
<1>5. CASE /\ RevertFiles /\ files' = fsSnaps[arg] /\ Goto("modules_revert")
           /\ todo' = {m \in ModuleNames : registeredModules[m] # NoValue}
  <2>1. /\ files' = ideal[arg].files /\ bn' = bn /\ docker' = docker
        /\ registeredModules' = registeredModules
        /\ pc = "fs_revert" /\ pc' = "modules_revert" /\ last' = last
    BY <1>1, <1>5 DEF RevertFiles, Goto, StoredIsComplete, frame
  <2>2. \A m \in ModuleNames \ todo' : ModuleRestored(m)'
    BY <1>1, <1>5, <2>1 DEF ModuleRestored
  <2>3. Restoring'
    BY <1>1, <2>1, <2>2 DEF Restoring, RevertCalls
  <2> QED BY <1>1, <2>1, <2>3, RevertGoesOn DEF stores, RevertCalls
<1> QED BY <1>2, <1>3, <1>4, <1>5 DEF RevertDocker, RevertFiles

\* One module gets back the state the snapshot has for its instance; the
\* modules reverted before it keep theirs, be it the same instance or not.
LEMMA RevertModuleSInv ==
  ASSUME Invariants, RevertModule
  PROVE  SInv'
<1>1. /\ arg' = arg /\ arg \in Names /\ Stored(arg) /\ pc = "modules_revert"
      /\ UNCHANGED <<stores, ideal, drifted, el, bn, docker, files, registeredModules>>
      /\ Restoring /\ StoredIsComplete
      /\ modules \in [Instances -> Contents]
      /\ registeredModules \in [ModuleNames -> Instances \union {NoValue}]
      /\ todo \subseteq ModuleNames
  BY Arguments DEF RevertModule, hardhat, frame, Invariants, SInv, TInv, AboutNew,
     RevertCalls, MocksType, FrameType, ControlType
<1>2. CASE Fail
  BY <1>1, <1>2, QuietSInv, Calls DEF Invariants, Fail, ReturnError
<1>3. CASE ~Fail
  <2>1. PICK m \in todo :
          LET i == registeredModules[m]
              state == snapshots[arg][i]
          IN  /\ modules' = IF state = NoValue THEN modules
                            ELSE [modules EXCEPT ![i] = state]
              /\ todo' = todo \ {m}
              /\ Goto("modules_revert")
    BY <1>3 DEF RevertModule
  <2> DEFINE i == registeredModules[m]
             state == snapshots[arg][i]
  <2>2. i \in Instances => state \in {NoValue, ideal[arg].modules[i]}
    BY <1>1 DEF StoredIsComplete
  <2>3. ASSUME NEW k \in ModuleNames \ todo' PROVE ModuleRestored(k)'
    <3>1. ModuleRestored(k)' <=>
            (registeredModules[k] # NoValue /\ snapshots[arg][registeredModules[k]] # NoValue
                => modules'[registeredModules[k]] = ideal[arg].modules[registeredModules[k]])
      BY <1>1 DEF ModuleRestored, stores
    <3>2. CASE registeredModules[k] = i
      BY <1>1, <2>1, <2>2, <3>1, <3>2
    <3>3. CASE registeredModules[k] # i
      <4>1. k \in ModuleNames \ todo
        BY <2>1, <3>3
      <4>2. ModuleRestored(k)
        BY <1>1, <4>1 DEF Restoring
      <4>3. registeredModules[k] # NoValue =>
              modules'[registeredModules[k]] = modules[registeredModules[k]]
        BY <1>1, <2>1, <3>3
      <4> QED BY <3>1, <4>2, <4>3 DEF ModuleRestored
    <3> QED BY <3>2, <3>3
  <2>4. Restoring'
    BY <1>1, <2>1, <2>3 DEF Restoring, RevertCalls, Goto
  <2> QED BY <1>1, <2>1, <2>4, RevertGoesOn DEF stores, RevertCalls, Goto
<1> QED BY <1>2, <1>3

\* RevertSnapshot returns, or goes on to close the folders.
LEMMA EndRevertSInv ==
  ASSUME Invariants, EndRevert \/ CloseFiles
  PROVE  SInv'
<1>1. /\ arg' = arg /\ arg \in Names /\ Stored(arg) /\ todo = {} /\ todo' = todo
      /\ pc \in {"modules_revert", "fs_close"}
      /\ UNCHANGED <<stores, ideal, drifted, el, bn, docker, modules, registeredModules>>
      /\ Restoring /\ StoredIsComplete
  BY Arguments DEF EndRevert, CloseFiles, FilesClosed, FilesLeft, control, hardhat,
     mocks, frame, Invariants, SInv, TInv, AboutNew, RevertCalls, Restoring
<1>2. CASE Fail
  BY <1>1, <1>2, QuietSInv, Calls DEF Invariants, Fail, ReturnError
<1>3. CASE Goto("fs_close") /\ EndRevert
  <2>1. Restoring'
    BY <1>1, <1>3 DEF Restoring, RevertCalls, Goto, EndRevert, mocks, ModuleRestored,
       stores
  <2> QED BY <1>1, <1>3, <2>1, RevertGoesOn DEF stores, RevertCalls, Goto
<1>4. CASE \/ EndRevert /\ Return("revert")
           \/ CloseFiles /\ files' = NoValue /\ Return("close")
  <2>1. /\ pc' = "idle" /\ last' \in {"revert", "close"}
        /\ files' = IF last' = "close" THEN NoValue ELSE ideal[arg].files
    BY <1>1, <1>4 DEF Return, EndRevert, mocks, Restoring
  <2>2. \A m \in ModuleNames : ModuleRestored(m)
    BY <1>1 DEF Restoring
  <2>3. /\ bn = Clone(ideal[arg].bn) /\ docker = ideal[arg].docker
        /\ arg \notin drifted => Told(el) = Told(ideal[arg].el)
    BY <1>1 DEF Restoring, RevertCalls
  <2>4. RevertRestores'
    BY <1>1, <2>1, <2>2, <2>3 DEF RevertRestores, ModuleRestored, stores
  <2>5. StoredIsComplete'
    BY <1>1 DEF StoredIsComplete, Stored, stores
  <2>6. Taking' /\ Restoring'
    BY <2>1, Calls DEF Taking, Restoring, RevertCalls
  <2> QED BY <2>4, <2>5, <2>6 DEF SInv
<1> QED BY <1>2, <1>3, <1>4 DEF EndRevert, CloseFiles, FilesClosed

\* Blocks of interval mining are not what a snapshot is about.
LEMMA IntervalSInv ==
  ASSUME Invariants, IntervalMine
  PROVE  SInv'
<1>1. /\ UNCHANGED <<bn, docker, files, modules, stores, registeredModules, arg, todo,
                     states, ideal, drifted, pc, last>>
      /\ SInv /\ el \in Chains
      /\ el' = [el EXCEPT !.block = @ + 1, !.auto = @ + 1]
  BY DEF IntervalMine, mocks, frame, control, history, Invariants, HInv, HardhatType
<1>2. CASE pc \in AfterCopy
  <2>1. Taking'
    BY <1>1 DEF SInv, Taking, stores
  <2>2. StoredIsComplete'
    BY <1>1 DEF SInv, StoredIsComplete, Stored, stores
  <2>3. last' \notin {"revert", "close"}
    BY <1>1, <1>2, Calls DEF Invariants, TInv, OutcomeType
  <2> QED BY <1>1, <1>2, <2>1, <2>2, <2>3, Calls DEF SInv, Restoring, RevertRestores,
             RevertCalls, AfterCopy
<1>3. CASE pc \notin AfterCopy
  <2>1. Told(el') = Told(el)
    BY <1>1, IntervalTold
  <2>2. StoredIsComplete' /\ Taking'
    BY <1>1, <1>3 DEF SInv, StoredIsComplete, Stored, stores, Taking
  <2>3. Restoring'
    BY <1>1, <2>1 DEF SInv, Restoring, ModuleRestored, stores
  <2>4. RevertRestores'
    BY <1>1, <2>1 DEF SInv, RevertRestores, stores
  <2> QED BY <2>2, <2>3, <2>4 DEF SInv
<1> QED BY <1>2, <1>3

LEMMA NextSInv ==
  ASSUME Invariants, [Next]_vars
  PROVE  SInv'
<1>1. CASE Connect \/ MineBlock \/ IncreaseTime \/ CommitBeacon \/ SkipSlot
           \/ IncreaseTimeAll
  <2>1. /\ UNCHANGED <<stores, ideal>>
        /\ \/ pc' \in {"idle", "failed"} /\ last' \in {"none", "commit", "skip"}
           \/ pc' \in {"evm_snapshot"} \union ChainCalls /\ last' = last
    BY <1>1 DEF Connect, MineBlock, IncreaseTime, CommitBeacon, SkipSlot,
       IncreaseTimeAll, Goto, Return, Fail, ReturnError, ChainCalls
  <2>2. pc # "idle"
    BY <1>1 DEF Connect, MineBlock, IncreaseTime, CommitBeacon, SkipSlot, IncreaseTimeAll
  <2>3. last = "none"
    BY <2>2 DEF Invariants, TInv, OutcomeType
  <2>4. pc' \notin AfterCopy \union RevertCalls
    BY <2>1, Calls DEF RevertCalls, AfterCopy, ChainCalls
  <2> QED BY <2>1, <2>3, <2>4, QuietSInv DEF Invariants
<1>2. CASE Test
  <2>1. /\ UNCHANGED <<stores, ideal>> /\ last' = "none"
        /\ pc' \notin AfterCopy \union (RevertCalls \ {"evm_revert"})
    BY <1>2, TestBegins DEF Invariants, AfterCopy, RevertCalls
  <2> QED BY <2>1, QuietSInv DEF Invariants
<1>3. CASE UNCHANGED vars
  BY <1>3 DEF vars, hardhat, mocks, stores, frame, control, history, Invariants, SInv,
     StoredIsComplete, Stored, Taking, Restoring, ModuleRestored, RevertRestores
<1> QED BY <1>1, <1>2, <1>3, TakeHardhatSInv, TakeMocksSInv, TakeFilesSInv,
           TakeModuleSInv, StoreSInv, RevertHardhatSInv, RetakeHardhatSInv,
           RevertMocksSInv, RevertModuleSInv, EndRevertSInv, IntervalSInv
        DEF Next, Step

\* What TestManager has copied and restored, at every call (test-manager.go).
THEOREM SnapshotInvariance == Spec => []Invariants
<1>1. TInv /\ HInv /\ SInv /\ [Next]_vars => SInv'
  BY NextSInv DEF Invariants
<1>2. Invariants <=> TInv /\ HInv /\ SInv
  BY DEF Invariants
<1> QED BY <1>1, <1>2, InitSInv, TypeInvariance, PTL DEF Spec

\* A name is in m.snapshots only with a copy from every service, all of one
\* moment: whichever call of an earlier or later CreateSnapshot failed, and
\* whatever snapshots were reverted in between (test-manager.go,
\* CreateSnapshot).
THEOREM StoredCorrect == Spec => []StoredIsComplete
<1>1. Invariants => StoredIsComplete
  BY DEF Invariants, SInv
<1> QED BY <1>1, SnapshotInvariance, PTL

\* When RevertSnapshot or Close returns nil, every service is as it was at
\* CreateSnapshot, and Hardhat too unless an earlier revert had deleted its
\* copy (test-manager.go, RevertSnapshot and Close).
THEOREM RevertCorrect == Spec => []RevertRestores
<1>1. Invariants => RevertRestores
  BY DEF Invariants, SInv
<1> QED BY <1>1, SnapshotInvariance, PTL

-----------------------------------------------------------------------------
(* The two chains *)

\* Two chains on which the test did the same are equally far from a database.
LEMMA ToldOffset ==
  ASSUME NEW c \in Chains, NEW d \in Chains, Told(c) = Told(d),
         NEW db, NEW slots, NEW blocks \in Int, Offset(d, db, slots, blocks),
         db \in Databases
  PROVE  Offset(c, db, slots, blocks)
<1>1. ASSUME NEW chain \in Chains
      PROVE  Told(chain) = [block |-> chain.block - chain.auto, offset |-> chain.offset,
                            sent |-> chain.sent, auto |-> 0]
  <2>1. Told(chain) = [chain EXCEPT !.block = chain.block - chain.auto, !.auto = 0]
    BY DEF Told
  <2>2. chain.block - chain.auto \in Int
    BY DEF Chains
  <2> QED BY <2>1, <2>2, ChainExcept
<1>2. /\ c.block - c.auto = d.block - d.auto
      /\ c.offset = d.offset /\ c.sent = d.sent
  BY <1>1
<1>3. /\ c.block \in Nat /\ c.auto \in Nat /\ c.sent \in Nat
      /\ d.block \in Nat /\ d.auto \in Nat /\ d.sent \in Nat
      /\ db.nextExecutionBlockIndex \in Nat
  BY DEF Chains, Databases
<1> QED BY <1>2, <1>3 DEF Offset

\* A block of interval mining is accounted for.
LEMMA IntervalOffset ==
  ASSUME el \in Chains, el' = [el EXCEPT !.block = @ + 1, !.auto = @ + 1],
         bn \in Databases,
         NEW slots, NEW blocks \in Int, Offset(el, bn, slots, blocks)
  PROVE  Offset(el', bn, slots, blocks)
<1>1. /\ el'.block = el.block + 1 /\ el'.auto = el.auto + 1
      /\ el'.offset = el.offset /\ el'.sent = el.sent
      /\ el.block \in Nat /\ el.auto \in Nat /\ el.sent \in Nat
      /\ bn.nextExecutionBlockIndex \in Nat
  BY DEF Chains, Databases
<1> QED BY <1>1 DEF Offset

\* What a snapshot was taken of is known from evm_snapshot on, and never
\* changes.
LEMMA SeenStays ==
  ASSUME Invariants, [Next]_vars, NEW n \in Names, Seen(n)'
  PROVE  \/ Seen(n) /\ ideal'[n] = ideal[n]
         \/ TakeHardhat /\ ~Fail /\ ideal'[n] = World
<1>1. CASE Connect \/ TakeBeacon \/ TakeDocker \/ TakeFiles \/ TakeModule
  <2>1. /\ arg' = arg /\ snapshots' = snapshots /\ ideal' = ideal
        /\ pc' \in AfterCopy => pc \in AfterCopy
    BY <1>1 DEF Connect, TakeBeacon, TakeDocker, TakeFiles, TakeModule, Goto, Fail,
        Refuse, ReturnError, stores, control, AfterCopy
  <2> QED BY <2>1 DEF Seen, Stored
<1>2. CASE TakeHardhat
  <2>1. /\ arg' = arg /\ snapshots' = snapshots
        /\ arg \in Names /\ ideal \in [Names -> Worlds \union {NoValue}]
    BY <1>2, Arguments DEF TakeHardhat, control, Invariants, TInv, OutcomeType
  <2>2. CASE Fail /\ ideal' = ideal
    BY <2>1, <2>2 DEF Seen, Stored, Fail, ReturnError, AfterCopy
  <2>3. CASE ~Fail /\ ideal' = [ideal EXCEPT ![arg] = World]
    BY <1>2, <2>1, <2>3 DEF Seen, Stored
  <2> QED BY <1>2, <2>2, <2>3 DEF TakeHardhat, Goto, Fail, ReturnError
<1>3. CASE StoreSnapshot
  <2>1. /\ arg' = arg /\ DOMAIN snapshots' = DOMAIN snapshots \union {arg}
        /\ pc = "modules_take" /\ pc' = "idle" /\ ideal' = ideal
    BY <1>3 DEF StoreSnapshot, Return, control
  <2> QED BY <2>1 DEF Seen, Stored, AfterCopy
<1>4. CASE \/ RevertHardhat \/ RetakeHardhat \/ RevertBeacon \/ RevertDocker
           \/ RevertFiles \/ RevertModule \/ EndRevert \/ CloseFiles
           \/ MineBlock \/ IncreaseTime \/ CommitBeacon \/ SkipSlot \/ IncreaseTimeAll
  <2>1. /\ snapshots' = snapshots /\ ideal' = ideal
        /\ pc' \in {"idle", "failed"} \union RevertCalls \union ChainCalls
    BY <1>4 DEF RevertHardhat, RetakeHardhat, RevertBeacon, RevertDocker, RevertFiles,
        RevertModule, EndRevert, CloseFiles, FilesClosed, FilesLeft, MineBlock,
        IncreaseTime, CommitBeacon,
        SkipSlot, IncreaseTimeAll, Goto, Return, Fail, Refuse, ReturnError, stores,
        RevertCalls, ChainCalls
  <2> QED BY <2>1, Calls DEF Seen, Stored
<1>5. CASE Test
  <2>1. snapshots' = snapshots /\ ideal' = ideal /\ pc' \notin AfterCopy
    BY <1>5, TestBegins DEF Invariants, stores, AfterCopy
  <2> QED BY <2>1 DEF Seen, Stored
<1>6. CASE IntervalMine \/ UNCHANGED vars
  BY <1>6 DEF IntervalMine, vars, stores, control, history, Seen, Stored
<1> QED BY <1>1, <1>2, <1>3, <1>4, <1>5, <1>6 DEF Next, Step

\* A failed call is remembered.
LEMMA DisturbedStays ==
  ASSUME Invariants, [Next]_vars
  PROVE  disturbed => disturbed'
<1>1. Step => (disturbed => disturbed')
  BY CallEnds DEF Invariants
<1>2. Test => (disturbed => disturbed')
  BY TestBegins DEF Invariants
<1>3. IntervalMine \/ UNCHANGED vars => (disturbed => disturbed')
  BY DEF IntervalMine, vars, history
<1> QED BY <1>1, <1>2, <1>3 DEF Next

\* The chains agree once the Beacon mock has been reverted too.
LEMMA RestoredAligned ==
  ASSUME Invariants, AInv, ~disturbed,
         pc \in {"docker_revert", "fs_revert", "modules_revert", "fs_close"}
  PROVE  Aligned(el, bn)
<1>1. /\ arg \in Names /\ Stored(arg) /\ arg \notin drifted
      /\ ideal[arg] \in Worlds
      /\ Aligned(ideal[arg].el, ideal[arg].bn)
  BY Arguments DEF Invariants, TInv, AboutNew, RevertCalls, OutcomeType, AInv,
     SeenAligned, Seen
<1>2. Told(el) = Told(ideal[arg].el) /\ bn = Clone(ideal[arg].bn)
  BY <1>1 DEF Invariants, SInv, Restoring, RevertCalls
<1>3. /\ el \in Chains /\ ideal[arg].el \in Chains /\ ideal[arg].bn \in Databases
      /\ bn \in Databases
  BY <1>1 DEF Worlds, Invariants, HInv, HardhatType, TInv, MocksType, Consistent
<1>4. Offset(el, ideal[arg].bn, 0, 0)
  BY <1>1, <1>2, <1>3, ToldOffset DEF Aligned
<1>5. /\ bn.currentSlot = ideal[arg].bn.currentSlot
      /\ bn.nextExecutionBlockIndex = ideal[arg].bn.nextExecutionBlockIndex
  BY <1>2 DEF Clone
<1> QED BY <1>4, <1>5 DEF Aligned, Offset

LEMMA InitAInv == Init => AInv
<1> SUFFICES ASSUME Init PROVE AInv
  OBVIOUS
<1>1. Aligned(el, bn)
  BY ChainAssumption DEF Init, NewDatabase, Aligned, Offset
<1>2. \A n \in Names : ~Seen(n)
  BY DEF Init, Seen, Stored, AfterCopy
<1>3. pc = "connect"
  BY DEF Init
<1> QED BY <1>1, <1>2, <1>3 DEF AInv, SeenAligned

\* It is enough to look at the calls, at a step that does not fail.
LEMMA NextSeenAligned ==
  ASSUME Invariants, AInv, ~disturbed, [Next]_vars
  PROVE  SeenAligned'
<1> SUFFICES ASSUME NEW n \in Names, Seen(n)'
             PROVE  Aligned(ideal'[n].el, ideal'[n].bn)
  BY DEF SeenAligned
<1>1. CASE Seen(n) /\ ideal'[n] = ideal[n]
  BY <1>1 DEF AInv, SeenAligned
<1>2. CASE TakeHardhat /\ ideal'[n] = World
  BY <1>2 DEF TakeHardhat, World, AInv
<1> QED BY <1>1, <1>2, SeenStays

\* The calls that leave both chains alone, or bring both back.
LEMMA StillAInv ==
  ASSUME Invariants, AInv, ~disturbed,
         \/ Connect \/ TakeHardhat \/ TakeBeacon \/ TakeDocker \/ TakeFiles \/ TakeModule
         \/ StoreSnapshot \/ RevertHardhat \/ RetakeHardhat \/ RevertBeacon
         \/ RevertDocker \/ RevertFiles \/ RevertModule \/ EndRevert \/ CloseFiles
  PROVE  AInv'
<1> SUFFICES ASSUME ~disturbed' PROVE AInv'
  BY DEF AInv
<1>1. ~Fail
  BY DEF Fail
<1>2. SeenAligned'
  BY NextSeenAligned DEF Next, Step
<1>3. CASE Connect \/ TakeHardhat \/ TakeBeacon \/ TakeDocker \/ TakeFiles \/ TakeModule
           \/ StoreSnapshot
  <2>1. el' = el /\ bn' = bn /\ pc \in {"connect", "evm_snapshot"} \union AfterCopy
    BY <1>3 DEF Connect, TakeHardhat, TakeBeacon, TakeDocker, TakeFiles, TakeModule,
        StoreSnapshot, EvmSnapshot, hardhat, mocks, AfterCopy
  <2>2. pc' \in {"idle", "failed", "evm_snapshot"} \union AfterCopy
    BY <1>3 DEF Connect, TakeHardhat, TakeBeacon, TakeDocker, TakeFiles, TakeModule,
        StoreSnapshot, Goto, Return, Fail, Refuse, ReturnError, AfterCopy
  <2>3. Aligned(el', bn')
    BY <2>1 DEF AInv
  <2> QED BY <1>2, <2>2, <2>3 DEF AInv, AfterCopy
<1>4. CASE \/ RevertHardhat \/ RetakeHardhat \/ RevertBeacon \/ RevertDocker
           \/ RevertModule
  <2>1. pc' \in RevertCalls \ {"evm_revert"}
    BY <1>1, <1>4 DEF RevertHardhat, RetakeHardhat, RevertBeacon, RevertDocker,
        RevertModule, Goto, RevertCalls
  <2> QED BY <1>2, <2>1 DEF AInv, RevertCalls, AfterCopy
<1>5. CASE RevertFiles \/ EndRevert \/ CloseFiles
  <2>1. /\ pc' \in {"modules_revert", "fs_close", "idle", "failed"}
        /\ pc \in {"fs_revert", "modules_revert", "fs_close"}
        /\ el' = el /\ bn' = bn
    BY <1>1, <1>5 DEF RevertFiles, EndRevert, CloseFiles, FilesClosed, FilesLeft,
        Goto, Return, Refuse, ReturnError, hardhat, mocks
  <2>2. Aligned(el', bn')
    BY <2>1, RestoredAligned
  <2> QED BY <1>2, <2>1, <2>2 DEF AInv, AfterCopy
<1> QED BY <1>3, <1>4, <1>5

\* CommitBlock and AdvanceSlots: each call moves one of the two chains.
LEMMA ChainAInv ==
  ASSUME Invariants, AInv, ~disturbed,
         MineBlock \/ IncreaseTime \/ CommitBeacon \/ SkipSlot \/ IncreaseTimeAll
  PROVE  AInv'
<1> SUFFICES ASSUME ~disturbed' PROVE AInv'
  BY DEF AInv
<1>1. ~Fail
  BY DEF Fail
<1>2. SeenAligned'
  BY NextSeenAligned DEF Next, Step
<1>3. /\ el \in Chains /\ bn \in Databases /\ Consistent(bn)
      /\ left \in 0 .. MaxAdvance /\ amount \in 0 .. MaxAdvance
  BY DEF Invariants, HInv, HardhatType, TInv, MocksType, Consistent, ControlType
<1>4. /\ el.block \in Nat /\ el.auto \in Nat /\ el.sent \in Nat /\ el.offset \in Nat
      /\ bn.nextExecutionBlockIndex \in Nat /\ bn.currentSlot \in Nat
      /\ left \in Nat /\ amount \in Nat
  BY <1>3, BoundAssumption DEF Chains, Databases
<1>5. CASE MineBlock
  <2>1. /\ el' = [el EXCEPT !.block = @ + 1] /\ bn' = bn /\ pc' = "evm_increaseTime"
        /\ Offset(el, bn, 0, 0)
    BY <1>1, <1>5 DEF MineBlock, EvmMine, Goto, mocks, AInv, Aligned
  <2>2. /\ el'.block = el.block + 1 /\ el'.auto = el.auto
        /\ el'.sent = el.sent /\ el'.offset = el.offset
    BY <1>3, <2>1 DEF Chains
  <2>3. Offset(el', bn', 0, 1)
    BY <1>4, <2>1, <2>2 DEF Offset
  <2> QED BY <1>2, <2>1, <2>3 DEF AInv, AfterCopy
<1>6. CASE IncreaseTime
  <2>1. /\ el' = [el EXCEPT !.offset = @ + 1] /\ bn' = bn /\ pc' = "bn_commit"
        /\ Offset(el, bn, 0, 1)
    BY <1>1, <1>6 DEF IncreaseTime, EvmIncreaseTime, Goto, mocks, AInv
  <2>2. /\ el'.block = el.block /\ el'.auto = el.auto
        /\ el'.sent = el.sent /\ el'.offset = el.offset + 1
    BY <1>3, <2>1 DEF Chains
  <2>3. Offset(el', bn', -1, 1)
    BY <1>4, <2>1, <2>2 DEF Offset
  <2> QED BY <1>2, <2>1, <2>3 DEF AInv, AfterCopy
<1>7. CASE CommitBeacon
  <2>1. /\ el' = el /\ bn' = WithBlock(bn, TRUE) /\ pc' \in {"evm_mine", "idle"}
        /\ Offset(el, bn, -1, 1)
    BY <1>7 DEF CommitBeacon, hardhat, Goto, Return, AInv
  <2>2. /\ bn'.currentSlot = bn.currentSlot + 1
        /\ bn'.nextExecutionBlockIndex = bn.nextExecutionBlockIndex + 1
    BY <1>3, <2>1, BlockConsistent
  <2>3. /\ el.offset + (-1) = bn.currentSlot
        /\ el.block = bn.nextExecutionBlockIndex + el.sent + el.auto + 1
    BY <2>1 DEF Offset
  <2>4. /\ el.offset + 0 = bn.currentSlot + 1
        /\ el.block = bn.nextExecutionBlockIndex + 1 + el.sent + el.auto + 0
    BY <1>4, <2>3
  <2>5. Aligned(el', bn')
    BY <2>1, <2>2, <2>4 DEF Offset, Aligned
  <2> QED BY <1>2, <2>1, <2>5 DEF AInv, AfterCopy
<1>8. CASE SkipSlot /\ left > 0
  <2>1. /\ el' = el /\ bn' = WithBlock(bn, FALSE) /\ pc = "bn_skip" /\ pc' = "bn_skip"
        /\ left' = left - 1 /\ amount' = amount
    <3>1. left # 0
      BY <1>8
    <3> QED BY <1>8, <3>1 DEF SkipSlot, hardhat, Goto
  <2>2. /\ bn'.currentSlot = bn.currentSlot + 1
        /\ bn'.nextExecutionBlockIndex = bn.nextExecutionBlockIndex
    BY <1>3, <2>1, BlockConsistent
  <2>3. Offset(el, bn, amount - left, 0)
    BY <2>1 DEF AInv
  <2>4. /\ el.offset + (amount - left) = bn.currentSlot
        /\ el.block = bn.nextExecutionBlockIndex + el.sent + el.auto + 0
    BY <2>3 DEF Offset
  <2>5. el.offset + (amount - (left - 1)) = bn.currentSlot + 1
    BY <1>4, <2>4
  <2>6. Offset(el', bn', amount' - left', 0)
    BY <2>1, <2>2, <2>4, <2>5 DEF Offset
  <2> QED BY <1>2, <2>1, <2>6 DEF AInv, AfterCopy
<1>9. CASE SkipSlot /\ ~(left > 0)
  <2>1. /\ el' = el /\ bn' = bn /\ pc' = "evm_increaseTimeAll"
        /\ left = 0 /\ amount' = amount
        /\ Offset(el, bn, amount - left, 0)
    BY <1>4, <1>9 DEF SkipSlot, hardhat, Goto, AInv
  <2>2. Offset(el', bn', amount', 0)
    BY <1>4, <2>1 DEF Offset
  <2> QED BY <1>2, <2>1, <2>2 DEF AInv, AfterCopy
<1>10. CASE IncreaseTimeAll
  <2>1. /\ el' = [el EXCEPT !.offset = @ + amount] /\ bn' = bn /\ pc' = "idle"
        /\ Offset(el, bn, amount, 0)
    BY <1>1, <1>10 DEF IncreaseTimeAll, EvmIncreaseTime, Return, mocks, AInv
  <2>2. /\ el'.block = el.block /\ el'.auto = el.auto
        /\ el'.sent = el.sent /\ el'.offset = el.offset + amount
    BY <1>3, <2>1 DEF Chains
  <2>3. Aligned(el', bn')
    BY <1>4, <2>1, <2>2 DEF Offset, Aligned
  <2> QED BY <1>2, <2>1, <2>3 DEF AInv, AfterCopy
<1> QED BY <1>5, <1>6, <1>7, <1>8, <1>9, <1>10

\* What the test does between two methods, and what it begins.
LEMMA TestAInv ==
  ASSUME Invariants, AInv, ~disturbed, Test
  PROVE  AInv'
<1> SUFFICES ASSUME ~disturbed' PROVE AInv'
  BY DEF AInv
<1>1. ~Fail
  BY DEF Fail
<1>2. SeenAligned'
  BY NextSeenAligned DEF Next
<1>3. /\ el \in Chains /\ bn \in Databases /\ Consistent(bn)
  BY DEF Invariants, HInv, HardhatType, TInv, MocksType, Consistent
<1>4. /\ el.block \in Nat /\ el.auto \in Nat /\ el.sent \in Nat /\ el.offset \in Nat
      /\ bn.nextExecutionBlockIndex \in Nat /\ bn.currentSlot \in Nat
  BY <1>3 DEF Chains, Databases
<1>5. /\ pc = "idle" /\ Aligned(el, bn)
      /\ pc' \in {"idle", "failed", "evm_snapshot", "evm_revert", "evm_mine", "bn_skip"}
  BY TestBegins DEF Invariants, AInv
<1>6. Aligned(el', bn')
  <2>1. \/ el' = el /\ bn' = bn
        \/ SendTransaction
        \/ \E slot \in Slots : el' = el /\ bn' = WithHighestSlot(bn, slot)
        \/ \E pubkey \in Pubkeys : /\ el' = el /\ ~HasPubkey(bn, pubkey)
                                   /\ bn' = WithValidator(bn, pubkey)
    BY DEF Test, CreateSnapshot, RevertSnapshot, RevertToBaseline, Close, BeginRevert,
        CommitBlock, AdvanceSlots, BeginAdvance, SetMiningInterval, SetBeaconHeadSlot,
        RegisterModule, UseBeacon, UseMocks, hardhat, mocks
  <2>2. CASE SendTransaction
    <3>1. el' = [el EXCEPT !.block = @ + 1, !.sent = @ + 1] /\ bn' = bn
      BY <2>2 DEF SendTransaction, mocks
    <3>2. /\ el'.block = el.block + 1 /\ el'.auto = el.auto
          /\ el'.sent = el.sent + 1 /\ el'.offset = el.offset
      BY <1>3, <3>1 DEF Chains
    <3> QED BY <1>4, <1>5, <3>1, <3>2 DEF Aligned, Offset
  <2>3. ASSUME NEW slot \in Slots, el' = el, bn' = WithHighestSlot(bn, slot)
        PROVE  Aligned(el', bn')
    <3>1. /\ bn'.currentSlot = bn.currentSlot
          /\ bn'.nextExecutionBlockIndex = bn.nextExecutionBlockIndex
      BY <1>3, <2>3, HighestConsistent DEF Slots
    <3> QED BY <1>5, <2>3, <3>1 DEF Aligned, Offset
  <2>4. ASSUME NEW pubkey \in Pubkeys, el' = el, ~HasPubkey(bn, pubkey),
               bn' = WithValidator(bn, pubkey)
        PROVE  Aligned(el', bn')
    <3>1. SameChain(bn', bn)
      BY <1>3, <2>4, ValidatorConsistent
    <3> QED BY <1>5, <2>4, <3>1 DEF SameChain, Aligned, Offset
  <2> QED BY <1>5, <2>1, <2>2, <2>3, <2>4
<1>7. pc' = "bn_skip" => left' \in Nat /\ amount' = left'
  <2>1. pc' = "bn_skip" => \E slots \in 0 .. MaxAdvance : BeginAdvance("bn_skip", slots)
    BY <1>1, <1>5 DEF Test, CreateSnapshot, RevertSnapshot, RevertToBaseline, Close,
        BeginRevert, CommitBlock, AdvanceSlots, BeginAdvance, Begin, SetMiningInterval,
        SetBeaconHeadSlot, RegisterModule, SendTransaction, UseBeacon, UseMocks
  <2> QED BY <2>1, BoundAssumption DEF BeginAdvance
<1>8. pc' = "bn_skip" => Offset(el', bn', amount' - left', 0)
  <2>1. \A x \in Nat : x - x = 0
    OBVIOUS
  <2> QED BY <1>6, <1>7, <2>1 DEF Aligned
<1> QED BY <1>2, <1>5, <1>6, <1>8 DEF AInv, AfterCopy

LEMMA IntervalAInv ==
  ASSUME Invariants, AInv, ~disturbed, IntervalMine
  PROVE  AInv'
<1>1. SeenAligned'
  BY NextSeenAligned DEF Next
<1>2. /\ el \in Chains /\ bn \in Databases
      /\ el' = [el EXCEPT !.block = @ + 1, !.auto = @ + 1]
      /\ UNCHANGED <<bn, pc, amount, left, disturbed>>
      /\ amount \in Nat /\ left \in Nat
  BY BoundAssumption DEF IntervalMine, mocks, control, history, Invariants, HInv,
     HardhatType, TInv, MocksType, Consistent, ControlType
<1>3. \A slots, blocks \in Int : Offset(el, bn, slots, blocks) => Offset(el', bn, slots, blocks)
  BY <1>2, IntervalOffset
<1>4. amount - left \in Int /\ amount \in Int
  BY <1>2
<1> QED BY <1>1, <1>2, <1>3, <1>4 DEF AInv, Aligned

LEMMA NextAInv ==
  ASSUME Invariants, AInv, [Next]_vars
  PROVE  AInv'
<1>1. CASE disturbed
  BY <1>1, DisturbedStays DEF AInv
<1>2. CASE ~disturbed /\ UNCHANGED vars
  BY <1>2 DEF vars, hardhat, mocks, stores, frame, control, history, AInv, SeenAligned,
     Seen, Stored
<1> QED BY <1>1, <1>2, StillAInv, ChainAInv, TestAInv, IntervalAInv DEF Next, Step

\* Hardhat and the Beacon mock stay aligned through CommitBlock, AdvanceSlots,
\* CreateSnapshot and RevertSnapshot, as long as no call has failed
\* (test-manager.go).
THEOREM ChainsAlignedCorrect == Spec => []ChainsAligned
<1>1. Invariants /\ AInv => ChainsAligned
  <2> SUFFICES ASSUME Invariants, AInv, Idle, ~disturbed
               PROVE  /\ el.offset = bn.currentSlot
                      /\ el.block = bn.nextExecutionBlockIndex + el.sent + el.auto
    BY DEF ChainsAligned
  <2>1. Aligned(el, bn)
    BY DEF AInv, Idle
  <2>2. /\ el.block \in Nat /\ el.offset \in Nat /\ el.sent \in Nat /\ el.auto \in Nat
        /\ bn.nextExecutionBlockIndex \in Nat /\ bn.currentSlot \in Nat
    BY DEF Invariants, HInv, HardhatType, Chains, TInv, MocksType, Consistent, Databases
  <2> QED BY <2>1, <2>2 DEF Aligned, Offset
<1>2. Invariants /\ AInv /\ [Next]_vars => AInv'
  BY NextAInv
<1> QED BY <1>1, <1>2, InitAInv, SnapshotInvariance, PTL DEF Spec

=============================================================================

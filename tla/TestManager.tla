----------------------------- MODULE TestManager -----------------------------
(***************************************************************************)
(* TestManager (test-manager.go): it drives Hardhat over RPC, the Beacon   *)
(* mock, the Docker mock, the test folder and the registered modules, and  *)
(* takes and reverts snapshots that span all of them.                      *)
(*                                                                         *)
(* Every call to a service is a step of its own, because each of them can  *)
(* fail and return early, and because Hardhat mines by itself in between   *)
(* when interval mining is on.  An RPC can fail before it takes effect, or *)
(* after it, when the answer is lost.  A program counter names the call    *)
(* the running method makes next; methods do not overlap.                  *)
(*                                                                         *)
(* Hardhat is external and modelled from the calls made here: evm_snapshot *)
(* numbers snapshots upwards; evm_revert restores a snapshot and deletes   *)
(* it and every later one, and answers false, without an error, when there *)
(* is no such snapshot.  RevertSnapshot does not look at the answer.       *)
(*                                                                         *)
(* The contents of the Docker mock are what its clients can see of it; the *)
(* hashes Up caches, which a clone does not have, are left out.            *)
(*                                                                         *)
(* Snapshot names are numbered in the order of their creation (they are    *)
(* UUIDs in the code, never used twice); 1 is the baseline.                *)
(***************************************************************************)
EXTENDS BeaconDatabase

CONSTANTS
    ModuleNames,      \* names modules are registered under
    Versions,         \* tells apart module instances of the same name
    Contents,         \* states of the Docker mock, the files and a module
    Empty,            \* the one of them everything starts in
    NoValue,          \* an absent map entry; a test folder that is gone
    PartialCopy,      \* a test folder only partly copied back, or removed
    MaxSnapshots,     \* bound on the names CreateSnapshot makes
    MaxHardhat,       \* bound on the ids Hardhat hands out
    MaxFaults,        \* bound on failing calls
    MaxSent,          \* bound on the transactions of the test
    MaxMined,         \* bound on the blocks of interval mining
    MaxAdvance,       \* bound on the slots of one AdvanceSlots call
    TestBlocks        \* the blocks (validated or not) that the test commits to
                      \* the Beacon mock itself

ASSUME ContentAssumption == Empty \in Contents
ASSUME BoundAssumption ==
    /\ MaxSnapshots \in Nat \ {0}
    /\ MaxHardhat \in Nat
    /\ MaxFaults \in Nat
    /\ MaxSent \in Nat
    /\ MaxMined \in Nat
    /\ MaxAdvance \in Nat \ {0}
    /\ TestBlocks \subseteq BOOLEAN

VARIABLES
    \* Hardhat
    el,                  \* the execution chain
    saved,               \* the chain each evm_snapshot saved, by id
    live,                \* the ids evm_revert still knows
    interval,            \* interval mining is on
    \* the mocks and the modules
    bn,                  \* the Beacon mock's database
    docker,              \* the Docker mock's state
    files,               \* the test folder
    modules,             \* the state of each module instance
    \* TestManager and the snapshot maps of the mocks
    registeredModules,   \* name -> instance
    hardhatSnapshotMap,  \* snapshot name -> Hardhat id, 0 when absent
    bnSnaps,             \* the Beacon mock's snapshots
    dockerSnaps,         \* the Docker mock's snapshots
    fsSnaps,             \* the snapshot folders
    snapshots,           \* m.snapshots: name -> instance -> state
    created,             \* snapshot names handed out so far
    folders,             \* the folders fsManager still has a path for
    \* the running method
    pc,                  \* the call it makes next
    arg,                 \* its snapshot
    todo,                \* module names its loop has not reached
    states,              \* the module states collected so far
    left,                \* slots still to advance
    amount,              \* slots to add to Hardhat's clock
    closing,             \* RevertSnapshot was called by Close
    last,                \* the method that returned nil and left no trace since
    faults,              \* failed calls so far
    \* history
    ideal,               \* the services when the snapshot was taken
    drifted,             \* snapshots whose Hardhat copy may differ from ideal
    lost,                \* a baseline revert broke off with no live copy left
    disturbed            \* a call failed, a deleted snapshot was reverted, or
                         \* the test committed or replaced the Beacon chain itself

hardhat == <<el, saved, live>>
mocks == <<bn, docker, files, modules>>
stores == <<hardhatSnapshotMap, bnSnaps, dockerSnaps, fsSnaps, snapshots>>
frame == <<registeredModules, created, folders, interval>>
control == <<arg, todo, states, left, amount, closing>>
history == <<ideal, drifted, lost, disturbed>>
vars == <<hardhat, mocks, stores, frame, control, history, pc, last, faults>>

Names == 1 .. MaxSnapshots
Baseline == 1

\* A module instance (an IOshaModule): its name and which of that name it is.
Instances == ModuleNames \X Versions

\* block: the latest block; offset: slots added to the clock; sent and auto:
\* how many of the blocks hold a transaction of the test or were mined by
\* interval mining.  The others were mined by evm_mine.
Chains == [block : Nat, offset : Nat, sent : Nat, auto : Nat]

CreateCalls == {"evm_snapshot", "bn_take", "docker_take", "fs_take",
                "modules_take"}
RevertCalls == {"evm_revert", "evm_resnapshot", "bn_revert", "docker_revert",
                "fs_revert", "modules_revert", "fs_close"}
ChainCalls == {"evm_mine", "evm_increaseTime", "bn_commit", "bn_skip",
               "evm_increaseTimeAll"}

World == [el |-> el, bn |-> bn, docker |-> docker, files |-> files,
          modules |-> modules]
Worlds == [el : Chains, bn : Databases, docker : Contents,
           files : Contents \union {NoValue, PartialCopy},
           modules : [Instances -> Contents]]

TypeOK ==
    /\ el \in Chains
    /\ saved \in Seq(Chains)
    /\ live \subseteq 1 .. Len(saved)
    /\ interval \in BOOLEAN
    /\ World \in Worlds
    /\ registeredModules \in [ModuleNames -> Instances \union {NoValue}]
    /\ hardhatSnapshotMap \in [Names -> 0 .. Len(saved)]
    /\ bnSnaps \in [Names -> Databases \union {NoValue}]
    /\ dockerSnaps \in [Names -> Contents \union {NoValue}]
    /\ fsSnaps \in [Names -> Contents \union {NoValue, PartialCopy}]
    /\ DOMAIN snapshots \subseteq Names
    /\ \A n \in DOMAIN snapshots :
          snapshots[n] \in [Instances -> Contents \union {NoValue}]
    /\ created \in Names
    /\ folders \subseteq {"test", "snapshots"}
    /\ pc \in {"connect", "idle", "failed"} \union CreateCalls
              \union RevertCalls \union ChainCalls
    /\ arg \in 1 .. created
    /\ todo \subseteq ModuleNames
    /\ states \in [Instances -> Contents \union {NoValue}]
    /\ left \in 0 .. MaxAdvance
    /\ amount \in 0 .. MaxAdvance
    /\ closing \in BOOLEAN
    /\ last \in {"none", "create", "revert", "close", "commit", "skip"}
    /\ faults \in 0 .. MaxFaults
    /\ ideal \in [Names -> Worlds \union {NoValue}]
    /\ drifted \subseteq Names
    /\ lost \in BOOLEAN
    /\ disturbed \in BOOLEAN

\* NewTestManager after it has made the folders; it connects to Hardhat next.
Init ==
    /\ el = [block |-> FirstBlock, offset |-> 0, sent |-> 0, auto |-> 0]
    /\ saved = <<>> /\ live = {} /\ interval = FALSE
    /\ bn = NewDatabase
    /\ docker = Empty /\ files = Empty
    /\ modules = [i \in Instances |-> Empty]
    /\ registeredModules = [m \in ModuleNames |-> NoValue]
    /\ hardhatSnapshotMap = [n \in Names |-> 0]
    /\ bnSnaps = [n \in Names |-> NoValue]
    /\ dockerSnaps = [n \in Names |-> NoValue]
    /\ fsSnaps = [n \in Names |-> NoValue]
    /\ snapshots = [n \in {} |-> NoValue]
    /\ created = Baseline /\ folders = {"test", "snapshots"}
    /\ pc = "connect" /\ arg = Baseline /\ todo = {}
    /\ states = [i \in Instances |-> NoValue]
    /\ left = 0 /\ amount = 0 /\ closing = FALSE
    /\ last = "none" /\ faults = 0
    /\ ideal = [n \in Names |-> NoValue]
    /\ drifted = {} /\ lost = FALSE /\ disturbed = FALSE

-----------------------------------------------------------------------------
(* Hardhat *)

EvmSnapshot ==
    /\ saved' = Append(saved, el)
    /\ live' = live \union {Len(saved) + 1}
    /\ UNCHANGED el

\* An unknown id is answered with false.
EvmRevert(id) ==
    \/ id \in live /\ el' = saved[id] /\ live' = {j \in live : j < id}
                  /\ UNCHANGED saved
    \/ id \notin live /\ UNCHANGED hardhat

EvmMine == el' = [el EXCEPT !.block = @ + 1] /\ UNCHANGED <<saved, live>>

EvmIncreaseTime(slots) ==
    el' = [el EXCEPT !.offset = @ + slots] /\ UNCHANGED <<saved, live>>

\* Interval mining runs whatever TestManager is doing.
IntervalMine ==
    /\ interval /\ el.auto < MaxMined
    /\ el' = [el EXCEPT !.block = @ + 1, !.auto = @ + 1]
    /\ UNCHANGED <<saved, live, mocks, stores, frame, control, history, pc, last,
                   faults>>

-----------------------------------------------------------------------------
(* How a call ends *)

Stored(n) == n \in DOMAIN snapshots

Goto(call) == pc' = call /\ UNCHANGED <<last, faults, lost, disturbed>>

Return(method) ==
    pc' = "idle" /\ last' = method /\ UNCHANGED <<faults, lost, disturbed>>

\* The method returns an error.  Until the baseline is stored the method is
\* the constructor, and there is no TestManager to go on with.
ReturnError ==
    /\ pc' = IF Stored(Baseline) THEN "idle" ELSE "failed"
    /\ last' = "none"

\* A call that may always fail does.
Fail ==
    /\ faults < MaxFaults
    /\ faults' = faults + 1
    /\ disturbed' = TRUE
    /\ ReturnError

\* A call that cannot work is refused.
Refuse == ReturnError /\ UNCHANGED <<faults, lost, disturbed>>

Idle == pc = "idle"

\* The start of a method that the test calls between two others.
Begin(call) ==
    /\ Idle
    /\ pc' = call /\ last' = "none"
    /\ UNCHANGED <<faults, lost, disturbed>>

-----------------------------------------------------------------------------
(* NewTestManager and CreateSnapshot *)

\* fsManager.Close: the test folder goes first, and its path with it, then the
\* snapshots.
FilesClosed == files' = NoValue /\ folders' = {}
FilesLeft ==
    \/ files' = PartialCopy /\ UNCHANGED folders
    \/ files' = NoValue /\ folders' = {"snapshots"}

\* Dialing Hardhat and reading its latest block; an error closes the folders,
\* whose own error is only logged.
Connect ==
    /\ pc = "connect"
    /\ \/ Goto("evm_snapshot") /\ UNCHANGED <<files, folders>>
       \/ Fail /\ (FilesClosed \/ FilesLeft) /\ UNCHANGED lost
    /\ UNCHANGED <<hardhat, bn, docker, modules, stores, registeredModules,
                   created, interval, control, ideal, drifted>>

CreateSnapshot ==
    /\ created < MaxSnapshots /\ Len(saved) < MaxHardhat
    /\ Begin("evm_snapshot")
    /\ created' = created + 1 /\ arg' = created + 1
    /\ UNCHANGED <<hardhat, mocks, stores, registeredModules, folders, interval,
                   todo, states, left, amount, closing, ideal, drifted>>

TakeHardhat ==
    /\ pc = "evm_snapshot"
    /\ \/ /\ EvmSnapshot
          /\ hardhatSnapshotMap' = [hardhatSnapshotMap EXCEPT ![arg] = Len(saved) + 1]
          /\ ideal' = [ideal EXCEPT ![arg] = World]
          /\ Goto("bn_take")
       \/ /\ EvmSnapshot \/ UNCHANGED hardhat
          /\ Fail
          /\ UNCHANGED <<hardhatSnapshotMap, ideal, lost>>
    /\ UNCHANGED <<mocks, bnSnaps, dockerSnaps, fsSnaps, snapshots, frame, control,
                   drifted>>

TakeBeacon ==
    /\ pc = "bn_take"
    /\ bnSnaps' = [bnSnaps EXCEPT ![arg] = Clone(bn)]
    /\ Goto("docker_take")
    /\ UNCHANGED <<hardhat, mocks, hardhatSnapshotMap, dockerSnaps, fsSnaps,
                   snapshots, frame, control, ideal, drifted>>

\* Mutant: an error of the Docker mock does not end CreateSnapshot.
TakeDockerRegardless ==
    /\ pc = "docker_take"
    /\ \/ dockerSnaps' = [dockerSnaps EXCEPT ![arg] = docker]
       \/ UNCHANGED dockerSnaps
    /\ Goto("fs_take")
    /\ UNCHANGED <<hardhat, mocks, hardhatSnapshotMap, bnSnaps, fsSnaps,
                   snapshots, frame, control, ideal, drifted>>

TakeDocker ==
    /\ pc = "docker_take"
    /\ \/ dockerSnaps' = [dockerSnaps EXCEPT ![arg] = docker] /\ Goto("fs_take")
       \/ Fail /\ UNCHANGED <<dockerSnaps, lost>>
    /\ UNCHANGED <<hardhat, mocks, hardhatSnapshotMap, bnSnaps, fsSnaps,
                   snapshots, frame, control, ideal, drifted>>

\* Copying fails when there is no test folder; what was copied stays.
TakeFiles ==
    /\ pc = "fs_take"
    /\ \/ /\ files # NoValue
          /\ fsSnaps' = [fsSnaps EXCEPT ![arg] = files]
          /\ Goto("modules_take")
          /\ todo' = {m \in ModuleNames : registeredModules[m] # NoValue}
          /\ states' = [i \in Instances |-> NoValue]
       \/ /\ Fail
          /\ fsSnaps' = [fsSnaps EXCEPT ![arg] = PartialCopy]
          /\ UNCHANGED <<todo, states, lost>>
       \/ /\ files = NoValue
          /\ Refuse
          /\ fsSnaps' = [fsSnaps EXCEPT ![arg] = PartialCopy]
          /\ UNCHANGED <<todo, states>>
    /\ UNCHANGED <<hardhat, mocks, hardhatSnapshotMap, bnSnaps, dockerSnaps,
                   snapshots, frame, arg, left, amount, closing, ideal, drifted>>

\* One round of the loop over registeredModules, in any order (a Go map).
TakeModule ==
    /\ pc = "modules_take" /\ todo # {}
    /\ \E m \in todo :
          LET i == registeredModules[m]
          IN  \/ /\ states' = [states EXCEPT ![i] = modules[i]]
                 /\ todo' = todo \ {m}
                 /\ Goto("modules_take")
              \/ Fail /\ UNCHANGED <<states, todo, lost>>
    /\ UNCHANGED <<hardhat, mocks, stores, frame, arg, left, amount, closing,
                   ideal, drifted>>

StoreSnapshot ==
    /\ pc = "modules_take" /\ todo = {}
    /\ snapshots' = [n \in DOMAIN snapshots \union {arg} |->
                        IF n = arg THEN states ELSE snapshots[n]]
    /\ Return("create")
    /\ UNCHANGED <<hardhat, mocks, hardhatSnapshotMap, bnSnaps, dockerSnaps,
                   fsSnaps, frame, control, ideal, drifted>>

-----------------------------------------------------------------------------
(* RevertSnapshot, RevertToBaseline, DependsOn and Close *)

\* A name that is not stored is an error before any service is touched.
BeginRevert(n, byClose) ==
    /\ Stored(n) /\ Len(saved) < MaxHardhat
    /\ Begin("evm_revert")
    /\ arg' = n /\ closing' = byClose
    /\ UNCHANGED <<hardhat, mocks, stores, frame, todo, states, left, amount,
                   ideal, drifted>>

RevertSnapshot(n) == BeginRevert(n, FALSE)
RevertToBaseline == BeginRevert(Baseline, FALSE)
Close == BeginRevert(Baseline, TRUE)

\* The call of evm_revert: only an error ends the method, not the answer.
RevertHardhat ==
    /\ pc = "evm_revert"
    /\ LET id == hardhatSnapshotMap[arg]
       IN  \/ /\ EvmRevert(id)
              /\ pc' = "evm_resnapshot"
              /\ drifted' = IF id \in live THEN drifted ELSE drifted \union {arg}
              /\ disturbed' = (disturbed \/ id \notin live)
              /\ UNCHANGED <<last, faults, lost>>
           \/ /\ EvmRevert(id)
              /\ Fail
              /\ lost' = (lost \/ arg = Baseline)
              /\ UNCHANGED drifted
           \/ Fail /\ UNCHANGED <<hardhat, lost, drifted>>
    /\ UNCHANGED <<mocks, stores, frame, control, ideal>>

\* Mutant: the id of the new Hardhat snapshot is not kept.
RetakeAndForget ==
    /\ pc = "evm_resnapshot"
    /\ EvmSnapshot
    /\ Goto("bn_revert")
    /\ UNCHANGED <<mocks, stores, frame, control, ideal, drifted>>

\* Mutant: the id of the new Hardhat snapshot is kept under the wrong name.
RetakeForBaseline ==
    /\ pc = "evm_resnapshot"
    /\ EvmSnapshot
    /\ hardhatSnapshotMap' = [hardhatSnapshotMap EXCEPT ![Baseline] = Len(saved) + 1]
    /\ Goto("bn_revert")
    /\ UNCHANGED <<mocks, bnSnaps, dockerSnaps, fsSnaps, snapshots, frame, control,
                   ideal, drifted>>

\* evm_revert has deleted the snapshot, so a new one takes its place.
RetakeHardhat ==
    /\ pc = "evm_resnapshot"
    /\ \/ /\ EvmSnapshot
          /\ hardhatSnapshotMap' = [hardhatSnapshotMap EXCEPT ![arg] = Len(saved) + 1]
          /\ Goto("bn_revert")
       \/ /\ EvmSnapshot \/ UNCHANGED hardhat
          /\ Fail
          /\ lost' = (lost \/ arg = Baseline)
          /\ UNCHANGED hardhatSnapshotMap
    /\ UNCHANGED <<mocks, bnSnaps, dockerSnaps, fsSnaps, snapshots, frame, control,
                   ideal, drifted>>

\* The mocks refuse a name they have no snapshot of; a stored name always
\* has one (StoredIsComplete).
RevertBeacon ==
    /\ pc = "bn_revert" /\ bnSnaps[arg] # NoValue
    /\ bn' = Clone(bnSnaps[arg])
    /\ Goto("docker_revert")
    /\ UNCHANGED <<hardhat, docker, files, modules, stores, frame, control, ideal,
                   drifted>>

RevertDocker ==
    /\ pc = "docker_revert" /\ dockerSnaps[arg] # NoValue
    /\ \/ docker' = dockerSnaps[arg] /\ Goto("fs_revert")
       \/ Fail /\ UNCHANGED <<docker, lost>>
    /\ UNCHANGED <<hardhat, bn, files, modules, stores, frame, control, ideal,
                   drifted>>

\* Mutant: an error of the copy does not end RevertSnapshot.
RevertFilesRegardless ==
    /\ pc = "fs_revert"
    /\ files' \in {fsSnaps[arg], PartialCopy}
    /\ todo' = {m \in ModuleNames : registeredModules[m] # NoValue}
    /\ Goto("modules_revert")
    /\ UNCHANGED <<hardhat, bn, docker, modules, stores, frame, arg, states, left,
                   amount, closing, ideal, drifted>>

\* Remove the test folder, make it again, copy the snapshot into it: an error
\* leaves no folder or part of one.
RevertFiles ==
    /\ pc = "fs_revert" /\ fsSnaps[arg] # NoValue
    /\ \/ /\ "test" \in folders
          /\ files' = fsSnaps[arg]
          /\ todo' = {m \in ModuleNames : registeredModules[m] # NoValue}
          /\ Goto("modules_revert")
       \/ /\ "test" \in folders
          /\ Fail
          /\ files' \in {NoValue, PartialCopy}
          /\ UNCHANGED <<todo, lost>>
       \/ /\ "test" \notin folders
          /\ Refuse
          /\ UNCHANGED <<files, todo>>
    /\ UNCHANGED <<hardhat, bn, docker, modules, stores, frame, arg, states, left,
                   amount, closing, ideal, drifted>>

\* One round of the loop: an instance the snapshot does not know is skipped.
RevertModule ==
    /\ pc = "modules_revert" /\ todo # {}
    /\ \E m \in todo :
          LET i == registeredModules[m]
              state == snapshots[arg][i]
          IN  \/ /\ modules' = IF state = NoValue THEN modules
                               ELSE [modules EXCEPT ![i] = state]
                 /\ todo' = todo \ {m}
                 /\ Goto("modules_revert")
              \/ state # NoValue /\ Fail /\ UNCHANGED <<modules, todo, lost>>
    /\ UNCHANGED <<hardhat, bn, docker, files, stores, frame, arg, states, left,
                   amount, closing, ideal, drifted>>

EndRevert ==
    /\ pc = "modules_revert" /\ todo = {}
    /\ \/ closing /\ Goto("fs_close")
       \/ ~closing /\ Return("revert")
    /\ UNCHANGED <<hardhat, mocks, stores, frame, control, ideal, drifted>>

CloseFiles ==
    /\ pc = "fs_close"
    /\ \/ FilesClosed /\ Return("close")
       \/ Fail /\ FilesLeft /\ UNCHANGED lost
    /\ UNCHANGED <<hardhat, bn, docker, modules, stores, registeredModules, created,
                   interval, control, ideal, drifted>>

-----------------------------------------------------------------------------
(* Chain modification *)

BeginAdvance(call, slots) ==
    /\ bn.currentSlot + slots <= MaxSlot
    /\ Begin(call)
    /\ left' = slots /\ amount' = slots
    /\ UNCHANGED <<hardhat, mocks, stores, frame, arg, todo, states, closing, ideal,
                   drifted>>

CommitBlock == BeginAdvance("evm_mine", 1)

\* No slots with blocks is no call at all.
AdvanceSlots(slots, includeBlocks) ==
    \/ includeBlocks /\ slots > 0 /\ BeginAdvance("evm_mine", slots)
    \/ ~includeBlocks /\ BeginAdvance("bn_skip", slots)

MineBlock ==
    /\ pc = "evm_mine"
    /\ \/ EvmMine /\ Goto("evm_increaseTime")
       \/ (EvmMine \/ UNCHANGED hardhat) /\ Fail /\ UNCHANGED lost
    /\ UNCHANGED <<mocks, stores, frame, control, ideal, drifted>>

IncreaseTime ==
    /\ pc = "evm_increaseTime"
    /\ \/ EvmIncreaseTime(1) /\ Goto("bn_commit")
       \/ (EvmIncreaseTime(1) \/ UNCHANGED hardhat) /\ Fail /\ UNCHANGED lost
    /\ UNCHANGED <<mocks, stores, frame, control, ideal, drifted>>

CommitBeacon ==
    /\ pc = "bn_commit"
    /\ bn' = WithBlock(bn, TRUE)
    /\ left' = left - 1
    /\ \/ left > 1 /\ Goto("evm_mine")
       \/ left = 1 /\ Return("commit")
    /\ UNCHANGED <<hardhat, docker, files, modules, stores, frame, arg, todo, states,
                   amount, closing, ideal, drifted>>

\* Mutant: the loop runs its body before the test.
SkipSlotFirst ==
    /\ pc = "bn_skip"
    /\ bn' = WithBlock(bn, FALSE) /\ left' = left - 1
    /\ Goto(IF left > 1 THEN "bn_skip" ELSE "evm_increaseTimeAll")
    /\ UNCHANGED <<hardhat, docker, files, modules, stores, frame, arg, todo, states,
                   amount, closing, ideal, drifted>>

\* Mutant: the loop does not count.
SkipSlotForever ==
    /\ pc = "bn_skip"
    /\ \/ left > 0 /\ UNCHANGED <<bn, left>> /\ Goto("bn_skip")
       \/ left = 0 /\ UNCHANGED <<bn, left>> /\ Goto("evm_increaseTimeAll")
    /\ UNCHANGED <<hardhat, docker, files, modules, stores, frame, arg, todo, states,
                   amount, closing, ideal, drifted>>

SkipSlot ==
    /\ pc = "bn_skip"
    /\ \/ left > 0 /\ bn' = WithBlock(bn, FALSE) /\ left' = left - 1 /\ Goto("bn_skip")
       \/ left = 0 /\ UNCHANGED <<bn, left>> /\ Goto("evm_increaseTimeAll")
    /\ UNCHANGED <<hardhat, docker, files, modules, stores, frame, arg, todo, states,
                   amount, closing, ideal, drifted>>

\* Mutant: the clock is moved by one slot, however many were skipped.
IncreaseTimeOnce ==
    /\ pc = "evm_increaseTimeAll"
    /\ EvmIncreaseTime(1) /\ Return("skip")
    /\ UNCHANGED <<mocks, stores, frame, control, ideal, drifted>>

IncreaseTimeAll ==
    /\ pc = "evm_increaseTimeAll"
    /\ \/ EvmIncreaseTime(amount) /\ Return("skip")
       \/ (EvmIncreaseTime(amount) \/ UNCHANGED hardhat) /\ Fail /\ UNCHANGED lost
    /\ UNCHANGED <<mocks, stores, frame, control, ideal, drifted>>

\* SetMiningInterval, with an interval or with 0.
SetMiningInterval(on) ==
    /\ Idle
    /\ \/ Begin("idle") /\ interval' = on
       \/ Fail /\ interval' \in {interval, on} /\ UNCHANGED lost
    /\ UNCHANGED <<hardhat, mocks, stores, registeredModules, created, folders,
                   control, ideal, drifted>>

SetBeaconHeadSlot(slot) ==
    /\ Begin("idle")
    /\ bn' = WithHighestSlot(bn, slot)
    /\ UNCHANGED <<hardhat, docker, files, modules, stores, frame, control, ideal,
                   drifted>>

-----------------------------------------------------------------------------
(* The test between two methods *)

RegisterModule(i) ==
    /\ Begin("idle")
    /\ registeredModules' = [registeredModules EXCEPT ![i[1]] = i]
    /\ UNCHANGED <<hardhat, mocks, stores, created, folders, interval, control,
                   ideal, drifted>>

\* A transaction of the test, mined into a block of its own (automine).
SendTransaction ==
    /\ el.sent < MaxSent
    /\ Begin("idle")
    /\ el' = [el EXCEPT !.block = @ + 1, !.sent = @ + 1]
    /\ UNCHANGED <<saved, live, mocks, stores, frame, control, ideal, drifted>>

\* The test uses the Beacon mock through GetBeaconMockManager: it adds a
\* validator or commits.
UseBeacon ==
    /\ Idle
    /\ \/ /\ \E pubkey \in Pubkeys :
                ~HasPubkey(bn, pubkey) /\ bn' = WithValidator(bn, pubkey)
          /\ UNCHANGED disturbed
       \/ /\ bn.currentSlot < MaxSlot
          /\ \E validated \in TestBlocks : bn' = WithBlock(bn, validated)
          /\ disturbed' = TRUE
    /\ last' = "none"
    /\ UNCHANGED <<hardhat, docker, files, modules, stores, frame, control, ideal,
                   drifted, lost, pc, faults>>

UseMocks ==
    /\ Begin("idle")
    /\ \/ docker' \in Contents /\ UNCHANGED <<files, modules>>
       \/ /\ files # NoValue
          /\ files' \in Contents
          /\ UNCHANGED <<docker, modules>>
       \/ /\ \E i \in Instances, c \in Contents : modules' = [modules EXCEPT ![i] = c]
          /\ UNCHANGED <<docker, files>>
    /\ UNCHANGED <<hardhat, bn, stores, frame, control, ideal, drifted>>

-----------------------------------------------------------------------------
\* The steps of a method that is running.
Step ==
    \/ Connect \/ TakeHardhat \/ TakeBeacon \/ TakeDocker \/ TakeFiles
    \/ TakeModule \/ StoreSnapshot
    \/ RevertHardhat \/ RetakeHardhat \/ RevertBeacon \/ RevertDocker
    \/ RevertFiles \/ RevertModule \/ EndRevert \/ CloseFiles
    \/ MineBlock \/ IncreaseTime \/ CommitBeacon \/ SkipSlot \/ IncreaseTimeAll

Test ==
    \/ CreateSnapshot
    \/ \E n \in Names : RevertSnapshot(n)
    \/ RevertToBaseline \/ Close
    \/ CommitBlock
    \/ \E slots \in 0 .. MaxAdvance, includeBlocks \in BOOLEAN :
          AdvanceSlots(slots, includeBlocks)
    \/ \E on \in BOOLEAN : MaxMined > 0 /\ SetMiningInterval(on)
    \/ \E slot \in Slots : SetBeaconHeadSlot(slot)
    \/ \E i \in Instances : RegisterModule(i)
    \/ SendTransaction \/ UseBeacon \/ UseMocks

Next == Step \/ Test \/ IntervalMine

Spec == Init /\ [][Next]_vars

\* A method that is running goes on: each call it waits for returns.
FairSpec == Spec /\ WF_vars(Step)

-----------------------------------------------------------------------------
(* Properties *)

\* What the test and TestManager did to a chain: the blocks of interval
\* mining left out.
Told(chain) == [chain EXCEPT !.block = @ - chain.auto, !.auto = 0]

\* A name is in m.snapshots only with a copy from every service, all of one
\* moment, however many earlier or later CreateSnapshot calls broke off.
StoredIsComplete ==
    \A n \in Names : Stored(n) =>
        /\ hardhatSnapshotMap[n] # 0
        /\ bnSnaps[n] = Clone(ideal[n].bn)
        /\ dockerSnaps[n] = ideal[n].docker
        /\ fsSnaps[n] = ideal[n].files
        /\ \A i \in Instances :
              snapshots[n][i] \in {NoValue, ideal[n].modules[i]}

\* The window in which evm_revert has deleted the baseline's copy and no new
\* one is taken yet.
BetweenCopies == pc = "evm_resnapshot" /\ arg = Baseline

\* The baseline can always be reverted to: whatever snapshots are taken and
\* reverted, in whatever order, and whatever calls fail, its Hardhat copy
\* stays alive, unless a revert to the baseline itself broke off after
\* evm_revert.
BaselineAlive ==
    Stored(Baseline) /\ ~lost /\ ~BetweenCopies
        => hardhatSnapshotMap[Baseline] \in live

\* A live Hardhat copy is the chain CreateSnapshot saw, up to blocks of
\* interval mining, however often it was reverted to and taken again.
CopiesFaithful ==
    \A n \in Names :
        Stored(n) /\ n \notin drifted /\ hardhatSnapshotMap[n] \in live
            => Told(saved[hardhatSnapshotMap[n]]) = Told(ideal[n].el)

\* When RevertSnapshot or Close returns nil, the mocks, the files and the
\* registered modules that were there at CreateSnapshot are as they were, and
\* so is Hardhat, unless its copy had been deleted by an earlier revert.
RevertRestores ==
    last \in {"revert", "close"} =>
        /\ bn = Clone(ideal[arg].bn)
        /\ docker = ideal[arg].docker
        /\ files = IF last = "close" THEN NoValue ELSE ideal[arg].files
        /\ \A m \in ModuleNames :
              LET i == registeredModules[m]
              IN  i # NoValue /\ snapshots[arg][i] # NoValue
                      => modules[i] = ideal[arg].modules[i]
        /\ arg \notin drifted => Told(el) = Told(ideal[arg].el)

\* Between two methods the two chains keep step: Hardhat's clock has been moved
\* by one slot duration per Beacon slot, and as many blocks as CommitBlock mined
\* are linked, the Beacon mock's next index being the latest of them: each slot
\* is linked to the block before its own (SlotReferencesItsBlock).  Snapshots
\* and reverts keep it so; calls that fail half way do not.
ChainsAligned ==
    Idle /\ ~disturbed =>
        /\ el.offset = bn.currentSlot
        /\ el.block = bn.nextExecutionBlockIndex + el.sent + el.auto

\* Every method returns, with interval mining going on all the while.
MethodsReturn == pc # "idle" ~> pc \in {"idle", "failed"}

\* What AdvanceSlots says of a slot with a block: "an EL block will be mined for
\* each slot and the slot will reference that block".
SlotReferencesItsBlock ==
    last = "commit" /\ ~disturbed /\ el.auto = 0 =>
        bn.executionBlockMap[bn.currentSlot - 1] = el.block

\* What the code around evm_revert relies on: taking the snapshot again keeps
\* it usable, so that RevertSnapshot, when it returns nil, has reverted
\* Hardhat.
RevertRestoresHardhat ==
    last = "revert" => Told(el) = Told(ideal[arg].el)
=============================================================================

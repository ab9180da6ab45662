# TLA+ models of osha

osha is test tooling for Ethereum node software. A test creates a `TestManager`,
which drives a Hardhat execution client over RPC, a mock Beacon node, a mock
Docker client and a temporary test folder, and takes and reverts snapshots that
span all of them. The Beacon mock can also run on its own as an HTTP server,
`osha-bn`. This directory holds TLA+ models of that code, TLC configurations
that check them on small instances, and TLAPS proofs that hold for every value
of the constants.

## Inventory

| Part | State | Operations | What is hard about it |
|---|---|---|---|
| Beacon database (`beacon/db`) | validators (slice and pubkey map), pending deposits, slots, block links; one RW lock | add and look up validators, balance with hysteresis, status, slash, deposits, commit a block, set the head, clone | `*Validator` fields are outside the lock; balances are `uint64`; `Clone` must be deep |
| Beacon manager (`beacon/manager`) | pointer to the database, map of named clones | take and revert snapshots, set the database, pass-through methods, Beacon API responses | callers keep `*Validator` pointers across a revert; responses read several values under separate locks |
| Beacon server (`beacon/server`) | one manager, listener, routes | one handler per route, Start, Stop | handlers run concurrently; nil validators panic; Stop waits for handlers |
| osha-bn (`beacon/osha-bn.go`) | wait group, signal goroutine | start, signal, exit | main waits for Serve, not for Shutdown |
| Test manager (`test-manager.go`) | registered modules, snapshot map, Hardhat id per snapshot | construct, create, revert and depend on snapshots, close, commit, advance, automine and interval mining | a method is a row of calls, each of which can fail; Hardhat deletes snapshots and mines by itself |
| Filesystem manager (`filesystem`) | test folder, snapshot folder | snapshot, revert, close | remove, make and copy can stop half way; a snapshot name is a path |
| Docker mock client (`docker/client.go`, `manager.go`, `state.go`) | containers, networks, volumes, subnets, address counters, hashes; named clones | the Docker API subset, admin functions, snapshots | fifteen subnets; endpoints held in networks and containers; fields that may be nil |
| Docker compose mock (`docker/compose.go`, `generation.go`) | none of its own | Up, Stop, Down, Config | loops over Go maps that stop at the first error; hashes decide what Up regenerates; names of four kinds (service, container, network, YAML) |
| Key generator (`keys`) | a cache | derive keys | nothing shared or concurrent |
| Beacon configuration (`beacon/db/config.go`) | a record | defaults, load, clone | `Clone` leaves out a field |
| Hardhat | the execution chain | RPC | external |

Interactions: `TestManager` calls Hardhat by RPC and the mocks directly; the
mocks never call back. The modules a test registers are called by
`CreateSnapshot` and `RevertSnapshot` in the order of a Go map. The HTTP server
shares one manager between all handlers. Test code holds pointers into the
Beacon database. The hazards that follow from this are listed, each at its
line, in `PROJECT.json`.

What makes each part correct:

- database: slice, index and pubkey lookup agree; linked slots count the
  execution blocks off without gap or repetition;
- manager: a stored snapshot never changes, a revert brings back what was taken;
- server: responses made of several reads are consistent, indices stand, racing
  writes leave nothing behind that changes a later request, requests end;
- process: a signal ends it, and nothing runs after Stop has returned;
- test manager: a snapshot is stored only when it is complete, nil from a revert
  means that everything was reverted, the baseline can always be reverted to,
  the two chains stay aligned, every method returns;
- Docker mock: a subnet belongs to one network and none is lost; a container and
  its networks agree on its address; an Up that returns nil has provided the
  project; a snapshot is the whole state;
- filesystem: a snapshot that was taken is a whole copy, a revert brings back all
  of it and nothing else, and Close leaves nothing.

## Modules

| Module | Models | Extends |
|---|---|---|
| `BeaconDatabase` | `Database` and `Validator`: each method as an operator on a database value | |
| `BeaconManager` | `BeaconMockManager` and its callers; implements `SnapshotStore` | `BeaconDatabase`, instance of `SnapshotStore` |
| `BeaconDatabaseProofs` | lemmas about those methods, shared by the proofs below | `BeaconDatabase`, `TLAPS` |
| `BeaconManagerProofs` | theorems about it | `BeaconManager`, `BeaconDatabaseProofs` |
| `BeaconServer` | HTTP handlers and the osha-bn process | `BeaconDatabase` |
| `BeaconServerProofs` | theorems about it | `BeaconServer`, `BeaconDatabaseProofs` |
| `TestManager` | `TestManager` with Hardhat, the mocks, the files and the modules | `BeaconDatabase` |
| `TestManagerProofs` | theorems about Hardhat's copies | `TestManager`, `TLAPS` |
| `TestManagerSnapshotProofs` | theorems about whole snapshots and the two chains | `TestManagerProofs`, `BeaconDatabaseProofs` |
| `SnapshotStore` | what every snapshot manager promises: named copies of one value | |
| `DockerMock` | `DockerMockManager`: client, admin functions, compose commands, snapshots; implements `SnapshotStore` | instance of `SnapshotStore` |
| `DockerMockProofs` | theorems about subnets and snapshots | `DockerMock`, `TLAPS` |
| `DockerMockStateProofs` | theorems about containers, addresses and `Up` | `DockerMockProofs`, `WellFoundedInduction` |
| `Filesystem` | `FilesystemManager` with the walk of `copyDirectory`; implements `SnapshotStore` | instance of `SnapshotStore` |
| `FilesystemProofs` | theorems about it | `Filesystem`, `TLAPS` |
| `MCBeaconManager`, `MCBeaconServer`, `MCTestManager` | what TLC needs (symmetry sets) | the above |
| `MCDockerMock`, `MCFilesystem` | compose projects, paths and names for TLC | the above |

**BeaconDatabase.** A database is a record with the fields of the Go struct. A
`*Validator` is a position in `validators`, so `validatorPubkeyMap` maps to
positions and 0 is nil. Methods that hold `db.lock` are one operator each.
`uint64` arithmetic is modulo `UintMod`; the two hysteresis tests of
`SetBalance` are kept in their order. `Clone` rebuilds the lookup from the
copied slice, as the code does, and leaves the pending deposits empty, as the
code does. Pending deposits are a set, which keeps membership and emptiness.

**BeaconManager.** Databases are on a `heap`; `database` and `snapshots` point
into it and `held` is the `*Validator` a caller got from `AddValidator` or
`GetValidator`. Copies and aliases can therefore be told apart: a write through
an old pointer reaches the database that allocated the validator. `taken` is
history: the value when the snapshot was taken; `last` is the snapshot call that
has just returned nil. `RemovePendingDeposit` panics
on an empty list (capacity `len - 1`), which ends the behaviour.

**BeaconServer.** Each client has one request at a time; `pc` names the next
step of its handler and `call` its variables. A database method is one step;
after it, every load and store of a validator's fields is a step of its own,
because no lock is held. A Go string is two words, so a status is stored in two
steps, `size` and `Status`, and a reader that meets words of two statuses of
different length sees neither. The two tests of `SetBalance` each load the
effective balance, and the decrement or increment loads it again (`LowerLoad`,
`RaiseLoad`); `Slash` loads the status once for each of its comparisons. A
handler's variables are cleared when the method they belong to returns. `Start`,
`Stop`, `ServeReturns`, `ServeFails`, `StopReturns` and `MainReturns` are the
process: `Shutdown` makes `Serve` return at once and waits for the handlers, while
main waits only for the goroutine around `Serve`, which may also end with an error
of its own. `Exit` is the end of the process, with whatever still runs in it: when
main returns, when the socket cannot be opened, and when `Stop` fails. `Routes` is
the set of routes the clients of an instance use.

**TestManager.** Every call a method makes to Hardhat, a mock, the files or a
module is a step; `pc` names the next one, and `arg`, `todo`, `states`, `left`
and `amount` are the method's variables. Each call that can fail does, up to
`MaxFaults` times: an RPC before or after it took effect, a copy half way. Then
the method returns, as the code does, with whatever it has changed so far.
Hardhat is modelled from the calls the code makes: ids grow, `evm_revert`
deletes the snapshot and all later ones and answers false for a deleted one,
and interval mining runs at any time. `ideal` is history: all services at the
moment of `CreateSnapshot`; `drifted`, `lost` and `disturbed` record that a
deleted snapshot was reverted, that a baseline revert broke off after
`evm_revert`, and that something of the kind or a failed call happened.
`UseBeacon` and `UseMocks` are the test itself, which changes the mocks, files and
modules between methods; `TestBlocks` says which blocks it commits to the Beacon
mock behind the back of `TestManager`, which sets `disturbed`.

The Docker mock and the files are opaque contents here; `DockerMock` and
`Filesystem` open them, and show that their snapshots are what this module takes
them for: one step that copies everything or an error.

**SnapshotStore.** `live` is the value in use and `saved` the copies under their
names. A call that returns nil is one step; `last` names it, so that an
implementation cannot pass off a revert that changed too little as an ordinary
change. `Change` is anything the owner of the value does, a call that failed
included, and never touches a copy.

**DockerMock.** `state` is the Go struct, a record of its maps. `generateNetwork`
and `generateService` are operators on it, like the methods of the client; of a
container the model keeps its ID, whether it runs, its address in each network,
and whether it is `Bare` (from `Mock_AddContainer`, without the fields some calls
dereference). An address is the pair that IP and MAC are made of: the subnet and
the byte taken from `networkIndices`, which is keyed by the YAML name, as in the
code. A compose command is a row of steps: `pc` names the loop, `todo` what it
has still to visit, in any order where the code ranges over a map and in sorted
order, external networks first, where it sorts. `Fail` is the early return in the
middle of a loop. The hash of a service is the service itself. A service that is
not `Supported` stands for the mounts and ports that `generateService` refuses.
Calls do not overlap: the mock has no lock and starts no goroutine, and its
callers in the repository are sequential tests.

**Filesystem.** A folder is a function from paths to entries. `TakeSnapshot` and
`RevertToSnapshot` start a walk, `CopyEntry` is one visit of it, in the order in
which `filepath.Walk` visits, and every call of the file system may fail, before
or after a part of its effect: `RemoveAll` leaves a part of the tree
(`Leftovers`), `io.Copy` a part of a file. A snapshot's name is a path below the
snapshot folder, because the code joins the two. `complete` is history: the names
whose `TakeSnapshot` returned nil.

The map in `PROJECT.json` gives the lines of each definition.

## Runs

| Run | Bounds | Shows |
|---|---|---|
| `beacon` | one pubkey, one slot, one name, three databases, one pointer holder, one deposit | types; snapshots never change (`SnapshotsIsolated`), because nobody else points to one (`Unshared`); a revert restores (`RevertRestores`); `IsStore`, the refinement of `SnapshotStore`; `LookupsAlwaysAgree` and `ChainAlwaysLinked` in every database |
| `beacon_snapshot_deposits` | one deposit | violated: a snapshot has no pending deposits |
| `server_reads` | two clients, two pubkeys, two slots, a head request, the nine routes that read, add or commit | `SyncDistanceNeverWraps`, `FinalizedNotAhead`, `IndicesStand`, `AddedIsFound` |
| `server_writes` | two clients on one validator with the four routes that write one, a balance, a penalty, a status, integers modulo 3, fair goroutines | types; `AloneIsSequential`; `NothingAfterStop`; `RequestsEnd`, `StopEnds`, `SignalEnds` |
| `test_services` | two names, four Hardhat ids, two contents, two instances of a module, one validator, one failing call | types; `StoredIsComplete`; `RevertRestores`; `BaselineAlive` |
| `test_chain` | two slots, a transaction, interval mining, a block the test commits itself, two names, no modules, no failing call, fair methods | `ChainsAligned`, `CopiesFaithful`, `MethodsReturn` |
| `test_slots` | one slot, no failing call | violated: the slot does not reference the block mined for it |
| `test_nested` | three names, six Hardhat ids, no failing call | violated: a revert that returns nil need not revert Hardhat |
| `docker_compose` | three projects, two subnets, three network names, four containers ever, an added container and volume, bytes modulo 4 | types; `SubnetsConserved`; `ContainersConnected`; `UpProvides` |
| `docker_snapshots` | two projects on a shared network, one snapshot name, four containers ever | `SubnetsConserved` and `AddressesDistinct` in the state and the snapshot; `IsStore`, the refinement of `SnapshotStore` |
| `docker_network` | three projects, bytes modulo 8 | violated: a network no container is on is still in use |
| `files` | a folder of two files, three names of which one continues another, two failing calls | types; `ClosedIsClean`; `IsStore`, the refinement of `SnapshotStore` |

Why the bounds are enough. Aliasing between databases shows with a snapshot and a
revert to it: three databases, one pointer. `LookupsAlwaysAgree` and
`ChainAlwaysLinked` are rehearsed on one pubkey and one slot: that several
validators, or a gap between several slots, break neither is shown by
`LookupsCorrect` and `ChainCorrect` alone. A race on a validator is between two
handlers, and a third overlapping one adds no new pair of steps. Integers that wrap
at 3 (`server_writes`) meet the arithmetic of 2^64 at its edge. `Pending` and
`active` statuses differ in length, so readers meet torn ones while a write is
under way; torn statuses that two racing writers leave behind need two new statuses
of different length, and rest on `AloneCorrect`. That the handlers of lists end is
not part of `RequestsEnd` in this run, which has the four routes that write; each
of their rounds takes an id away. Two names and four
Hardhat ids are enough to lose a copy to a revert and to revert to the lost one;
what holds for more names and failures is proved (`BaselineStaysAlive`,
`CopiesStayFaithful`). Hardhat's chain does not change in `test_services`, nor the
Beacon mock's slots: of `StoredIsComplete` and `RevertRestores`, what concerns them
rests on `StoredCorrect` and `RevertCorrect`, and `CopiesFaithful` with failing
calls, which `test_chain` does not have, on `CopiesStayFaithful`. `UpProvides` after
a revert of the mock rests on `UpCorrect`. For the Docker mock, two
subnets for three networks make Up fail half way; three projects are enough for a
changed service, a refused one, a container that is not named after its service,
a network two projects share and a YAML name two projects use for different
networks; four containers allow a container to be replaced, removed and
generated again. For the files, a folder with two files lets the walk stop before,
between and after its entries, and the second failing call meets what the first
left behind.

Deadlock. `CHECK_DEADLOCK FALSE` stands where the system may stop: after a
panic (the Beacon and Docker runs), when the process has ended
(the server runs), when the constructor has failed or the names and ids of
the instance are used up (the test manager runs), and when both folders are gone
(`files`).

Symmetry is over clients (`server_reads`) and module instances
(`test_services`), which no definition tells apart, and never with liveness.

Fairness. `BeaconServer!FairSpec` assumes that the Go scheduler runs each
handler, the serving goroutine and the one that called `Stop` when they can run;
the client's next request and the signal are not assumed. Main is not assumed to
run either: it is only the antecedent of `SignalEnds`. With a fair main the process
would end as soon as `Serve` returns, and take every handler with it, so `StopEnds`
and `RequestsEnd` would say little. `server_test.go` (lines 68 and 69) is such a
caller: it waits for `Stop` to return, then for `Serve`, and never exits in between.
`TestManager!FairSpec` assumes that a
method which is running goes on: the calls it waits for return, with an answer
or an error. Nothing is assumed of the test, of interval mining, or of any call
succeeding.

### Where the code differs from what it says

The four violation runs, quoted in full in `PROJECT.json`:

- `beacon_snapshot_deposits`: `TakeSnapshot` is to take "the current database
  state", and `Clone` leaves `pendingDeposits` out (`database.go:170`).
- `test_nested`: after a revert to an earlier snapshot, the Hardhat copies of
  later ones are gone; a revert to one of those returns nil, leaves Hardhat as it
  is and then saves that chain under the snapshot's name (`test-manager.go:295`).
- `test_slots`: "an EL block will be mined for each slot and the slot will
  reference that block" (`test-manager.go:379`), but the Beacon mock's next index
  starts at Hardhat's latest block, which exists already (`test-manager.go:124`), so
  every slot references the block before the one mined for it. `ChainsAligned`
  states what does hold: the distance is always that one block.
- `docker_network`: a container that Up replaces stays an endpoint of its networks
  (`generation.go:500`); they are "in use still" for ever, so `NetworkRemove` and
  Down fail and the subnet is never free again.

More that the models contain, without a run of their own:

- main prints "Server stopped." and ends while `Shutdown` is still waiting for
  handlers (`osha-bn.go:111`): `MainReturns` with a request unanswered;
- removing a pending deposit from an empty list panics (`database.go:132`);
- two overlapping slash requests can both pass the status test (`validator.go:60`)
  and charge the penalty twice, where one after the other the second is refused;
- a block of interval mining between `evm_revert` and the new `evm_snapshot`
  becomes part of the snapshot (`test-manager.go:301`), which is why
  `CopiesFaithful` leaves such blocks out;
- `AdvanceSlots` without blocks misses every slot it commits (`SkipSlot`);
  `test-manager.go:380` says "each slot (until the last one)", which may mean that
  the last slot has a block, or only that the slots up to it are missed;
- Up looks for a container under the service's name (`compose.go:73`) although
  containers are kept under container names: an unchanged service whose container
  has another name is generated again at every Up, and where some other container
  has the service's name, Up starts that one (`LooksForOwn`);
- `networkIndices` is keyed by YAML name (`generation.go:82`, `:240`): two projects
  that use one YAML name for different networks share and reset a counter, so
  addresses repeat, and a service on a network that another project generated
  under another YAML name gets address 0 or 1, the network's own and the gateway's
  (`OwnYamlName`);
- `Mock_SetVolumeDiskUsage` dereferences nil for a volume from a compose file, and
  `ContainerList`, `DiskUsage` and `Mock_SetContainerDiskUsage` for a container
  added without the fields they read (`client.go:215`, `:227`, `:247`);
- a snapshot named `b/a` lies in the folder of `b` and becomes part of what a
  revert to `b` copies (`filesystem/manager.go:74`), and a `TakeSnapshot` that
  failed leaves a folder that `RevertToSnapshot` accepts (`complete`).

Not in a model, because no state depends on it: `ContainerList` parses ports with
`ParseInt` and 16 bits, so it fails for one above 32767 (`client.go:249`).

## Proofs

Assumptions: `ChainAssumption` and `BalanceAssumption` (`BeaconDatabase`: block
and slot bounds are numbers, the balances and margins fit in a `uint64`),
`InputAssumption` (`BeaconManager`: arguments have their Go types),
`RequestAssumption` (`BeaconServer`: the same of requests; a pubkey is never an
index, which the code tells apart by how they are written),
`ContentAssumption` and `BoundAssumption` (`TestManager`: the bounds are
numbers, at least one name and one slot), `ProjectAssumption` and
`SubnetAssumption` (`DockerMock`: what `loadComposeProject` guarantees of a
project; subnets are distinct), `PathAssumption` (`Filesystem`). TLC evaluates
them in every run.

**BeaconManagerProofs**, for any pubkeys, callers, names and number of
databases. The inductive invariant is

    Inv == TypeOK /\ LookupsAlwaysAgree /\ ChainAlwaysLinked
                  /\ SnapshotsIsolated /\ Unshared

`SnapshotsIsolated` is not inductive alone: a write through a pointer into a
snapshot would break it, so `Unshared` says there is none; `TakeSnapshot` and
`RevertToSnapshot` keep it because each allocates a clone. `LookupsAlwaysAgree`
is what makes a clone equal to its original (`CloneIsCloned`: the rebuilt
lookup is the old one), and `AllocStep` and `WriteStep` say once what an
allocation and a write do to the heap. `LookupsCorrect`, `ChainCorrect`,
`SnapshotsStayIsolated`, `UnsharedCorrect`, `TypeCorrect` follow; `RevertCorrect`
proves the action property from the same invariant, and `ManagerIsStore` the
refinement: a step that takes no snapshot leaves the copies as they are, because
`SnapshotsIsolated` holds before and after it (`SavedStays`), and a revert makes
the copy itself current, because a clone of a clone is that clone
(`CopyOfCopy`). What each database method preserves is stated once in
**BeaconDatabaseProofs** (`Consistent`: types and lookups; `Good`: the chain too),
for every module that uses databases.

**BeaconServerProofs**, for any number of overlapping requests, any pubkeys and
every width of the integers:

    IInv == Typed /\ Placed /\ Quiet
                  /\ \A c \in Clients : WellFormed(c) /\ SlotsRise(c) /\ Finds(c)

What a handler read under one lock it uses after other handlers have had the
lock. It may, because the database only grows (`Grows`): validators keep their
positions (`Placed`, `Finds`, which give `IndicesCorrect` and `AddedCorrect`), and
slots only rise (`SlotsRise`: what a handler has read ascends and is not above the
current slot, which gives `SyncDistanceCorrect` and `FinalityCorrect`). `Quiet`
says that a stopped server has no handler, which gives `NothingAfterStopCorrect`.
`AloneCorrect` compares what can be read of a validator (`View`) when the request
has ended with what its method in one piece makes of what could be read when it
arrived (`Before`), both of which are independent of the handler's variables; the
amount a request names is never changed. `SoloInv` says, for a handler that runs
alone, how far it has come at each of its loads and stores (`Progress`): marked
(`Base`), paid (`Paid`), lowered (`PaidAndLowered`), settled (`Settled`), and which
tests have come out how, so that a slash has got past its first steps exactly when
`Before` was slashable. `SlashInSteps` shows that marking before paying gives what
paying before marking gives. The second loads of the effective balance and of the
status need that nobody else has written them, and the invariant says nothing once
`alone` is false.

**TestManagerProofs**, for any number of snapshots, failing calls, slots and
mined blocks:

    HInv == HardhatType /\ Constructing /\ AboutStored /\ BaselineOldest
                        /\ BaselineAlive /\ Faithful

`evm_revert` deletes the snapshot and every later one. The baseline survives
because its copy is the oldest of those that names refer to (`BaselineOldest`),
which holds because a revert to the baseline, which gives it the newest id,
deletes all others first, also when the call fails after it took effect. A
baseline revert that breaks off between `evm_revert` and the new copy is the one
exception (`lost`). `Faithful` extends `CopiesFaithful` to names not stored yet
and to the moment between `evm_revert` and the new copy. `BaselineStaysAlive` and
`CopiesStayFaithful` follow.

**TestManagerSnapshotProofs** adds, on top of `HInv`,

    TInv              (TypeOK, and which snapshot the running method is about)
    SInv == StoredIsComplete /\ Taking /\ Restoring /\ RevertRestores
    AInv              (Offset at each call, and SeenAligned)

A method is a row of calls, and any of them may be its last. `Taking` and
`Restoring` say, call by call, which services have been copied or reverted so
far. A `CreateSnapshot` that breaks off leaves copies under a name that is not
stored and never will be, because every `CreateSnapshot` uses a name of its own. The Hardhat half of `RevertRestores` comes
from `Faithful`. `AInv` says at each call of `CommitBlock` and `AdvanceSlots` by
how many slots and blocks the chains are apart, and that the chains in every
snapshot that was ever complete agree, which a revert needs.

**DockerMockProofs**, for any projects, snapshot names and list of distinct
subnets. For `SubnetsConserved`, over the current state and every snapshot:

    IInv == \A st \in Current : Shape(st) /\ Conserved(st)

`Shape` says that `availableSubnets` is a sequence and that states and networks
have their fields, which taking the head of the list and updating a field need.
`TailElements`, `AppendElements` and `DeleteValues` say once what taking a subnet
and giving it back do to the elements; then there is one lemma per operation on
a state, and one per group of actions. For `MockIsStore`, the refinement:

    RInv == IInv /\ HashesForgotten /\ Running

`Clone` drops the service hashes, so a revert, which clones what is stored,
makes exactly that current only if snapshots hold none (`HashesForgotten`; with
the shape, `CloneOfSnapshot`). `Running` says that `last` names no call while a
command runs: a step of `Up`, `Stop` or `Down` is never taken for a revert. Every
step is then one of `SnapshotStore` (`TakeRefines`, `RevertRefines`) or leaves
the stored copies alone (`OrdinaryRefines`).

**DockerMockStateProofs**, for the same instances:

    SInv == (\A st \in Current : Sound(st, nextID))
            /\ Bounds /\ UpSoFar /\ Running /\ UpProvides
    Sound(st, id) == Good(st) /\ Typed(st) /\ Wired(st) /\ Fresh(st, id)
                     /\ Indexed(st, id)

A snapshot is an old state, and a revert makes it the current one, so `Sound`
compares every state with the IDs given out by now, not by then. `Wired` is
`ContainersConnected` with the fact it needs, that containers have different
IDs: removing one container would otherwise take another's endpoint along.
IDs stay different because none is given twice, also after a revert (`Fresh`).
`Indexed` bounds the address index of a network by the number of IDs given:
each gives at most one address, so the byte has not wrapped before `nextID`
reaches `IndexMod - 1`, and each address is below the index that gives the next.
`UpSoFar` is what the loops of `Up` have established: the networks, then the
volumes, then the services passed. That `Up` has always a next network to visit
(`NextNetwork`) needs that a set of numbers has a least element.

**FilesystemProofs**, for any folders, names and number of failing calls:

    FInv == FolderType /\ Running /\ Taking /\ Reverting /\ ClosedIsClean

`Taking` and `Reverting` are the copies half way: what the walk has visited is
there with the same content, and nothing else is. For the copied entry to have a
folder to go to, the walk must come to a folder before what is in it: its order
is total and continues prefixes (`Path` lemmas), a finite set of paths has a
first one, and so `Visited` exists and nothing left to visit is above it. `Tree`
says of every entry that all folders on its way exist, which survives a
`RemoveAll` that stops half way. `TypeCorrect` and `CleanCorrect` follow, and
`FilesIsStore`, the refinement: a step on one name leaves the copies of separate
names alone (`CopiesKept`), a step within a method changes no complete copy
(`QuietSteps`), and the last step of a walk is the single step of
`SnapshotStore`.

Every invariant, action property and refinement that a passing run checks is
proved. Only model-checked: liveness (`RequestsEnd`, `StopEnds`, `SignalEnds`,
`MethodsReturn`), which is out of the prover's reach, and the four violations, which
TLC's counterexamples show.

## Not modelled

- Command line, configuration files, logging, JSON, YAML and URL syntax: input and
  output without state. A malformed request is `Reject`; compose Config prints a
  file it has read.
- The key generator: cryptography with a private cache.
- Service flags (`types.go`): a bit test nobody calls.
- Credentials and epochs of validators: written once, copied, never read back.
- Of a generated container everything but its ID, state and addresses: some 200
  fields copied from the compose file and never read; disk usage sizes.
- File permissions; two names that differ only as the file system spells them.
- `ToggleAutoMine` (`test-manager.go:413`): one call to Hardhat, whose effect is
  in how Hardhat keeps transactions that wait for a block.
- Pointers and arguments that no caller in the repository passes: `SetDatabase`
  with a database that is held elsewhere too (the models give it a new one);
  `Mock_AddContainer` with networks of the container's own (the models add bare
  containers); environment values and health checks that `generateService`
  dereferences without looking (`generation.go:229`, `:451`).
- The test replacing the Beacon database while it has a `TestManager`: `UseBeacon`
  adds validators and commits blocks, `SetDatabase` is in `BeaconManager`.
- `TakeSnapshot` of the files after `Close`, which goes on with a path relative to
  the working directory (`filesystem/manager.go:74`), and the error path of
  `NewFilesystemManager`, which leaves the test folder behind (lines 31 to 34).
- `Config.Clone` (`config.go`), which leaves `FirstExecutionBlockIndex` out: a copy
  of a record with no behaviour to check.

## Plan

What is left, in this order:

1. `ToggleAutoMine`: transactions that wait for a block, and what happens to them
   on a revert; `ChainsAligned` and its proof with them.
2. The exact conditions under which the claims of the violation runs do hold, as
   theorems: a network whose containers were never replaced is in use only by
   containers.

----------------------------- MODULE DockerMock -----------------------------
(***************************************************************************)
(* DockerMockManager (docker/): containers, volumes and networks, the      *)
(* compose commands Up, Stop and Down, the mock's admin functions, and     *)
(* named snapshots of all of it.                                           *)
(*                                                                         *)
(* `state' is the Go struct of that name, its maps functions whose domain  *)
(* is the set of keys; Clone copies every map and every element, so a      *)
(* snapshot is a value.  The mock has no lock and no goroutine: one call   *)
(* runs at a time.  A compose command is a row of steps, one for each      *)
(* network, service or volume, so that the order of a Go map is a choice   *)
(* and an early return leaves what was done so far.                        *)
(***************************************************************************)
EXTENDS Integers, Sequences, FiniteSets

CONSTANTS
    Projects,         \* what loadComposeProject returns, one for each call
    Subnets,          \* the subnets of newState, in their order
    IndexMod,         \* networkIndices are bytes
    Names,            \* snapshot names
    AddedContainers,  \* names passed to Mock_AddContainer
    AddedVolumes,     \* names passed to Mock_AddVolume
    MaxIDs            \* bound on the containers ever created

\* A project has networks under their names in the YAML file, which are
\* numbers here because Up sorts them, each with the name Docker knows it by;
\* volumes; and services on networks of the project.  A service that is not
\* Supported has a mount or a port that generateService refuses.
ASSUME ProjectAssumption ==
    \A p \in Projects :
        /\ DOMAIN p.Networks \subseteq Nat
        /\ \A y, z \in DOMAIN p.Networks :
              p.Networks[y].Name = p.Networks[z].Name => y = z
        /\ \A y \in DOMAIN p.Networks : p.Networks[y].External \in BOOLEAN
        /\ \A s \in p.Services : /\ s.Networks \subseteq DOMAIN p.Networks
                                 /\ s.Supported \in BOOLEAN
        /\ \A s, t \in p.Services : s.Name = t.Name => s = t

ASSUME SubnetAssumption ==
    /\ Subnets \in Seq(Nat)
    /\ \A i, j \in 1 .. Len(Subnets) : Subnets[i] = Subnets[j] => i = j
    /\ IndexMod \in Nat /\ IndexMod > 2
    /\ MaxIDs \in Nat

VARIABLES
    state,       \* d.state
    snapshots,   \* d.snapshots
    nextID,      \* the next random ID
    pc,          \* what the running compose command does next, or "idle"
    project,     \* its project
    todo,        \* what its loop has still to visit
    last,        \* the call that returned nil in this step, if one did
    panicked     \* a nil dereference ended the test

NoProject == [Networks |-> <<>>, Volumes |-> {}, Services |-> {}]

vars == <<state, snapshots, nextID, pc, project, todo, last, panicked>>
command == <<pc, project, todo>>

-----------------------------------------------------------------------------
(* Go maps *)

NewMap == [k \in {} |-> k]
Put(m, k, v) == [x \in DOMAIN m \cup {k} |-> IF x = k THEN v ELSE m[x]]
Delete(m, k) == [x \in DOMAIN m \ {k} |-> m[x]]
Values(m) == {m[k] : k \in DOMAIN m}

-----------------------------------------------------------------------------
(* The state *)

Elements(seq) == {seq[i] : i \in 1 .. Len(seq)}
Networks == UNION {{p.Networks[y].Name : y \in DOMAIN p.Networks} :
                      p \in Projects}
YamlNames == UNION {DOMAIN p.Networks : p \in Projects}
Services == UNION {p.Services : p \in Projects}
IDs == 1 .. MaxIDs

\* 172.subnet.0.index; the MAC address has the same two numbers.
Addresses == Elements(Subnets) \X (0 .. IndexMod - 1)

IsMap(m, K, V) == /\ m = [k \in DOMAIN m |-> m[k]]
                  /\ \A k \in DOMAIN m : k \in K /\ m[k] \in V

IsContainer(container) ==
    /\ DOMAIN container = {"ID", "Running", "Bare", "Networks"}
    /\ container.ID \in IDs
    /\ container.Running \in BOOLEAN /\ container.Bare \in BOOLEAN
    /\ IsMap(container.Networks, Networks, Addresses)

IsState(st) ==
    /\ \A c \in DOMAIN st.containers :
          /\ c \in {s.ContainerName : s \in Services} \cup AddedContainers
          /\ IsContainer(st.containers[c])
    /\ IsMap(st.volumes, (UNION {p.Volumes : p \in Projects}) \cup AddedVolumes,
             [UsageData : BOOLEAN])
    /\ \A n \in DOMAIN st.networks :
          /\ n \in Networks
          /\ st.networks[n].IPAM \in Elements(Subnets)
          /\ IsMap(st.networks[n].Containers, IDs, Addresses)
    /\ st.availableSubnets \in Seq(Elements(Subnets))
    /\ IsMap(st.usedSubnets, Networks, Elements(Subnets))
    /\ IsMap(st.networkIndices, YamlNames, 0 .. IndexMod - 1)
    /\ IsMap(st.serviceHashes, {s.Name : s \in Services}, Services)

newState ==
    [containers |-> NewMap, volumes |-> NewMap, networks |-> NewMap,
     availableSubnets |-> Subnets, usedSubnets |-> NewMap,
     networkIndices |-> NewMap, serviceHashes |-> NewMap]

\* Mutant: the clone keeps the subnets of newState.
CloneWithAllSubnets(st) ==
    [st EXCEPT !.availableSubnets = Subnets, !.serviceHashes = NewMap]

\* Mutant: the clone keeps the empty networkIndices of newState.
CloneWithoutIndices(st) ==
    [st EXCEPT !.networkIndices = NewMap, !.serviceHashes = NewMap]

\* Every map is copied but serviceHashes.
Clone(st) == [st EXCEPT !.serviceHashes = NewMap]

-----------------------------------------------------------------------------
(* Networks, services and containers, as functions of the state *)

generateNetwork(st, name, yaml) ==
    LET subnet == Head(st.availableSubnets) IN
    [st EXCEPT
        !.availableSubnets = Tail(@),
        !.usedSubnets = Put(@, name, subnet),
        !.networks = Put(@, name, [IPAM |-> subnet, Containers |-> NewMap]),
        !.networkIndices = Put(@, yaml, 2)]

\* A missing key of the Go map reads as 0.
IndexOf(st, yaml) ==
    IF yaml \in DOMAIN st.networkIndices THEN st.networkIndices[yaml] ELSE 0

\* The address of a new container in each of its networks, by name.
NewAddresses(st, p, service) ==
    [n \in {p.Networks[y].Name : y \in service.Networks} |->
        LET yaml == CHOOSE y \in service.Networks : p.Networks[y].Name = n
        IN  <<st.usedSubnets[n], IndexOf(st, yaml)>>]

\* A generated container: started, on its networks, with sizes.
NewContainer(id, addresses) ==
    [ID |-> id, Running |-> TRUE, Bare |-> FALSE, Networks |-> addresses]

\* A mount of another type than bind and volume, or a port that does not
\* parse; the service is refused before anything has changed.
Refused(service) == ~service.Supported

\* Mutant: an index that does not wrap like a byte.
NextIndexUnbounded(index) == index + 1

NextIndex(index) == (index + 1) % IndexMod

\* A network with one endpoint more, or less.
Connected(network, id, address) ==
    [network EXCEPT !.Containers = Put(@, id, address)]
Disconnected(network, id) ==
    [network EXCEPT !.Containers = Delete(@, id)]

\* A container of the same name is replaced; its endpoints stay in the
\* networks under its old ID.
generateService(st, p, service, id) ==
    LET addresses == NewAddresses(st, p, service) IN
    [st EXCEPT
        !.networkIndices =
            [y \in DOMAIN @ \cup service.Networks |->
                IF y \in service.Networks THEN NextIndex(IndexOf(st, y))
                ELSE @[y]],
        !.containers = Put(@, service.ContainerName,
                           NewContainer(id, addresses)),
        !.networks =
            [n \in DOMAIN @ |->
                IF n \in DOMAIN addresses THEN Connected(@[n], id, addresses[n])
                ELSE @[n]],
        !.serviceHashes = Put(@, service.Name, service)]

SetRunning(st, c, running) ==
    [st EXCEPT !.containers[c].Running = running]

WithoutContainer(st, c) ==
    LET container == st.containers[c] IN
    [st EXCEPT
        !.containers = Delete(@, c),
        !.networks =
            [n \in DOMAIN @ |->
                IF n \in DOMAIN container.Networks
                THEN Disconnected(@[n], container.ID)
                ELSE @[n]]]

InUse(st, n) == DOMAIN st.networks[n].Containers # {}

\* Mutant: the subnet is given back, and stays the network's.
WithoutNetworkOnly(st, n) ==
    [st EXCEPT
        !.availableSubnets = Append(@, st.usedSubnets[n]),
        !.networks = Delete(@, n)]

WithoutNetwork(st, n) ==
    [st EXCEPT
        !.availableSubnets = Append(@, st.usedSubnets[n]),
        !.networks = Delete(@, n),
        !.usedSubnets = Delete(@, n)]

-----------------------------------------------------------------------------
(* Calls *)

Init ==
    /\ state = newState
    /\ snapshots = NewMap
    /\ nextID = 1
    /\ pc = "idle" /\ project = NoProject /\ todo = {}
    /\ last = <<>>
    /\ panicked = FALSE

\* A call of the client that returns nil; with an error it changes nothing.
Call(st) ==
    /\ pc = "idle"
    /\ state' = st
    /\ last' = <<>>
    /\ UNCHANGED <<snapshots, nextID, command, panicked>>

\* A nil dereference ends the process, and all its state with it.
Panic ==
    /\ pc = "idle"
    /\ panicked' = TRUE
    /\ state' = newState /\ snapshots' = NewMap /\ nextID' = 1
    /\ last' = <<>>
    /\ UNCHANGED command

\* Mutant: a name that is taken keeps its snapshot.
TakeOnce(n) ==
    /\ pc = "idle"
    /\ snapshots' = IF n \in DOMAIN snapshots THEN snapshots
                    ELSE Put(snapshots, n, Clone(state))
    /\ last' = <<"TakeSnapshot", n>>
    /\ UNCHANGED <<state, nextID, command, panicked>>

\* A snapshot of the same name is replaced.
TakeSnapshot(n) ==
    /\ pc = "idle"
    /\ snapshots' = Put(snapshots, n, Clone(state))
    /\ last' = <<"TakeSnapshot", n>>
    /\ UNCHANGED <<state, nextID, command, panicked>>

RevertToSnapshot(n) ==
    /\ pc = "idle"
    /\ n \in DOMAIN snapshots
    /\ state' = Clone(snapshots[n])
    /\ last' = <<"RevertToSnapshot", n>>
    /\ UNCHANGED <<snapshots, nextID, command, panicked>>

\* ContainerRestart is ContainerStart.
ContainerStart(c) ==
    /\ c \in DOMAIN state.containers
    /\ Call(SetRunning(state, c, TRUE))

ContainerStop(c) ==
    /\ c \in DOMAIN state.containers
    /\ Call(SetRunning(state, c, FALSE))

ContainerRemove(c) ==
    /\ c \in DOMAIN state.containers
    /\ Call(WithoutContainer(state, c))

\* Mutant: no test for endpoints.
NetworkRemoveAlways(n) ==
    /\ n \in DOMAIN state.networks
    /\ Call(WithoutNetwork(state, n))

NetworkRemove(n) ==
    /\ n \in DOMAIN state.networks
    /\ ~InUse(state, n)
    /\ Call(WithoutNetwork(state, n))

VolumeRemove(v) ==
    /\ v \in DOMAIN state.volumes
    /\ Call([state EXCEPT !.volumes = Delete(@, v)])

\* The container that is added is bare, like those of the mock's tests: it
\* has neither NetworkSettings nor sizes.
Mock_AddContainer(c) ==
    /\ c \notin DOMAIN state.containers
    /\ nextID <= MaxIDs
    /\ state' = [state EXCEPT !.containers =
                    Put(@, c, [ID |-> nextID, Running |-> FALSE,
                               Bare |-> TRUE, Networks |-> NewMap])]
    /\ nextID' = nextID + 1
    /\ pc = "idle"
    /\ last' = <<>>
    /\ UNCHANGED <<snapshots, command, panicked>>

\* The volume that is added has UsageData, those of a compose file do not.
Mock_AddVolume(v) ==
    /\ v \notin DOMAIN state.volumes
    /\ Call([state EXCEPT !.volumes = Put(@, v, [UsageData |-> TRUE])])

\* The sizes themselves are left out: what is kept is the nil dereference.
Mock_SetContainerDiskUsage(c) ==
    /\ c \in DOMAIN state.containers
    /\ state.containers[c].Bare
    /\ Panic

Mock_SetVolumeDiskUsage(v) ==
    /\ v \in DOMAIN state.volumes
    /\ ~state.volumes[v].UsageData
    /\ Panic

\* The two listings change nothing, and fail on the fields a bare container
\* lacks; ContainerList leaves out stopped containers unless all is set.
ContainerList(all) ==
    /\ \E c \in DOMAIN state.containers :
          /\ all \/ state.containers[c].Running
          /\ state.containers[c].Bare
    /\ Panic

DiskUsage ==
    /\ \E c \in DOMAIN state.containers : state.containers[c].Bare
    /\ Panic

-----------------------------------------------------------------------------
(* Compose commands *)

Begin(p, first, visit) ==
    /\ pc = "idle"
    /\ pc' = first /\ project' = p /\ todo' = visit
    /\ last' = <<>>
    /\ UNCHANGED <<state, snapshots, nextID, panicked>>

\* One turn of a loop.
Turn(at, item, st) ==
    /\ pc = at
    /\ item \in todo
    /\ state' = st
    /\ todo' = todo \ {item}
    /\ UNCHANGED <<snapshots, pc, project, last, panicked>>

\* The loop is over; the next one begins.
Advance(at, next, visit) ==
    /\ pc = at
    /\ todo = {}
    /\ pc' = next /\ todo' = visit
    /\ UNCHANGED <<snapshots, nextID, project, last, panicked>>

Return(call) ==
    /\ pc' = "idle" /\ project' = NoProject /\ todo' = {}
    /\ last' = call
    /\ UNCHANGED <<state, snapshots, nextID, panicked>>

\* An error in the middle of a loop: the command stops there.
Fail == Return(<<>>)

Up(p) == Begin(p, "networks", DOMAIN p.Networks)

\* External networks come first, then in the order of their YAML names.
NextNetwork ==
    CHOOSE y \in todo : \A z \in todo :
        LET External(x) == project.Networks[x].External IN
        \/ External(y) /\ ~External(z)
        \/ External(y) = External(z) /\ y <= z

UpNetwork ==
    /\ pc = "networks" /\ todo # {}
    /\ LET yaml == NextNetwork
           name == project.Networks[yaml].Name
       IN  \/ /\ name \in DOMAIN state.networks
              /\ Turn("networks", yaml, state)
              /\ UNCHANGED nextID
           \/ /\ name \notin DOMAIN state.networks
              /\ state.availableSubnets # <<>>
              /\ Turn("networks", yaml, generateNetwork(state, name, yaml))
              /\ UNCHANGED nextID
           \/ /\ name \notin DOMAIN state.networks
              /\ state.availableSubnets = <<>>
              /\ Fail

\* A volume from a compose file has no UsageData; one that exists is kept.
UpVolumes ==
    /\ Advance("networks", "services", project.Services)
    /\ state' = [state EXCEPT !.volumes =
                    [v \in DOMAIN @ \cup project.Volumes |->
                        IF v \in DOMAIN @ THEN @[v]
                        ELSE [UsageData |-> FALSE]]]

\* The hash of a service's YAML is the service.
Unchanged(service) ==
    /\ service.Name \in DOMAIN state.serviceHashes
    /\ state.serviceHashes[service.Name] = service

\* Mutant: the hash alone decides.
UpServiceByHash(service) ==
    /\ pc = "services" /\ service \in todo
    /\ \/ /\ Unchanged(service)
          /\ Turn("services", service, state)
          /\ UNCHANGED nextID
       \/ /\ ~Unchanged(service) /\ nextID <= MaxIDs /\ ~Refused(service)
          /\ Turn("services", service,
                  generateService(state, project, service, nextID))
          /\ nextID' = nextID + 1

\* A service that has not changed is started, if a container has its name;
\* any other is generated, unless it is refused.
UpService(service) ==
    /\ pc = "services" /\ service \in todo
    /\ LET found == /\ Unchanged(service)
                    /\ service.Name \in DOMAIN state.containers
       IN  \/ /\ found
              /\ Turn("services", service,
                      SetRunning(state, service.Name, TRUE))
              /\ UNCHANGED nextID
           \/ /\ ~found /\ ~Refused(service)
              /\ nextID <= MaxIDs
              /\ Turn("services", service,
                      generateService(state, project, service, nextID))
              /\ nextID' = nextID + 1
           \/ /\ ~found /\ Refused(service)
              /\ Fail

UpReturn ==
    /\ pc = "services" /\ todo = {}
    /\ Return(<<"Up", project>>)

Stop(p) == Begin(p, "stop", p.Services)

StopService(service) ==
    /\ pc = "stop" /\ service \in todo
    /\ LET c == service.ContainerName
       IN  \/ /\ c \in DOMAIN state.containers
              /\ Turn("stop", service, SetRunning(state, c, FALSE))
              /\ UNCHANGED nextID
           \/ c \notin DOMAIN state.containers /\ Fail

StopReturn ==
    /\ pc = "stop" /\ todo = {}
    /\ Return(<<>>)

Down(p) == Begin(p, "containers", p.Services)

DownContainer(service) ==
    /\ pc = "containers" /\ service \in todo
    /\ LET c == service.ContainerName
       IN  \/ /\ c \in DOMAIN state.containers
              /\ Turn("containers", service, WithoutContainer(state, c))
              /\ UNCHANGED nextID
           \/ c \notin DOMAIN state.containers /\ Fail

DownContainersDone ==
    /\ Advance("containers", "volumes", project.Volumes)
    /\ UNCHANGED state

DownVolume(v) ==
    /\ pc = "volumes" /\ v \in todo
    /\ \/ /\ v \in DOMAIN state.volumes
          /\ Turn("volumes", v, [state EXCEPT !.volumes = Delete(@, v)])
          /\ UNCHANGED nextID
       \/ v \notin DOMAIN state.volumes /\ Fail

DownVolumesDone ==
    /\ Advance("volumes", "remove", DOMAIN project.Networks)
    /\ UNCHANGED state

\* The networks are removed in any order, the external ones too.
DownNetwork(yaml) ==
    /\ pc = "remove" /\ yaml \in todo
    /\ LET n == project.Networks[yaml].Name
           removable == n \in DOMAIN state.networks /\ ~InUse(state, n)
       IN  \/ /\ removable
              /\ Turn("remove", yaml, WithoutNetwork(state, n))
              /\ UNCHANGED nextID
           \/ ~removable /\ Fail

DownReturn ==
    /\ pc = "remove" /\ todo = {}
    /\ Return(<<"Down", project>>)

-----------------------------------------------------------------------------
ClientStep ==
    \/ \E c \in DOMAIN state.containers :
          \/ ContainerStart(c) \/ ContainerStop(c) \/ ContainerRemove(c)
          \/ Mock_SetContainerDiskUsage(c)
    \/ \E n \in DOMAIN state.networks : NetworkRemove(n)
    \/ \E v \in DOMAIN state.volumes :
          VolumeRemove(v) \/ Mock_SetVolumeDiskUsage(v)
    \/ \E c \in AddedContainers : Mock_AddContainer(c)
    \/ \E v \in AddedVolumes : Mock_AddVolume(v)
    \/ \E all \in BOOLEAN : ContainerList(all)
    \/ DiskUsage

SnapshotStep == \E n \in Names : TakeSnapshot(n) \/ RevertToSnapshot(n)

ComposeStep ==
    \/ \E p \in Projects : Up(p) \/ Stop(p) \/ Down(p)
    \/ UpNetwork
    \/ UpVolumes
    \/ \E service \in project.Services :
          UpService(service) \/ StopService(service) \/ DownContainer(service)
    \/ UpReturn
    \/ StopReturn
    \/ DownContainersDone
    \/ \E v \in project.Volumes : DownVolume(v)
    \/ DownVolumesDone
    \/ \E yaml \in DOMAIN project.Networks : DownNetwork(yaml)
    \/ DownReturn

\* After a panic the calling test is over.
Next == ~panicked /\ (ClientStep \/ SnapshotStep \/ ComposeStep)

Spec == Init /\ [][Next]_vars

-----------------------------------------------------------------------------
(* Properties *)

Current == {state} \cup Values(snapshots)

TypeOK ==
    /\ \A st \in Current : IsState(st)
    /\ DOMAIN snapshots \subseteq Names
    /\ nextID \in 1 .. MaxIDs + 1
    /\ pc \in {"idle", "networks", "services", "stop", "containers",
               "volumes", "remove"}
    /\ IF pc = "idle" THEN project = NoProject ELSE project \in Projects
    /\ panicked \in BOOLEAN

Conserved(st) ==
    LET available == st.availableSubnets
        used == st.usedSubnets
    IN  /\ DOMAIN used = DOMAIN st.networks
        /\ \A n \in DOMAIN used : used[n] = st.networks[n].IPAM
        /\ \A n, m \in DOMAIN used : used[n] = used[m] => n = m
        /\ \A i, j \in 1 .. Len(available) :
              available[i] = available[j] => i = j
        /\ Elements(available) \cap Values(used) = {}
        /\ Elements(available) \cup Values(used) = Elements(Subnets)

\* A subnet is either available, once, or belongs to one existing network:
\* none is lost or shared, in the state and in every snapshot, also when Up
\* or Down stopped half way.
SubnetsConserved == \A st \in Current : Conserved(st)

\* A container is known, under its ID and with the same address, to every
\* network it is on, and that address is in the network's subnet.  So a
\* network is not removed under a container that exists.
ContainersConnected == \A st \in Current :
    \A c \in DOMAIN st.containers :
        LET container == st.containers[c] IN
        \A n \in DOMAIN container.Networks :
            /\ n \in DOMAIN st.networks
            /\ container.ID \in DOMAIN st.networks[n].Containers
            /\ st.networks[n].Containers[container.ID] = container.Networks[n]
            /\ container.Networks[n][1] = st.usedSubnets[n]

\* A network that all projects know by one YAML name, which no project gives
\* to another network.
OwnYamlName(n) ==
    \E yaml \in YamlNames : \A p \in Projects : \A y \in DOMAIN p.Networks :
        y = yaml <=> p.Networks[y].Name = n

\* The endpoints of such a network, those that replaced containers left
\* behind included, have different addresses, none of them the network's own
\* (0) or the gateway's (1), as long as the byte has not wrapped: across Up
\* and Down of several projects, snapshots and reverts.
AddressesDistinct == \A st \in Current : \A n \in DOMAIN st.networks :
    LET endpoints == st.networks[n].Containers IN
    OwnYamlName(n) /\ nextID <= IndexMod - 1 =>
        /\ \A i, j \in DOMAIN endpoints : endpoints[i] = endpoints[j] => i = j
        /\ \A i \in DOMAIN endpoints : endpoints[i][2] >= 2

\* The container Up looks for is the service's own, or there is none.
LooksForOwn(service) ==
    \/ service.ContainerName = service.Name
    \/ service.Name \notin DOMAIN state.containers

\* When Up has returned nil, the project's networks and volumes exist and its
\* services run: after a stop, a removed container, a failed command, and a
\* revert, which forgets the hashes.  (Where another container has the
\* service's name, Up starts that one instead.)
UpProvides ==
    last # <<>> /\ last[1] = "Up" =>
        LET p == last[2] IN
        /\ \A y \in DOMAIN p.Networks :
              p.Networks[y].Name \in DOMAIN state.networks
        /\ p.Volumes \subseteq DOMAIN state.volumes
        /\ \A s \in p.Services : LooksForOwn(s) =>
              /\ s.ContainerName \in DOMAIN state.containers
              /\ state.containers[s.ContainerName].Running

\* The comment on NetworkRemove: a network is removed unless an existing
\* container uses it.
InUseByContainers ==
    \A n \in DOMAIN state.networks :
        InUse(state, n) => \E c \in DOMAIN state.containers :
                              n \in DOMAIN state.containers[c].Networks

\* What a snapshot keeps: everything but the hashes.
Kept(st) == [st EXCEPT !.serviceHashes = NewMap]

Store == INSTANCE SnapshotStore WITH
    live <- Kept(state),
    saved <- snapshots,
    last <- IF last # <<>> /\ last[1] \in {"TakeSnapshot", "RevertToSnapshot"}
            THEN last ELSE <<>>

\* The mock's snapshots are a store: no Up, Stop, Down or client call reaches
\* one, the last TakeSnapshot of a name counts, and a revert brings back all
\* containers, networks, subnets and addresses at once.
IsStore == Store!Spec

=============================================================================

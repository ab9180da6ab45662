------------------------ MODULE DockerMockStateProofs ------------------------
(***************************************************************************)
(* More theorems about DockerMock, for every set of projects: the shape of *)
(* its state, that containers and networks know each other, that no        *)
(* address is given twice, and what Up has done when it returns nil.       *)
(*                                                                         *)
(* A snapshot is a state of earlier, so what is said of the current one is *)
(* said of each snapshot too.  That a revert does no harm is because IDs   *)
(* are never reused: every ID and every index in an old state is below     *)
(* what nextID allows now (Fresh, Indexed).                                *)
(***************************************************************************)
EXTENDS DockerMockProofs, WellFoundedInduction

\* IsState, with the fields of a container.
Typed(st) ==
    /\ IsState(st)
    /\ \A c \in DOMAIN st.containers :
          LET container == st.containers[c] IN
          container = [ID |-> container.ID, Running |-> container.Running,
                       Bare |-> container.Bare,
                       Networks |-> container.Networks]

\* ContainersConnected for one state, and different containers have different
\* IDs, so that none loses its endpoints to another.
Wired(st) ==
    /\ \A c \in DOMAIN st.containers :
          LET container == st.containers[c] IN
          \A n \in DOMAIN container.Networks :
              /\ n \in DOMAIN st.networks
              /\ container.ID \in DOMAIN st.networks[n].Containers
              /\ st.networks[n].Containers[container.ID]
                    = container.Networks[n]
              /\ container.Networks[n][1] = st.usedSubnets[n]
    /\ \A c, d \in DOMAIN st.containers :
          st.containers[c].ID = st.containers[d].ID => c = d

\* No container has an ID that is yet to be given.
Fresh(st, id) ==
    \A c \in DOMAIN st.containers : st.containers[c].ID < id

Own(n, yaml) == \A p \in Projects : \A y \in DOMAIN p.Networks :
                    y = yaml <=> p.Networks[y].Name = n

\* The index of such a network is above those of its endpoints, and it has
\* grown by one at most for each ID, so it has not wrapped before the IDs have
\* run out.
Indexed(st, id) ==
    \A n \in DOMAIN st.networks, yaml \in YamlNames :
        LET endpoints == st.networks[n].Containers
            index == st.networkIndices[yaml]
        IN  Own(n, yaml) =>
              /\ id <= IndexMod - 2 =>
                    /\ yaml \in DOMAIN st.networkIndices
                    /\ 2 <= index /\ index <= id + 1
                    /\ \A i \in DOMAIN endpoints : endpoints[i][2] < index
              /\ id <= IndexMod - 1 =>
                    /\ \A i, j \in DOMAIN endpoints :
                          endpoints[i] = endpoints[j] => i = j
                    /\ \A i \in DOMAIN endpoints : endpoints[i][2] >= 2

Sound(st, id) ==
    Good(st) /\ Typed(st) /\ Wired(st) /\ Fresh(st, id) /\ Indexed(st, id)

\* What Up has done so far: the networks that its loop is through with exist;
\* then the volumes too; and the services the next loop is through with run.
UpSoFar ==
    /\ pc = "networks" =>
          /\ todo \subseteq DOMAIN project.Networks
          /\ \A y \in DOMAIN project.Networks \ todo :
                project.Networks[y].Name \in DOMAIN state.networks
    /\ pc = "services" =>
          /\ \A y \in DOMAIN project.Networks :
                project.Networks[y].Name \in DOMAIN state.networks
          /\ project.Volumes \subseteq DOMAIN state.volumes
          /\ \A s \in project.Services \ todo : LooksForOwn(s) =>
                /\ s.ContainerName \in DOMAIN state.containers
                /\ state.containers[s.ContainerName].Running

Bounds ==
    /\ DOMAIN snapshots \subseteq Names
    /\ nextID \in 1 .. MaxIDs + 1
    /\ pc \in {"idle", "networks", "services", "stop", "containers",
               "volumes", "remove"}
    /\ IF pc = "idle" THEN project = NoProject ELSE project \in Projects
    /\ panicked \in BOOLEAN

SInv ==
    /\ \A st \in Current : Sound(st, nextID)
    /\ Bounds /\ UpSoFar /\ Running /\ UpProvides

-----------------------------------------------------------------------------
(* Maps *)

LEMMA MapFacts ==
    ASSUME NEW m, NEW K, NEW V, IsMap(m, K, V)
    PROVE  /\ IsMap(NewMap, K, V)
           /\ \A k : IsMap(Delete(m, k), K, V)
           /\ \A k \in K, v \in V : IsMap(Put(m, k, v), K, V)
<1>1. IsMap(NewMap, K, V)
  BY DEF IsMap, NewMap
<1>2. ASSUME NEW k PROVE IsMap(Delete(m, k), K, V)
  BY DEF IsMap, Delete
<1>3. ASSUME NEW k \in K, NEW v \in V PROVE IsMap(Put(m, k, v), K, V)
  BY DEF IsMap, Put
<1> QED
  BY <1>1, <1>2, <1>3

\* A network's endpoints after one is added or goes.
LEMMA EndpointFacts ==
    ASSUME NEW net, IsNetwork(net), NEW id, NEW address
    PROVE  /\ Connected(net, id, address).Containers
                = Put(net.Containers, id, address)
           /\ Disconnected(net, id).Containers = Delete(net.Containers, id)
<1> DEFINE ipam == net.IPAM
           old == net.Containers
           more == Put(old, id, address)
           less == Delete(old, id)
<1>1. net = [IPAM |-> ipam, Containers |-> old]
  BY DEF IsNetwork
<1>2. Connected(net, id, address) = [net EXCEPT !.Containers = more]
  BY DEF Connected
<1>3. Disconnected(net, id) = [net EXCEPT !.Containers = less]
  BY DEF Disconnected
<1> HIDE DEF old, more, less
<1>4. Connected(net, id, address).Containers = more
  BY <1>1, <1>2
<1>5. Disconnected(net, id).Containers = less
  BY <1>1, <1>3
<1> QED
  BY <1>4, <1>5 DEF more, less, old

-----------------------------------------------------------------------------
(* The functions of the state *)

\* What Typed says, field by field.
ContainerNames == {s.ContainerName : s \in Services} \cup AddedContainers
VolumeNames == (UNION {p.Volumes : p \in Projects}) \cup AddedVolumes

IsRecord(container) ==
    /\ container = [ID |-> container.ID, Running |-> container.Running,
                    Bare |-> container.Bare, Networks |-> container.Networks]
    /\ container.ID \in IDs
    /\ container.Running \in BOOLEAN /\ container.Bare \in BOOLEAN
    /\ IsMap(container.Networks, Networks, Addresses)

LEMMA TypedParts ==
    ASSUME NEW st
    PROVE  Typed(st) <=>
        /\ \A c \in DOMAIN st.containers :
              c \in ContainerNames /\ IsRecord(st.containers[c])
        /\ IsMap(st.volumes, VolumeNames, [UsageData : BOOLEAN])
        /\ \A n \in DOMAIN st.networks :
              /\ n \in Networks
              /\ st.networks[n].IPAM \in Elements(Subnets)
              /\ IsMap(st.networks[n].Containers, IDs, Addresses)
        /\ st.availableSubnets \in Seq(Elements(Subnets))
        /\ IsMap(st.usedSubnets, Networks, Elements(Subnets))
        /\ IsMap(st.networkIndices, YamlNames, 0 .. IndexMod - 1)
        /\ IsMap(st.serviceHashes, {s.Name : s \in Services}, Services)
<1>1. ASSUME NEW container
      PROVE  IsRecord(container) <=>
                /\ IsContainer(container)
                /\ container = [ID |-> container.ID,
                                Running |-> container.Running,
                                Bare |-> container.Bare,
                                Networks |-> container.Networks]
  BY DEF IsRecord, IsContainer
<1> QED
  BY <1>1, Zenon DEF Typed, IsState, ContainerNames, VolumeNames

\* A sequence of subnets is one of elements of the list.
LEMMA AvailableTyped ==
    ASSUME NEW st, Good(st)
    PROVE  st.availableSubnets \in Seq(Elements(Subnets))
<1> DEFINE s == st.availableSubnets
<1>1. s \in Seq(Nat) /\ Elements(s) \subseteq Elements(Subnets)
  BY DEF Good, Shape, Conserved
<1> HIDE DEF s
<1>2. \A i \in 1 .. Len(s) : s[i] \in Elements(Subnets)
  BY <1>1 DEF Elements
<1>3. s \in Seq(Elements(Subnets))
  BY <1>1, <1>2
<1> QED
  BY <1>3 DEF s

LEMMA NewIsSound == Sound(newState, 1)
<1>1. /\ newState.containers = NewMap /\ newState.volumes = NewMap
      /\ newState.networks = NewMap /\ newState.usedSubnets = NewMap
      /\ newState.networkIndices = NewMap /\ newState.serviceHashes = NewMap
      /\ DOMAIN NewMap = {}
  BY DEF newState, NewMap
<1>2. \A K, V : IsMap(NewMap, K, V)
  BY DEF IsMap, NewMap
<1>3. Typed(newState)
  BY <1>1, <1>2, NewIsGood, AvailableTyped, TypedParts
<1> QED
  BY <1>1, <1>3, NewIsGood DEF Sound, Wired, Fresh, Indexed

\* An old state stays sound: the IDs and the indices have only grown.
LEMMA OldIsSound ==
    ASSUME NEW st, NEW i \in Nat, NEW j \in Nat, i <= j, Sound(st, i)
    PROVE  Sound(st, j)
<1>1. Fresh(st, j)
  BY DEF Sound, Fresh, Typed, IsState, IsContainer, IDs
<1>2. Indexed(st, j)
  <2> SUFFICES ASSUME NEW n \in DOMAIN st.networks, NEW yaml \in YamlNames,
                      Own(n, yaml)
               PROVE  LET endpoints == st.networks[n].Containers
                          index == st.networkIndices[yaml]
                      IN  /\ j <= IndexMod - 2 =>
                              /\ yaml \in DOMAIN st.networkIndices
                              /\ 2 <= index /\ index <= j + 1
                              /\ \A k \in DOMAIN endpoints :
                                    endpoints[k][2] < index
                          /\ j <= IndexMod - 1 =>
                              /\ \A k, l \in DOMAIN endpoints :
                                    endpoints[k] = endpoints[l] => k = l
                              /\ \A k \in DOMAIN endpoints :
                                    endpoints[k][2] >= 2
    BY DEF Indexed
  <2>0. /\ j <= IndexMod - 2 => i <= IndexMod - 2
        /\ j <= IndexMod - 1 => i <= IndexMod - 1
    BY SubnetAssumption
  <2>1. yaml \in DOMAIN st.networkIndices => st.networkIndices[yaml] \in Nat
    BY DEF Sound, Typed, IsState, IsMap
  <2>2. ASSUME j <= IndexMod - 2
        PROVE  /\ yaml \in DOMAIN st.networkIndices
               /\ 2 <= st.networkIndices[yaml]
               /\ st.networkIndices[yaml] <= j + 1
               /\ \A k \in DOMAIN st.networks[n].Containers :
                     st.networks[n].Containers[k][2] < st.networkIndices[yaml]
    <3>1. /\ yaml \in DOMAIN st.networkIndices
          /\ 2 <= st.networkIndices[yaml]
          /\ st.networkIndices[yaml] <= i + 1
          /\ \A k \in DOMAIN st.networks[n].Containers :
                st.networks[n].Containers[k][2] < st.networkIndices[yaml]
      BY <2>0, <2>2 DEF Sound, Indexed
    <3> QED
      BY <2>1, <3>1
  <2>3. ASSUME j <= IndexMod - 1
        PROVE  /\ \A k, l \in DOMAIN st.networks[n].Containers :
                     st.networks[n].Containers[k] = st.networks[n].Containers[l]
                        => k = l
               /\ \A k \in DOMAIN st.networks[n].Containers :
                     st.networks[n].Containers[k][2] >= 2
    BY <2>0, <2>3 DEF Sound, Indexed
  <2> QED
    BY <2>2, <2>3
<1> QED
  BY <1>1, <1>2 DEF Sound

\* A state that differs in its hashes or its volumes only.
LEMMA SameIsSound ==
    ASSUME NEW st, NEW id, Sound(st, id), NEW new, Good(new),
           new.containers = st.containers, new.networks = st.networks,
           new.usedSubnets = st.usedSubnets,
           new.networkIndices = st.networkIndices,
           IsMap(new.volumes, VolumeNames, [UsageData : BOOLEAN]),
           IsMap(new.serviceHashes, {s.Name : s \in Services}, Services)
    PROVE  Sound(new, id)
<1>1. Typed(new)
  BY AvailableTyped, TypedParts, Zenon DEF Sound
<1> QED
  BY <1>1 DEF Sound, Wired, Fresh, Indexed

LEMMA CloneIsSound ==
    ASSUME NEW st, NEW id, Sound(st, id)
    PROVE  Sound(Clone(st), id)
<1> DEFINE new == Clone(st)
<1>1. Good(new) /\ Fields(st)
  BY CloneIsGood DEF Sound, Good, Shape
<1>2. /\ new.containers = st.containers /\ new.networks = st.networks
      /\ new.usedSubnets = st.usedSubnets
      /\ new.networkIndices = st.networkIndices
      /\ new.volumes = st.volumes /\ new.serviceHashes = NewMap
  BY <1>1 DEF Fields, Clone
<1>3. IsMap(NewMap, {s.Name : s \in Services}, Services)
  BY DEF IsMap, NewMap
<1> HIDE DEF new
<1>4. IsMap(new.volumes, VolumeNames, [UsageData : BOOLEAN])
  BY <1>2, TypedParts DEF Sound
<1>5. Sound(new, id)
  BY <1>1, <1>2, <1>3, <1>4, SameIsSound
<1> QED
  BY <1>5 DEF new

LEMMA VolumesIsSound ==
    ASSUME NEW st, NEW id, Sound(st, id), NEW v,
           IsMap(v, VolumeNames, [UsageData : BOOLEAN])
    PROVE  Sound([st EXCEPT !.volumes = v], id)
<1> DEFINE new == [st EXCEPT !.volumes = v]
<1>1. Good(new) /\ Fields(st)
  BY OtherIsGood DEF Sound, Good, Shape
<1>2. /\ new.containers = st.containers /\ new.networks = st.networks
      /\ new.usedSubnets = st.usedSubnets
      /\ new.networkIndices = st.networkIndices
      /\ new.volumes = v /\ new.serviceHashes = st.serviceHashes
  BY <1>1 DEF Fields
<1>3. IsMap(st.serviceHashes, {s.Name : s \in Services}, Services)
  BY TypedParts DEF Sound
<1> HIDE DEF new
<1>4. Sound(new, id)
  BY <1>1, <1>2, <1>3, SameIsSound
<1> QED
  BY <1>4 DEF new

\* A container is started or stopped.
LEMMA SetRunningFields ==
    ASSUME NEW st, Good(st), Typed(st), NEW c \in DOMAIN st.containers,
           NEW running \in BOOLEAN
    PROVE  LET new == SetRunning(st, c, running)
           IN  /\ new.networks = st.networks /\ new.volumes = st.volumes
               /\ new.usedSubnets = st.usedSubnets
               /\ new.networkIndices = st.networkIndices
               /\ new.serviceHashes = st.serviceHashes
               /\ DOMAIN new.containers = DOMAIN st.containers
               /\ running => new.containers[c].Running
               /\ \A d \in DOMAIN st.containers :
                     /\ IsRecord(new.containers[d])
                     /\ new.containers[d].ID = st.containers[d].ID
                     /\ new.containers[d].Networks = st.containers[d].Networks
                     /\ d # c => new.containers[d] = st.containers[d]
<1> DEFINE new == SetRunning(st, c, running)
           containers == [st.containers EXCEPT ![c].Running = running]
<1>1. new = [st EXCEPT !.containers = containers]
  BY Zenon DEF SetRunning
<1>2. DOMAIN containers = DOMAIN st.containers
  OBVIOUS
<1>3. \A d \in DOMAIN st.containers \ {c} : containers[d] = st.containers[d]
  OBVIOUS
<1>4. containers[c] = [st.containers[c] EXCEPT !.Running = running]
  OBVIOUS
<1> HIDE DEF new, containers
<1>5. /\ new.networks = st.networks /\ new.volumes = st.volumes
      /\ new.usedSubnets = st.usedSubnets
      /\ new.networkIndices = st.networkIndices
      /\ new.serviceHashes = st.serviceHashes
      /\ new.containers = containers
  BY <1>1 DEF Good, Shape, Fields
<1>6. \A d \in DOMAIN st.containers : IsRecord(st.containers[d])
  BY TypedParts
<1>7. /\ IsRecord(containers[c]) /\ containers[c].ID = st.containers[c].ID
      /\ containers[c].Networks = st.containers[c].Networks
      /\ containers[c].Running = running
  <2> DEFINE old == st.containers[c]
             one == containers[c]
  <2>1. IsRecord(old) /\ one = [old EXCEPT !.Running = running]
    BY <1>4, <1>6
  <2> HIDE DEF old, one
  <2>2. /\ one = [ID |-> old.ID, Running |-> running, Bare |-> old.Bare,
                  Networks |-> old.Networks]
    BY <2>1 DEF IsRecord
  <2>3. IsRecord(one) /\ one.ID = old.ID /\ one.Networks = old.Networks
        /\ one.Running = running
    BY <2>1, <2>2 DEF IsRecord
  <2> QED
    BY <2>3 DEF old, one
<1> QED
  BY <1>2, <1>3, <1>5, <1>6, <1>7 DEF new

LEMMA SetRunningIsSound ==
    ASSUME NEW st, NEW id, Sound(st, id), NEW c \in DOMAIN st.containers,
           NEW running \in BOOLEAN
    PROVE  Sound(SetRunning(st, c, running), id)
<1> DEFINE new == SetRunning(st, c, running)
<1>1. /\ Good(new)
      /\ new.networks = st.networks /\ new.volumes = st.volumes
      /\ new.usedSubnets = st.usedSubnets
      /\ new.networkIndices = st.networkIndices
      /\ new.serviceHashes = st.serviceHashes
      /\ DOMAIN new.containers = DOMAIN st.containers
      /\ \A d \in DOMAIN st.containers :
            /\ IsRecord(new.containers[d])
            /\ new.containers[d].ID = st.containers[d].ID
            /\ new.containers[d].Networks = st.containers[d].Networks
  BY SetRunningFields, SetRunningIsGood DEF Sound
<1> HIDE DEF new
<1>2. Typed(new)
  BY <1>1, AvailableTyped, TypedParts, Zenon DEF Sound
<1>3. Wired(new)
  BY <1>1 DEF Sound, Wired
<1>4. Fresh(new, id) /\ Indexed(new, id)
  BY <1>1 DEF Sound, Fresh, Indexed
<1> QED
  BY <1>1, <1>2, <1>3, <1>4 DEF Sound, new

\* Mock_AddContainer: a container that is on no network.
LEMMA AddIsSound ==
    ASSUME NEW st, NEW id \in IDs, Sound(st, id), NEW c \in ContainerNames,
           NEW container, container = [ID |-> id, Running |-> FALSE,
                                       Bare |-> TRUE, Networks |-> NewMap]
    PROVE  Sound([st EXCEPT !.containers = Put(st.containers, c, container)],
                 id + 1)
<1> DEFINE containers == Put(st.containers, c, container)
           new == [st EXCEPT !.containers = containers]
<1>0. id \in Nat /\ id + 1 \in Nat /\ id <= id + 1 /\ Sound(st, id + 1)
  BY OldIsSound DEF IDs
<1>1. /\ DOMAIN containers = DOMAIN st.containers \cup {c}
      /\ containers[c] = container
      /\ \A d \in DOMAIN st.containers \ {c} : containers[d] = st.containers[d]
  BY DEF Put
<1> HIDE DEF containers
<1>2. /\ Good(new) /\ new.containers = containers
      /\ new.networks = st.networks /\ new.volumes = st.volumes
      /\ new.usedSubnets = st.usedSubnets
      /\ new.networkIndices = st.networkIndices
      /\ new.serviceHashes = st.serviceHashes
  BY OtherIsGood DEF Sound, Good, Shape, Fields
<1> HIDE DEF new
<1>3. IsRecord(container) /\ DOMAIN container.Networks = {} /\ container.ID = id
  BY DEF IsRecord, IsMap, NewMap
<1>4. Typed(new)
  <2>1. \A d \in DOMAIN new.containers :
            d \in ContainerNames /\ IsRecord(new.containers[d])
    BY <1>1, <1>2, <1>3, TypedParts DEF Sound
  <2> QED
    BY <1>2, <2>1, AvailableTyped, TypedParts, Zenon DEF Sound
<1>5. Fresh(new, id + 1)
  BY <1>0, <1>1, <1>2, <1>3 DEF Sound, Fresh
<1>6. \A d \in DOMAIN st.containers : st.containers[d].ID # id
  <2>1. \A d \in DOMAIN st.containers : st.containers[d].ID < id
    BY DEF Sound, Fresh
  <2>2. \A d \in DOMAIN st.containers : st.containers[d].ID \in IDs
    BY TypedParts DEF Sound, IsRecord
  <2> QED
    BY <1>0, <2>1, <2>2 DEF IDs
<1>7. Wired(new)
  BY <1>1, <1>2, <1>3, <1>6 DEF Sound, Wired
<1>8. Indexed(new, id + 1)
  BY <1>0, <1>2 DEF Sound, Indexed
<1> QED
  BY <1>2, <1>4, <1>5, <1>7, <1>8 DEF Sound, new, containers

\* A container goes, with its endpoints: no other container has its ID.
LEMMA WithoutContainerIsSound ==
    ASSUME NEW st, NEW id, Sound(st, id), NEW c \in DOMAIN st.containers
    PROVE  Sound(WithoutContainer(st, c), id)
<1> DEFINE new == WithoutContainer(st, c)
           container == st.containers[c]
           containers == Delete(st.containers, c)
           networks == [n \in DOMAIN st.networks |->
                           IF n \in DOMAIN container.Networks
                           THEN Disconnected(st.networks[n], container.ID)
                           ELSE st.networks[n]]
<1>0. Good(st) /\ Typed(st) /\ Wired(st) /\ Fresh(st, id) /\ Indexed(st, id)
  BY DEF Sound
<1>1. new = [st EXCEPT !.containers = containers, !.networks = networks]
  BY DEF WithoutContainer
<1>2. /\ DOMAIN containers = DOMAIN st.containers \ {c}
      /\ \A d \in DOMAIN containers : containers[d] = st.containers[d]
  BY DEF Delete
<1> HIDE DEF new, container, containers
<1>3. ASSUME NEW n \in DOMAIN st.networks
      PROVE  /\ networks[n].IPAM = st.networks[n].IPAM
             /\ IsMap(networks[n].Containers, IDs, Addresses)
             /\ DOMAIN networks[n].Containers
                  \subseteq DOMAIN st.networks[n].Containers
             /\ \A i \in DOMAIN networks[n].Containers :
                   networks[n].Containers[i] = st.networks[n].Containers[i]
             /\ \A i \in DOMAIN st.networks[n].Containers :
                   i # container.ID => i \in DOMAIN networks[n].Containers
  <2>1. IsNetwork(st.networks[n]) /\ IsMap(st.networks[n].Containers, IDs, Addresses)
    BY <1>0, TypedParts DEF Good, Shape
  <2>2. CASE n \notin DOMAIN container.Networks
    BY <2>1, <2>2
  <2>3. CASE n \in DOMAIN container.Networks
    <3> DEFINE old == st.networks[n].Containers
    <3>1. networks[n].IPAM = st.networks[n].IPAM
          /\ networks[n].Containers = Delete(old, container.ID)
      BY <2>1, <2>3, EndpointsKeepSubnet, EndpointFacts
    <3> HIDE DEF networks
    <3>2. IsMap(Delete(old, container.ID), IDs, Addresses)
      BY <2>1, MapFacts
    <3>3. /\ DOMAIN Delete(old, container.ID) = DOMAIN old \ {container.ID}
          /\ \A i \in DOMAIN old \ {container.ID} :
                Delete(old, container.ID)[i] = old[i]
      BY DEF Delete
    <3> QED
      BY <3>1, <3>2, <3>3
  <2> QED
    BY <2>2, <2>3
<1>4. DOMAIN networks = DOMAIN st.networks
  OBVIOUS
<1> HIDE DEF networks
<1>5. /\ Good(new) /\ new.containers = containers /\ new.networks = networks
      /\ new.volumes = st.volumes /\ new.usedSubnets = st.usedSubnets
      /\ new.networkIndices = st.networkIndices
      /\ new.serviceHashes = st.serviceHashes
  <2>1. Good(new)
    BY <1>0, WithoutContainerIsGood DEF new
  <2> QED
    BY <1>0, <1>1, <2>1 DEF Good, Shape, Fields
<1>6. Typed(new)
  <2>1. \A d \in DOMAIN new.containers :
            d \in ContainerNames /\ IsRecord(new.containers[d])
    BY <1>0, <1>2, <1>5, TypedParts
  <2>2. \A n \in DOMAIN new.networks :
            /\ n \in Networks
            /\ new.networks[n].IPAM \in Elements(Subnets)
            /\ IsMap(new.networks[n].Containers, IDs, Addresses)
    BY <1>0, <1>3, <1>4, <1>5, TypedParts
  <2> QED
    BY <1>0, <1>5, <2>1, <2>2, AvailableTyped, TypedParts, Zenon
<1>7. Wired(new)
  <2>1. \A d \in DOMAIN containers : st.containers[d].ID # container.ID
    BY <1>0, <1>2 DEF Wired, container
  <2> QED
    BY <1>0, <1>2, <1>3, <1>4, <1>5, <2>1 DEF Wired
<1>8. Fresh(new, id)
  BY <1>0, <1>2, <1>5 DEF Fresh
<1>9. Indexed(new, id)
  BY <1>0, <1>3, <1>4, <1>5 DEF Indexed
<1> QED
  BY <1>5, <1>6, <1>7, <1>8, <1>9 DEF Sound, new

\* A network goes that no endpoint is in, so no container is on it.
LEMMA WithoutNetworkIsSound ==
    ASSUME NEW st, NEW id, Sound(st, id), NEW n \in DOMAIN st.networks,
           ~InUse(st, n)
    PROVE  Sound(WithoutNetwork(st, n), id)
<1> DEFINE new == WithoutNetwork(st, n)
           available == Append(st.availableSubnets, st.usedSubnets[n])
           networks == Delete(st.networks, n)
           used == Delete(st.usedSubnets, n)
<1>0. Good(st) /\ Typed(st) /\ Wired(st) /\ Fresh(st, id) /\ Indexed(st, id)
  BY DEF Sound
<1>1. new = [st EXCEPT !.availableSubnets = available, !.networks = networks,
                       !.usedSubnets = used]
  BY DEF WithoutNetwork
<1>2. /\ DOMAIN networks = DOMAIN st.networks \ {n}
      /\ \A m \in DOMAIN networks : networks[m] = st.networks[m]
      /\ DOMAIN used = DOMAIN st.usedSubnets \ {n}
      /\ \A m \in DOMAIN used : used[m] = st.usedSubnets[m]
  BY DEF Delete
<1>3. IsMap(used, Networks, Elements(Subnets))
  BY <1>0, TypedParts, MapFacts
<1> HIDE DEF new, available, networks, used
<1>4. /\ Good(new) /\ new.containers = st.containers /\ new.networks = networks
      /\ new.volumes = st.volumes /\ new.usedSubnets = used
      /\ new.networkIndices = st.networkIndices
      /\ new.serviceHashes = st.serviceHashes
  <2>1. Good(new)
    BY <1>0, WithoutNetworkIsGood DEF new
  <2> QED
    BY <1>0, <1>1, <2>1 DEF Good, Shape, Fields
<1>5. Typed(new)
  <2>1. \A m \in DOMAIN new.networks :
            /\ m \in Networks
            /\ new.networks[m].IPAM \in Elements(Subnets)
            /\ IsMap(new.networks[m].Containers, IDs, Addresses)
    BY <1>0, <1>2, <1>4, TypedParts
  <2> QED
    BY <1>0, <1>3, <1>4, <2>1, AvailableTyped, TypedParts, Zenon
<1>6. Wired(new)
  <2>1. \A c \in DOMAIN st.containers : n \notin DOMAIN st.containers[c].Networks
    BY <1>0 DEF Wired, InUse
  <2>2. DOMAIN st.usedSubnets = DOMAIN st.networks
    BY <1>0 DEF Good, Conserved
  <2> QED
    BY <1>0, <1>2, <1>4, <2>1, <2>2 DEF Wired
<1>7. Fresh(new, id) /\ Indexed(new, id)
  BY <1>0, <1>2, <1>4 DEF Fresh, Indexed
<1> QED
  BY <1>4, <1>5, <1>6, <1>7 DEF Sound, new

\* A new network has no endpoint, and starts its index at 2.  The YAML name
\* it shares with no other is that of no other's index.
LEMMA NetworkIsSound ==
    ASSUME NEW st, NEW id \in Nat \ {0}, Sound(st, id), NEW p \in Projects,
           NEW yaml \in DOMAIN p.Networks, NEW name, name = p.Networks[yaml].Name,
           name \notin DOMAIN st.networks, st.availableSubnets # <<>>
    PROVE  Sound(generateNetwork(st, name, yaml), id)
<1> DEFINE new == generateNetwork(st, name, yaml)
           subnet == Head(st.availableSubnets)
           network == [IPAM |-> subnet, Containers |-> NewMap]
           rest == Tail(st.availableSubnets)
           used == Put(st.usedSubnets, name, subnet)
           networks == Put(st.networks, name, network)
           indices == Put(st.networkIndices, yaml, 2)
<1>0. Good(st) /\ Typed(st) /\ Wired(st) /\ Fresh(st, id) /\ Indexed(st, id)
  BY DEF Sound
<1>1. new = [st EXCEPT !.availableSubnets = rest, !.usedSubnets = used,
                       !.networks = networks, !.networkIndices = indices]
  BY DEF generateNetwork
<1>2. /\ DOMAIN networks = DOMAIN st.networks \cup {name}
      /\ networks[name] = network
      /\ \A n \in DOMAIN st.networks : networks[n] = st.networks[n]
      /\ DOMAIN used = DOMAIN st.usedSubnets \cup {name}
      /\ \A n \in DOMAIN st.usedSubnets \ {name} : used[n] = st.usedSubnets[n]
      /\ DOMAIN indices = DOMAIN st.networkIndices \cup {yaml}
      /\ indices[yaml] = 2
      /\ \A y \in DOMAIN st.networkIndices \ {yaml} :
            indices[y] = st.networkIndices[y]
  BY DEF Put
<1>3. /\ name \in Networks /\ yaml \in YamlNames
  BY DEF Networks, YamlNames
<1>4. subnet \in Elements(Subnets)
  <2>1. st.availableSubnets \in Seq(Elements(Subnets))
    BY <1>0, AvailableTyped
  <2> QED
    BY <2>1
<1>5. /\ network.IPAM = subnet /\ network.Containers = NewMap
      /\ DOMAIN NewMap = {}
  BY DEF NewMap
<1>6. /\ IsMap(used, Networks, Elements(Subnets))
      /\ IsMap(indices, YamlNames, 0 .. IndexMod - 1)
      /\ IsMap(NewMap, IDs, Addresses)
  <2>1. 2 \in 0 .. IndexMod - 1
    BY SubnetAssumption
  <2>2. /\ IsMap(st.usedSubnets, Networks, Elements(Subnets))
        /\ IsMap(st.networkIndices, YamlNames, 0 .. IndexMod - 1)
    BY <1>0, TypedParts
  <2> HIDE DEF subnet
  <2>3. IsMap(NewMap, IDs, Addresses)
    BY DEF IsMap, NewMap
  <2> QED
    BY <1>3, <1>4, <2>1, <2>2, <2>3, MapFacts
<1> HIDE DEF new, subnet, network, rest, used, networks, indices
<1>7. /\ Good(new) /\ new.containers = st.containers /\ new.networks = networks
      /\ new.volumes = st.volumes /\ new.usedSubnets = used
      /\ new.networkIndices = indices
      /\ new.serviceHashes = st.serviceHashes
  <2>1. Good(new)
    BY <1>0, NetworkIsGood DEF new
  <2> QED
    BY <1>0, <1>1, <2>1 DEF Good, Shape, Fields
<1>8. Typed(new)
  <2>1. \A n \in DOMAIN new.networks :
            /\ n \in Networks
            /\ new.networks[n].IPAM \in Elements(Subnets)
            /\ IsMap(new.networks[n].Containers, IDs, Addresses)
    BY <1>0, <1>2, <1>3, <1>4, <1>5, <1>6, <1>7, TypedParts
  <2> QED
    BY <1>0, <1>6, <1>7, <2>1, AvailableTyped, TypedParts, Zenon
<1>9. Wired(new)
  <2>1. DOMAIN st.usedSubnets = DOMAIN st.networks
    BY <1>0 DEF Good, Conserved
  <2> QED
    BY <1>0, <1>2, <1>7, <2>1 DEF Wired
<1>10. Indexed(new, id)
  <2>1. ASSUME NEW n \in DOMAIN st.networks, Own(n, yaml) PROVE n = name
    BY <2>1 DEF Own
  <2>2. ASSUME NEW n \in DOMAIN st.networks, NEW y \in YamlNames, Own(n, y)
        PROVE  y # yaml /\ networks[n] = st.networks[n]
    BY <1>2, <2>1, <2>2
  <2>3. networks[name].Containers = NewMap /\ DOMAIN NewMap = {}
    BY <1>2, <1>5
  <2>4. ASSUME NEW y \in YamlNames, Own(name, y) PROVE y = yaml
    BY <2>4 DEF Own
  <2>5. 2 <= id + 1
    OBVIOUS
  <2> QED
    BY <1>0, <1>2, <1>7, <2>2, <2>3, <2>4, <2>5 DEF Indexed
<1>11. Fresh(new, id)
  BY <1>0, <1>7 DEF Fresh
<1> QED
  BY <1>7, <1>8, <1>9, <1>10, <1>11 DEF Sound, new

\* A generated container gets the index of each of its networks, read before
\* the indices are increased.
LEMMA AddressFacts ==
    ASSUME NEW st, Good(st), Typed(st), NEW p \in Projects,
           NEW service \in p.Services,
           \A y \in service.Networks : p.Networks[y].Name \in DOMAIN st.networks
    PROVE  LET addresses == NewAddresses(st, p, service)
           IN  /\ IsMap(addresses, Networks, Addresses)
               /\ \A n \in DOMAIN addresses : n \in DOMAIN st.networks
               /\ \A n \in DOMAIN addresses : \E y \in service.Networks :
                     /\ y \in DOMAIN p.Networks /\ p.Networks[y].Name = n
                     /\ addresses[n] = <<st.usedSubnets[n], IndexOf(st, y)>>
               /\ \A y \in service.Networks :
                     /\ p.Networks[y].Name \in DOMAIN addresses
                     /\ addresses[p.Networks[y].Name]
                           = <<st.usedSubnets[p.Networks[y].Name],
                               IndexOf(st, y)>>
<1> DEFINE addresses == NewAddresses(st, p, service)
<1>1. /\ service.Networks \subseteq DOMAIN p.Networks
      /\ \A y, z \in DOMAIN p.Networks :
            p.Networks[y].Name = p.Networks[z].Name => y = z
  BY ProjectAssumption
<1>2. /\ DOMAIN addresses = {p.Networks[y].Name : y \in service.Networks}
      /\ addresses = [n \in DOMAIN addresses |-> addresses[n]]
  <2> DEFINE D == {p.Networks[y].Name : y \in service.Networks}
             value(n) == LET yaml == CHOOSE y \in service.Networks :
                                        p.Networks[y].Name = n
                         IN  <<st.usedSubnets[n], IndexOf(st, yaml)>>
  <2>1. addresses = [n \in D |-> value(n)]
    BY DEF NewAddresses
  <2> HIDE DEF addresses, D, value
  <2>2. DOMAIN addresses = D /\ addresses = [n \in DOMAIN addresses |-> addresses[n]]
    BY <2>1
  <2> QED
    BY <2>2 DEF D
<1>3. ASSUME NEW y \in service.Networks
      PROVE  addresses[p.Networks[y].Name]
                = <<st.usedSubnets[p.Networks[y].Name], IndexOf(st, y)>>
  <2> DEFINE n == p.Networks[y].Name
             z == CHOOSE z \in service.Networks : p.Networks[z].Name = n
  <2>1. z \in service.Networks /\ p.Networks[z].Name = n
    OBVIOUS
  <2>2. z = y
    BY <1>1, <2>1
  <2>3. addresses[n] = <<st.usedSubnets[n], IndexOf(st, z)>>
    BY DEF NewAddresses
  <2> QED
    BY <2>2, <2>3
<1> HIDE DEF addresses
<1>4. ASSUME NEW y \in service.Networks
      PROVE  /\ p.Networks[y].Name \in Networks
             /\ st.usedSubnets[p.Networks[y].Name] \in Elements(Subnets)
             /\ IndexOf(st, y) \in 0 .. IndexMod - 1
  <2>1. p.Networks[y].Name \in DOMAIN st.usedSubnets
    BY DEF Good, Conserved
  <2>2. /\ IsMap(st.usedSubnets, Networks, Elements(Subnets))
        /\ IsMap(st.networkIndices, YamlNames, 0 .. IndexMod - 1)
    BY TypedParts
  <2>3. 0 \in 0 .. IndexMod - 1
    BY SubnetAssumption
  <2> QED
    BY <2>1, <2>2, <2>3 DEF IsMap, IndexOf
<1>5. \A n \in DOMAIN addresses : n \in Networks /\ addresses[n] \in Addresses
  <2> SUFFICES ASSUME NEW y \in service.Networks
               PROVE  /\ p.Networks[y].Name \in Networks
                      /\ addresses[p.Networks[y].Name] \in Addresses
    BY <1>2
  <2> DEFINE n == p.Networks[y].Name
  <2>1. /\ n \in Networks /\ st.usedSubnets[n] \in Elements(Subnets)
        /\ IndexOf(st, y) \in 0 .. IndexMod - 1
    BY <1>4
  <2>2. addresses[n] = <<st.usedSubnets[n], IndexOf(st, y)>>
    BY <1>3
  <2>3. \A a \in Elements(Subnets), b \in 0 .. IndexMod - 1 : <<a, b>> \in Addresses
    BY DEF Addresses
  <2> QED
    BY <2>1, <2>2, <2>3, Zenon
<1>6. IsMap(addresses, Networks, Addresses)
  BY <1>2, <1>5 DEF IsMap
<1>7. \A n \in DOMAIN addresses : \E y \in service.Networks :
          /\ y \in DOMAIN p.Networks /\ p.Networks[y].Name = n
          /\ addresses[n] = <<st.usedSubnets[n], IndexOf(st, y)>>
  BY <1>1, <1>2, <1>3
<1>8. \A n \in DOMAIN addresses : n \in DOMAIN st.networks
  BY <1>2
<1> QED
  BY <1>2, <1>3, <1>6, <1>7, <1>8 DEF addresses

\* The fields after a service is generated.
ServiceMade(st, new, p, service, id, addresses) ==
    /\ new.volumes = st.volumes /\ new.usedSubnets = st.usedSubnets
    /\ new.containers = Put(st.containers, service.ContainerName,
                            NewContainer(id, addresses))
    /\ new.serviceHashes = Put(st.serviceHashes, service.Name, service)
    /\ DOMAIN new.networks = DOMAIN st.networks
    /\ \A n \in DOMAIN st.networks :
          /\ new.networks[n].IPAM = st.networks[n].IPAM
          /\ new.networks[n].Containers =
                IF n \in DOMAIN addresses
                THEN Put(st.networks[n].Containers, id, addresses[n])
                ELSE st.networks[n].Containers
    /\ new.networkIndices =
          [y \in DOMAIN st.networkIndices \cup service.Networks |->
              IF y \in service.Networks THEN NextIndex(IndexOf(st, y))
              ELSE st.networkIndices[y]]

LEMMA ServiceFields ==
    ASSUME NEW st, Good(st), NEW p, NEW service, NEW id
    PROVE  ServiceMade(st, generateService(st, p, service, id), p, service, id,
                       NewAddresses(st, p, service))
<1> DEFINE new == generateService(st, p, service, id)
           addresses == NewAddresses(st, p, service)
           indices == [y \in DOMAIN st.networkIndices \cup service.Networks |->
                          IF y \in service.Networks
                          THEN NextIndex(IndexOf(st, y))
                          ELSE st.networkIndices[y]]
           containers == Put(st.containers, service.ContainerName,
                             NewContainer(id, addresses))
           networks == [n \in DOMAIN st.networks |->
                           IF n \in DOMAIN addresses
                           THEN Connected(st.networks[n], id, addresses[n])
                           ELSE st.networks[n]]
           hashes == Put(st.serviceHashes, service.Name, service)
<1>1. new = [st EXCEPT !.networkIndices = indices,
                       !.containers = containers,
                       !.networks = networks,
                       !.serviceHashes = hashes]
  BY DEF generateService
<1> HIDE DEF new, addresses, indices, containers, hashes
<1>2. ASSUME NEW n \in DOMAIN st.networks
      PROVE  /\ networks[n].IPAM = st.networks[n].IPAM
             /\ networks[n].Containers =
                  IF n \in DOMAIN addresses
                  THEN Put(st.networks[n].Containers, id, addresses[n])
                  ELSE st.networks[n].Containers
  <2>1. IsNetwork(st.networks[n])
    BY DEF Good, Shape
  <2>2. CASE n \in DOMAIN addresses
    BY <2>1, <2>2, EndpointsKeepSubnet, EndpointFacts
  <2>3. CASE n \notin DOMAIN addresses
    BY <2>3
  <2> QED
    BY <2>2, <2>3
<1>3. DOMAIN networks = DOMAIN st.networks
  OBVIOUS
<1> HIDE DEF networks
<1>4. /\ new.volumes = st.volumes /\ new.usedSubnets = st.usedSubnets
      /\ new.containers = containers /\ new.serviceHashes = hashes
      /\ new.networks = networks /\ new.networkIndices = indices
  BY <1>1 DEF Good, Shape, Fields
<1>5. ServiceMade(st, new, p, service, id, addresses)
  BY <1>2, <1>3, <1>4, Zenon DEF ServiceMade, containers, hashes, indices
<1> QED
  BY <1>5 DEF new, addresses

LEMMA ServiceTyped ==
    ASSUME NEW st, NEW id \in IDs, Good(st), Typed(st), NEW p \in Projects,
           NEW service \in p.Services, NEW addresses, NEW new, Good(new),
           IsMap(addresses, Networks, Addresses),
           ServiceMade(st, new, p, service, id, addresses)
    PROVE  Typed(new)
<1>0. /\ service \in Services /\ service.ContainerName \in ContainerNames
      /\ service.Name \in {s.Name : s \in Services}
      /\ service.Networks \subseteq YamlNames
  BY ProjectAssumption DEF Services, ContainerNames, YamlNames
<1>1. ASSUME NEW c \in DOMAIN new.containers
      PROVE  c \in ContainerNames /\ IsRecord(new.containers[c])
  <2>1. IsRecord(NewContainer(id, addresses))
    BY DEF IsRecord, NewContainer
  <2>2. \A d \in DOMAIN st.containers :
            d \in ContainerNames /\ IsRecord(st.containers[d])
    BY TypedParts
  <2>3. \/ c = service.ContainerName
           /\ new.containers[c] = NewContainer(id, addresses)
        \/ c \in DOMAIN st.containers /\ new.containers[c] = st.containers[c]
    BY DEF ServiceMade, Put
  <2> QED
    BY <1>0, <2>1, <2>2, <2>3
<1>2. ASSUME NEW n \in DOMAIN new.networks
      PROVE  /\ n \in Networks
             /\ new.networks[n].IPAM \in Elements(Subnets)
             /\ IsMap(new.networks[n].Containers, IDs, Addresses)
  <2>1. /\ n \in DOMAIN st.networks /\ n \in Networks
        /\ st.networks[n].IPAM \in Elements(Subnets)
        /\ IsMap(st.networks[n].Containers, IDs, Addresses)
        /\ new.networks[n].IPAM = st.networks[n].IPAM
    BY TypedParts DEF ServiceMade
  <2>2. n \in DOMAIN addresses =>
            IsMap(Put(st.networks[n].Containers, id, addresses[n]), IDs, Addresses)
    BY <2>1, MapFacts DEF IsMap
  <2> QED
    BY <2>1, <2>2 DEF ServiceMade
<1>3. IsMap(new.networkIndices, YamlNames, 0 .. IndexMod - 1)
  <2>1. IsMap(st.networkIndices, YamlNames, 0 .. IndexMod - 1)
    BY TypedParts
  <2>2. ASSUME NEW y PROVE IndexOf(st, y) \in 0 .. IndexMod - 1
    BY <2>1, SubnetAssumption DEF IndexOf, IsMap
  <2>3. ASSUME NEW y PROVE NextIndex(IndexOf(st, y)) \in 0 .. IndexMod - 1
    <3>1. \A k \in 0 .. IndexMod - 1 : (k + 1) % IndexMod \in 0 .. IndexMod - 1
      BY SubnetAssumption
    <3> QED
      BY <2>2, <3>1 DEF NextIndex
  <2> DEFINE new1 == new.networkIndices
  <2>4. new1 = [y \in DOMAIN st.networkIndices \cup service.Networks |->
                   IF y \in service.Networks THEN NextIndex(IndexOf(st, y))
                   ELSE st.networkIndices[y]]
    BY DEF ServiceMade
  <2> HIDE DEF new1
  <2>5. IsMap(new1, YamlNames, 0 .. IndexMod - 1)
    BY <1>0, <2>1, <2>3, <2>4 DEF IsMap
  <2> QED
    BY <2>5 DEF new1
<1>4. IsMap(new.serviceHashes, {s.Name : s \in Services}, Services)
  <2>1. IsMap(st.serviceHashes, {s.Name : s \in Services}, Services)
    BY TypedParts
  <2> DEFINE K == {s.Name : s \in Services}
  <2> HIDE DEF K
  <2>2. IsMap(Put(st.serviceHashes, service.Name, service), K, Services)
    BY <1>0, <2>1, MapFacts DEF K
  <2> QED
    BY <2>2 DEF ServiceMade, K
<1>5. /\ IsMap(new.volumes, VolumeNames, [UsageData : BOOLEAN])
      /\ IsMap(new.usedSubnets, Networks, Elements(Subnets))
  BY TypedParts DEF ServiceMade
<1> QED
  BY <1>1, <1>2, <1>3, <1>4, <1>5, AvailableTyped, TypedParts, Zenon

\* No other container has the new ID, so none loses an endpoint.
LEMMA ServiceWired ==
    ASSUME NEW st, NEW id \in IDs, Sound(st, id), NEW p, NEW service,
           NEW addresses, NEW new,
           \A n \in DOMAIN addresses : n \in DOMAIN st.networks,
           \A n \in DOMAIN addresses : addresses[n][1] = st.usedSubnets[n],
           ServiceMade(st, new, p, service, id, addresses)
    PROVE  Wired(new) /\ Fresh(new, id + 1)
<1> DEFINE name == service.ContainerName
           made == NewContainer(id, addresses)
<1>1. /\ DOMAIN new.containers = DOMAIN st.containers \cup {name}
      /\ new.containers[name] = made
      /\ \A d \in DOMAIN st.containers \ {name} :
            new.containers[d] = st.containers[d]
  BY DEF ServiceMade, Put
<1>2. made.ID = id /\ made.Networks = addresses
  BY DEF NewContainer
<1>3. \A d \in DOMAIN st.containers :
          st.containers[d].ID \in Nat /\ st.containers[d].ID < id
  <2>1. \A d \in DOMAIN st.containers : st.containers[d].ID < id
    BY DEF Sound, Fresh
  <2>2. \A d \in DOMAIN st.containers : st.containers[d].ID \in IDs
    BY TypedParts DEF Sound, IsRecord
  <2> QED
    BY <2>1, <2>2 DEF IDs
<1>4. \A d \in DOMAIN st.containers : st.containers[d].ID # id
  BY <1>3 DEF IDs
<1>5. /\ DOMAIN new.networks = DOMAIN st.networks
      /\ \A n \in DOMAIN addresses :
            /\ id \in DOMAIN new.networks[n].Containers
            /\ new.networks[n].Containers[id] = addresses[n]
      /\ \A n \in DOMAIN st.networks : \A i \in DOMAIN st.networks[n].Containers :
            i # id =>
               /\ i \in DOMAIN new.networks[n].Containers
               /\ new.networks[n].Containers[i] = st.networks[n].Containers[i]
      /\ new.usedSubnets = st.usedSubnets
  <2>1. /\ DOMAIN new.networks = DOMAIN st.networks
        /\ new.usedSubnets = st.usedSubnets
        /\ \A n \in DOMAIN st.networks :
              new.networks[n].Containers =
                 IF n \in DOMAIN addresses
                 THEN Put(st.networks[n].Containers, id, addresses[n])
                 ELSE st.networks[n].Containers
    BY DEF ServiceMade
  <2>2. ASSUME NEW n \in DOMAIN addresses
        PROVE  /\ id \in DOMAIN new.networks[n].Containers
               /\ new.networks[n].Containers[id] = addresses[n]
    <3> DEFINE old == st.networks[n].Containers
               more == new.networks[n].Containers
    <3>1. more = Put(old, id, addresses[n])
      BY <2>1
    <3> HIDE DEF old, more
    <3>2. id \in DOMAIN more /\ more[id] = addresses[n]
      BY <3>1 DEF Put
    <3> QED
      BY <3>2 DEF more
  <2>3. ASSUME NEW n \in DOMAIN st.networks,
               NEW i \in DOMAIN st.networks[n].Containers, i # id
        PROVE  /\ i \in DOMAIN new.networks[n].Containers
               /\ new.networks[n].Containers[i] = st.networks[n].Containers[i]
    <3>1. CASE n \in DOMAIN addresses
      <4> DEFINE old == st.networks[n].Containers
                 more == new.networks[n].Containers
      <4>1. more = Put(old, id, addresses[n]) /\ i \in DOMAIN old
        BY <2>1, <3>1
      <4> HIDE DEF old, more
      <4>2. i \in DOMAIN more /\ more[i] = old[i]
        BY <2>3, <4>1 DEF Put
      <4> QED
        BY <4>2 DEF old, more
    <3>2. CASE n \notin DOMAIN addresses
      BY <2>1, <3>2
    <3> QED
      BY <3>1, <3>2
  <2> QED
    BY <2>1, <2>2, <2>3
<1> HIDE DEF name, made
<1>6. Wired(new)
  <2>1. ASSUME NEW c \in DOMAIN new.containers,
               NEW n \in DOMAIN new.containers[c].Networks
        PROVE  LET container == new.containers[c] IN
               /\ n \in DOMAIN new.networks
               /\ container.ID \in DOMAIN new.networks[n].Containers
               /\ new.networks[n].Containers[container.ID]
                     = container.Networks[n]
               /\ container.Networks[n][1] = new.usedSubnets[n]
    <3>1. CASE c = name
      BY <1>1, <1>2, <1>5, <2>1, <3>1
    <3>2. CASE c # name
      BY <1>1, <1>4, <1>5, <2>1, <3>2 DEF Sound, Wired
    <3> QED
      BY <3>1, <3>2
  <2>2. ASSUME NEW c \in DOMAIN new.containers, NEW d \in DOMAIN new.containers,
               new.containers[c].ID = new.containers[d].ID
        PROVE  c = d
    BY <1>1, <1>2, <1>4, <2>2 DEF Sound, Wired
  <2> QED
    BY <2>1, <2>2 DEF Wired
<1>7. Fresh(new, id + 1)
  BY <1>1, <1>2, <1>3 DEF Fresh, IDs
<1> QED
  BY <1>6, <1>7

\* The address given has the index, which is above those of the others.
LEMMA ServiceIndexed ==
    ASSUME NEW st, NEW id \in IDs, Typed(st), Indexed(st, id),
           NEW p \in Projects, NEW service \in p.Services,
           NEW addresses, NEW new,
           ServiceMade(st, new, p, service, id, addresses),
           \A n \in DOMAIN addresses : \E y \in service.Networks :
              y \in DOMAIN p.Networks /\ p.Networks[y].Name = n,
           \A y \in service.Networks :
              /\ p.Networks[y].Name \in DOMAIN addresses
              /\ addresses[p.Networks[y].Name][2] = IndexOf(st, y)
    PROVE  Indexed(new, id + 1)
<1> SUFFICES ASSUME NEW n \in DOMAIN new.networks, NEW yaml \in YamlNames,
                    Own(n, yaml)
             PROVE  LET endpoints == new.networks[n].Containers
                        index == new.networkIndices[yaml]
                    IN  /\ id + 1 <= IndexMod - 2 =>
                              /\ yaml \in DOMAIN new.networkIndices
                              /\ 2 <= index /\ index <= id + 2
                              /\ \A i \in DOMAIN endpoints :
                                    endpoints[i][2] < index
                        /\ id + 1 <= IndexMod - 1 =>
                              /\ \A i, j \in DOMAIN endpoints :
                                    endpoints[i] = endpoints[j] => i = j
                              /\ \A i \in DOMAIN endpoints :
                                    endpoints[i][2] >= 2
  <2>1. id + 1 + 1 = id + 2
    BY DEF IDs
  <2> QED
    BY <2>1 DEF Indexed
<1> DEFINE old == st.networks[n].Containers
           index == st.networkIndices[yaml]
           endpoints == new.networks[n].Containers
           next == new.networkIndices[yaml]
<1>0. /\ n \in DOMAIN st.networks /\ id \in Nat /\ IndexMod \in Nat
      /\ service.Networks \subseteq DOMAIN p.Networks
      /\ \A i \in DOMAIN old : old[i][2] \in Nat
      /\ yaml \in DOMAIN st.networkIndices => index \in Nat
  <2>1. /\ n \in DOMAIN st.networks
        /\ service.Networks \subseteq DOMAIN p.Networks
    BY ProjectAssumption DEF ServiceMade
  <2>2. /\ IsMap(old, IDs, Addresses)
        /\ IsMap(st.networkIndices, YamlNames, 0 .. IndexMod - 1)
    BY <2>1, TypedParts
  <2>3. \A a \in Addresses : a[2] \in Nat
    BY DEF Addresses
  <2> QED
    BY <2>1, <2>2, <2>3, SubnetAssumption DEF IsMap, IDs
<1>1. /\ id <= IndexMod - 2 =>
            /\ yaml \in DOMAIN st.networkIndices
            /\ 2 <= index /\ index <= id + 1
            /\ \A i \in DOMAIN old : old[i][2] < index
      /\ id <= IndexMod - 1 =>
            /\ \A i, j \in DOMAIN old : old[i] = old[j] => i = j
            /\ \A i \in DOMAIN old : old[i][2] >= 2
  BY <1>0 DEF Indexed
<1>2. CASE yaml \in service.Networks
  <2>1. n \in DOMAIN addresses /\ addresses[n][2] = IndexOf(st, yaml)
    BY <1>0, <1>2 DEF Own
  <2>2. /\ DOMAIN endpoints = DOMAIN old \cup {id}
        /\ endpoints[id][2] = IndexOf(st, yaml)
        /\ \A i \in DOMAIN old \ {id} : endpoints[i] = old[i]
        /\ yaml \in DOMAIN new.networkIndices
        /\ next = NextIndex(IndexOf(st, yaml))
    <3>1. endpoints = Put(old, id, addresses[n])
      BY <1>0, <2>1 DEF ServiceMade
    <3>2. yaml \in DOMAIN new.networkIndices /\ next = NextIndex(IndexOf(st, yaml))
      BY <1>2 DEF ServiceMade
    <3> HIDE DEF old, endpoints
    <3>3. /\ DOMAIN endpoints = DOMAIN old \cup {id}
          /\ endpoints[id] = addresses[n]
          /\ \A i \in DOMAIN old \ {id} : endpoints[i] = old[i]
      BY <3>1 DEF Put
    <3> QED
      BY <2>1, <3>2, <3>3
  <2> HIDE DEF old, index, endpoints, next
  <2> SUFFICES ASSUME id + 1 <= IndexMod - 1
               PROVE  /\ id + 1 <= IndexMod - 2 =>
                            /\ yaml \in DOMAIN new.networkIndices
                            /\ 2 <= next /\ next <= id + 2
                            /\ \A i \in DOMAIN endpoints :
                                  endpoints[i][2] < next
                      /\ \A i, j \in DOMAIN endpoints :
                            endpoints[i] = endpoints[j] => i = j
                      /\ \A i \in DOMAIN endpoints : endpoints[i][2] >= 2
    BY <1>0 DEF old, index, endpoints, next
  <2>3. id <= IndexMod - 2 /\ id <= IndexMod - 1
    BY <1>0
  <2>4. /\ yaml \in DOMAIN st.networkIndices /\ index \in Nat
        /\ 2 <= index /\ index <= id + 1
        /\ \A i \in DOMAIN old : old[i][2] < index
        /\ \A i, j \in DOMAIN old : old[i] = old[j] => i = j
        /\ \A i \in DOMAIN old : old[i][2] >= 2
    BY <1>0, <1>1, <2>3
  <2>5. IndexOf(st, yaml) = index
    BY <2>4 DEF IndexOf, index
  <2>6. id + 1 <= IndexMod - 2 => next = index + 1
    <3>1. ASSUME id + 1 <= IndexMod - 2 PROVE (index + 1) % IndexMod = index + 1
      <4>1. index + 1 \in Nat /\ index + 1 < IndexMod
        BY <1>0, <2>4, <3>1
      <4> QED
        BY <1>0, <4>1
    <3> QED
      BY <2>2, <2>5, <3>1 DEF NextIndex
  <2>7. \A i \in DOMAIN endpoints :
            \/ i = id /\ endpoints[i][2] = index
            \/ i \in DOMAIN old /\ endpoints[i] = old[i] /\ old[i][2] < index
    BY <2>2, <2>4, <2>5
  <2>8. \A i, j \in DOMAIN endpoints : endpoints[i] = endpoints[j] => i = j
    BY <1>0, <2>4, <2>7
  <2>9. \A i \in DOMAIN endpoints : endpoints[i][2] >= 2
    BY <2>4, <2>7
  <2>10. id + 1 <= IndexMod - 2 => \A i \in DOMAIN endpoints : endpoints[i][2] < next
    BY <1>0, <2>4, <2>6, <2>7
  <2> QED
    BY <1>0, <2>2, <2>4, <2>6, <2>8, <2>9, <2>10
<1>3. CASE yaml \notin service.Networks
  <2>1. n \notin DOMAIN addresses
    BY <1>0, <1>3 DEF Own
  <2>2. /\ endpoints = old
        /\ yaml \in DOMAIN st.networkIndices =>
              yaml \in DOMAIN new.networkIndices /\ next = index
    BY <1>0, <1>3, <2>1 DEF ServiceMade
  <2> HIDE DEF old, index, endpoints, next
  <2>3. /\ id + 1 <= IndexMod - 2 =>
              /\ yaml \in DOMAIN new.networkIndices
              /\ 2 <= next /\ next <= id + 2
              /\ \A i \in DOMAIN endpoints : endpoints[i][2] < next
        /\ id + 1 <= IndexMod - 1 =>
              /\ \A i, j \in DOMAIN endpoints : endpoints[i] = endpoints[j] => i = j
              /\ \A i \in DOMAIN endpoints : endpoints[i][2] >= 2
    <3>1. /\ id + 1 <= IndexMod - 2 => id <= IndexMod - 2
          /\ id + 1 <= IndexMod - 1 => id <= IndexMod - 1
          /\ index \in Nat /\ index <= id + 1 => index <= id + 2
      BY <1>0
    <3> QED
      BY <1>0, <1>1, <2>2, <3>1
  <2> QED
    BY <2>3 DEF old, index, endpoints, next
<1> QED
  BY <1>2, <1>3

LEMMA ServiceIsSound ==
    ASSUME NEW st, NEW id \in IDs, Sound(st, id), NEW p \in Projects,
           NEW service \in p.Services,
           \A y \in service.Networks : p.Networks[y].Name \in DOMAIN st.networks
    PROVE  Sound(generateService(st, p, service, id), id + 1)
<1> DEFINE new == generateService(st, p, service, id)
           addresses == NewAddresses(st, p, service)
<1>1. /\ IsMap(addresses, Networks, Addresses)
      /\ \A n \in DOMAIN addresses : n \in DOMAIN st.networks
      /\ \A n \in DOMAIN addresses : \E y \in service.Networks :
            /\ y \in DOMAIN p.Networks /\ p.Networks[y].Name = n
            /\ addresses[n] = <<st.usedSubnets[n], IndexOf(st, y)>>
      /\ \A y \in service.Networks :
            /\ p.Networks[y].Name \in DOMAIN addresses
            /\ addresses[p.Networks[y].Name]
                  = <<st.usedSubnets[p.Networks[y].Name], IndexOf(st, y)>>
  BY AddressFacts DEF Sound
<1>2. Good(new) /\ ServiceMade(st, new, p, service, id, addresses)
  BY ServiceIsGood, ServiceFields DEF Sound
<1> HIDE DEF new, addresses
<1>3. \A n \in DOMAIN addresses : addresses[n][1] = st.usedSubnets[n]
  BY <1>1
<1>4. \A y \in service.Networks :
          /\ p.Networks[y].Name \in DOMAIN addresses
          /\ addresses[p.Networks[y].Name][2] = IndexOf(st, y)
  BY <1>1
<1>5. Typed(new)
  BY <1>1, <1>2, ServiceTyped DEF Sound
<1>6. Wired(new) /\ Fresh(new, id + 1)
  BY <1>1, <1>2, <1>3, ServiceWired
<1>7. \A n \in DOMAIN addresses : \E y \in service.Networks :
          y \in DOMAIN p.Networks /\ p.Networks[y].Name = n
  BY <1>1
<1>8. Indexed(new, id + 1)
  BY <1>2, <1>4, <1>7, ServiceIndexed DEF Sound
<1> QED
  BY <1>2, <1>5, <1>6, <1>8 DEF Sound, new

-----------------------------------------------------------------------------
(* The steps *)

\* What the invariant says of all states but their progress.
AllSound == \A st \in Current : Sound(st, nextID)

LEMMA SoundStep ==
    ASSUME SInv, nextID' \in Nat, nextID <= nextID', Sound(state', nextID'),
           snapshots' = snapshots
    PROVE  AllSound'
<1>1. nextID \in Nat
  BY DEF SInv, Bounds
<1>2. ASSUME NEW st \in Values(snapshots) PROVE Sound(st, nextID')
  BY <1>1, <1>2, OldIsSound DEF SInv, Current
<1> QED
  BY <1>2 DEF AllSound, Current, Values

\* A step after which no command runs, and Up has not just returned.
LEMMA QuietStep ==
    ASSUME SInv, AllSound', nextID' \in 1 .. MaxIDs + 1,
           DOMAIN snapshots' \subseteq Names, pc' = "idle",
           project' = NoProject, panicked' \in BOOLEAN,
           last' = <<>> \/ last'[1] # "Up"
    PROVE  SInv'
BY DEF SInv, AllSound, Bounds, UpSoFar, Running, UpProvides

\* A step of a command that goes on.
LEMMA CommandStep ==
    ASSUME SInv, AllSound', nextID' \in 1 .. MaxIDs + 1,
           pc # "idle", pc' # "idle",
           pc' \in {"idle", "networks", "services", "stop", "containers",
                    "volumes", "remove"},
           UNCHANGED <<snapshots, project, last, panicked>>, UpSoFar'
    PROVE  SInv'
BY DEF SInv, AllSound, Bounds, Running, UpProvides

\* A turn of a loop that is not one of Up's.
LEMMA TurnStep ==
    ASSUME SInv, NEW at \in {"stop", "containers", "volumes", "remove"},
           NEW item, NEW st, Sound(st, nextID), Turn(at, item, st),
           nextID' = nextID
    PROVE  SInv'
<1>1. nextID \in 1 .. MaxIDs + 1 /\ nextID \in Nat /\ nextID <= nextID'
  BY DEF SInv, Bounds
<1>2. AllSound'
  BY <1>1, SoundStep DEF Turn
<1>3. UpSoFar'
  BY DEF Turn, UpSoFar
<1> QED
  BY <1>1, <1>2, <1>3, CommandStep DEF Turn

LEMMA InitSInv == Init => SInv
<1> SUFFICES ASSUME Init PROVE SInv
  OBVIOUS
<1>1. \A st \in Current : Sound(st, nextID)
  BY NewIsSound DEF Init, Current, Values, NewMap
<1>2. Bounds
  <2>1. 1 \in 1 .. MaxIDs + 1
    BY SubnetAssumption
  <2> QED
    BY <2>1 DEF Init, Bounds, NewMap
<1> QED
  BY <1>1, <1>2 DEF Init, SInv, UpSoFar, Running, UpProvides

LEMMA PanicSInv ==
    ASSUME SInv, Panic
    PROVE  SInv'
<1>1. AllSound'
  BY NewIsSound DEF Panic, AllSound, Current, Values, NewMap
<1>2. 1 \in 1 .. MaxIDs + 1
  BY SubnetAssumption
<1> QED
  BY <1>1, <1>2, QuietStep DEF Panic, NewMap, command, SInv, Bounds

LEMMA ClientSInv ==
    ASSUME SInv, ClientStep
    PROVE  SInv'
<1>1. /\ Sound(state, nextID) /\ nextID \in 1 .. MaxIDs + 1 /\ nextID \in Nat
      /\ Fields(state) /\ Typed(state)
      /\ DOMAIN snapshots \subseteq Names /\ panicked \in BOOLEAN
      /\ pc = "idle" => project = NoProject
  BY DEF SInv, Bounds, Current, Sound, Good, Shape
<1>2. ASSUME NEW st, Sound(st, nextID), Call(st) PROVE SInv'
  <2>1. AllSound'
    BY <1>1, <1>2, SoundStep DEF Call
  <2> QED
    BY <1>1, <1>2, <2>1, QuietStep DEF Call, command
<1>3. ASSUME NEW c \in DOMAIN state.containers, ContainerStart(c) PROVE SInv'
  BY <1>1, <1>2, <1>3, SetRunningIsSound DEF ContainerStart
<1>4. ASSUME NEW c \in DOMAIN state.containers, ContainerStop(c) PROVE SInv'
  BY <1>1, <1>2, <1>4, SetRunningIsSound DEF ContainerStop
<1>5. ASSUME NEW c \in DOMAIN state.containers, ContainerRemove(c) PROVE SInv'
  BY <1>1, <1>2, <1>5, WithoutContainerIsSound DEF ContainerRemove
<1>6. ASSUME NEW n \in DOMAIN state.networks, NetworkRemove(n) PROVE SInv'
  BY <1>1, <1>2, <1>6, WithoutNetworkIsSound DEF NetworkRemove
<1>7. ASSUME NEW v \in DOMAIN state.volumes, VolumeRemove(v) PROVE SInv'
  <2>1. [state EXCEPT !.volumes = Delete(@, v)]
          = [state EXCEPT !.volumes = Delete(state.volumes, v)]
    BY <1>1 DEF Fields
  <2>2. IsMap(Delete(state.volumes, v), VolumeNames, [UsageData : BOOLEAN])
    BY <1>1, TypedParts, MapFacts
  <2>3. Sound([state EXCEPT !.volumes = Delete(@, v)], nextID)
    BY <1>1, <2>1, <2>2, VolumesIsSound
  <2> QED
    BY <1>2, <1>7, <2>3 DEF VolumeRemove
<1>8. ASSUME NEW v \in AddedVolumes, Mock_AddVolume(v) PROVE SInv'
  <2> DEFINE data == [UsageData |-> TRUE]
             new == Put(state.volumes, v, data)
  <2>1. [state EXCEPT !.volumes = Put(@, v, [UsageData |-> TRUE])]
          = [state EXCEPT !.volumes = new]
    BY <1>1 DEF Fields
  <2>2. v \in VolumeNames /\ data \in [UsageData : BOOLEAN]
    <3>1. v \in VolumeNames
      BY DEF VolumeNames
    <3>2. TRUE \in BOOLEAN
      OBVIOUS
    <3>3. data \in [UsageData : BOOLEAN]
      BY <3>2
    <3> QED
      BY <3>1, <3>3
  <2> HIDE DEF data
  <2>3. IsMap(new, VolumeNames, [UsageData : BOOLEAN])
    BY <1>1, <2>2, TypedParts, MapFacts
  <2>4. Sound([state EXCEPT !.volumes = Put(@, v, [UsageData |-> TRUE])], nextID)
    BY <1>1, <2>1, <2>3, VolumesIsSound
  <2> QED
    BY <1>2, <1>8, <2>4 DEF Mock_AddVolume
<1>9. ASSUME NEW c \in AddedContainers, Mock_AddContainer(c) PROVE SInv'
  <2> DEFINE container == [ID |-> nextID, Running |-> FALSE,
                           Bare |-> TRUE, Networks |-> NewMap]
             new == Put(state.containers, c, container)
  <2>1. state' = [state EXCEPT !.containers = new]
    BY <1>1, <1>9 DEF Fields, Mock_AddContainer
  <2>2. c \in ContainerNames /\ nextID \in IDs
    BY <1>1, <1>9 DEF ContainerNames, IDs, Mock_AddContainer
  <2>3. Sound(state', nextID + 1)
    BY <1>1, <2>1, <2>2, AddIsSound
  <2>4. nextID' = nextID + 1 /\ nextID' \in 1 .. MaxIDs + 1 /\ nextID' \in Nat
        /\ nextID <= nextID'
    BY <1>1, <1>9, SubnetAssumption DEF Mock_AddContainer
  <2>5. AllSound'
    BY <1>9, <2>3, <2>4, SoundStep DEF Mock_AddContainer
  <2> QED
    BY <1>1, <1>9, <2>4, <2>5, QuietStep DEF Mock_AddContainer, command
<1>10. CASE Panic
  BY <1>10, PanicSInv
<1> QED
  BY <1>3, <1>4, <1>5, <1>6, <1>7, <1>8, <1>9, <1>10
     DEF ClientStep, Mock_SetContainerDiskUsage, Mock_SetVolumeDiskUsage,
         ContainerList, DiskUsage

LEMMA SnapshotSInv ==
    ASSUME SInv, SnapshotStep
    PROVE  SInv'
<1>1. PICK n \in Names : TakeSnapshot(n) \/ RevertToSnapshot(n)
  BY DEF SnapshotStep
<1>2. /\ Sound(state, nextID) /\ nextID \in 1 .. MaxIDs + 1 /\ nextID \in Nat
      /\ DOMAIN snapshots \subseteq Names /\ panicked \in BOOLEAN
      /\ pc = "idle" => project = NoProject
  BY DEF SInv, Bounds, Current
<1>3. CASE TakeSnapshot(n)
  <2>1. Sound(Clone(state), nextID)
    BY <1>2, CloneIsSound
  <2>2. Current' \subseteq Current \cup {Clone(state)}
    BY <1>3 DEF TakeSnapshot, Current, Values, Put
  <2>3. AllSound'
    BY <1>3, <2>1, <2>2 DEF SInv, AllSound, TakeSnapshot
  <2>4. DOMAIN snapshots' \subseteq Names
    BY <1>2, <1>3 DEF TakeSnapshot, Put
  <2> QED
    BY <1>2, <1>3, <2>3, <2>4, QuietStep DEF TakeSnapshot, command
<1>4. CASE RevertToSnapshot(n)
  <2>1. Sound(snapshots[n], nextID)
    BY <1>4 DEF SInv, Current, Values, RevertToSnapshot
  <2>2. Sound(state', nextID)
    BY <1>4, <2>1, CloneIsSound DEF RevertToSnapshot
  <2>3. AllSound'
    BY <1>2, <1>4, <2>2, SoundStep DEF RevertToSnapshot
  <2> QED
    BY <1>2, <1>4, <2>3, QuietStep DEF RevertToSnapshot, command
<1> QED
  BY <1>1, <1>3, <1>4

-----------------------------------------------------------------------------
(* Compose commands *)

LEMMA BeginSInv ==
    ASSUME SInv, NEW p \in Projects, Up(p) \/ Stop(p) \/ Down(p)
    PROVE  SInv'
<1>1. AllSound'
  <2>1. UNCHANGED <<state, snapshots, nextID>>
    BY DEF Up, Stop, Down, Begin
  <2> QED
    BY <2>1 DEF SInv, AllSound, Current, Values
<1>2. Bounds'
  BY DEF SInv, Bounds, Up, Stop, Down, Begin
<1>3. UpSoFar'
  BY DEF UpSoFar, Up, Stop, Down, Begin
<1> QED
  BY <1>1, <1>2, <1>3
     DEF SInv, AllSound, Running, UpProvides, Up, Stop, Down, Begin

\* A command ends, with the state as it is.
LEMMA ReturnSInv ==
    ASSUME SInv, NEW call, Return(call), call = <<>> \/ call[1] # "Up"
    PROVE  SInv'
<1>1. AllSound'
  <2>1. UNCHANGED <<state, snapshots, nextID>>
    BY DEF Return
  <2> QED
    BY <2>1 DEF SInv, AllSound, Current, Values
<1> QED
  BY <1>1, QuietStep DEF Return, SInv, Bounds

\* When the last loop of Up is over, it has done all it promises.
LEMMA UpReturnSInv ==
    ASSUME SInv, UpReturn
    PROVE  SInv'
<1>1. /\ UNCHANGED <<state, snapshots, nextID, panicked>>
      /\ pc' = "idle" /\ project' = NoProject /\ last' = <<"Up", project>>
      /\ pc = "services" /\ todo = {}
  BY DEF UpReturn, Return
<1>2. AllSound'
  BY <1>1 DEF SInv, AllSound, Current, Values
<1>3. UpProvides'
  BY <1>1 DEF SInv, UpSoFar, UpProvides, LooksForOwn
<1> QED
  BY <1>1, <1>2, <1>3 DEF SInv, AllSound, Bounds, UpSoFar, Running

LEMMA LeastYaml ==
    ASSUME NEW T \in SUBSET Nat, T # {}
    PROVE  \E n \in T : \A m \in T : n <= m
<1> DEFINE R == OpToRel(<, Nat)
<1>1. IsWellFoundedOn(R, Nat)
  BY NatLessThanWellFounded
<1>2. \A m, n \in Nat : m < n => <<m, n>> \in R
  BY DEF OpToRel
<1> HIDE DEF R
<1>3. PICK n \in T : \A m \in T : ~(<<m, n>> \in R)
  BY <1>1, WFMin, Zenon
<1>4. ASSUME NEW m \in T PROVE n <= m
  <2>1. m \in Nat /\ n \in Nat
    OBVIOUS
  <2>2. ~(m < n)
    BY <1>2, <1>3, <2>1, Zenon
  <2> QED
    BY <2>1, <2>2
<1> QED
  BY <1>4

\* There is always a network that is next: an external one with the least
\* YAML name, or the least of all when none is external.
LEMMA NextNetworkFacts ==
    ASSUME project \in Projects, todo \subseteq DOMAIN project.Networks,
           todo # {}
    PROVE  NextNetwork \in todo
<1> DEFINE External(x) == project.Networks[x].External
           first == {y \in todo : External(y)}
<1>1. todo \subseteq Nat /\ \A y \in todo : External(y) \in BOOLEAN
  BY ProjectAssumption
<1>2. \E y \in todo : \A z \in todo :
          \/ External(y) /\ ~External(z)
          \/ External(y) = External(z) /\ y <= z
  <2>1. CASE first # {}
    <3>1. first \in SUBSET Nat
      BY <1>1
    <3> HIDE DEF first
    <3>2. PICK y \in first : \A z \in first : y <= z
      BY <2>1, <3>1, LeastYaml
    <3> USE DEF first
    <3>3. y \in todo /\ External(y)
      OBVIOUS
    <3>4. \A z \in todo : \/ External(y) /\ ~External(z)
                          \/ External(y) = External(z) /\ y <= z
      BY <1>1, <3>2, <3>3
    <3> QED
      BY <3>3, <3>4
  <2>2. CASE first = {}
    <3>1. PICK y \in todo : \A z \in todo : y <= z
      BY <1>1, LeastYaml
    <3>2. \A z \in todo : ~External(z)
      BY <2>2
    <3>3. \A z \in todo : External(y) = External(z)
      BY <1>1, <3>2
    <3> QED
      BY <3>1, <3>3
  <2> QED
    BY <2>1, <2>2
<1> QED
  BY <1>2, Zenon DEF NextNetwork

LEMMA NetworkNames ==
    ASSUME NEW st, Good(st), NEW name, NEW yaml
    PROVE  DOMAIN generateNetwork(st, name, yaml).networks
              = DOMAIN st.networks \cup {name}
<1> DEFINE new == generateNetwork(st, name, yaml)
           networks == Put(st.networks, name,
                           [IPAM |-> Head(st.availableSubnets),
                            Containers |-> NewMap])
<1>1. new.networks = networks
  BY DEF generateNetwork, Good, Shape, Fields
<1>2. DOMAIN networks = DOMAIN st.networks \cup {name}
  BY DEF Put
<1> QED
  BY <1>1, <1>2

LEMMA UpNetworkSInv ==
    ASSUME SInv, UpNetwork
    PROVE  SInv'
<1> DEFINE yaml == NextNetwork
           name == project.Networks[yaml].Name
<1>1. /\ Sound(state, nextID) /\ Good(state)
      /\ nextID \in 1 .. MaxIDs + 1 /\ nextID \in Nat \ {0}
      /\ pc = "networks" /\ todo # {} /\ project \in Projects
      /\ todo \subseteq DOMAIN project.Networks
      /\ \A y \in DOMAIN project.Networks \ todo :
            project.Networks[y].Name \in DOMAIN state.networks
  BY DEF SInv, Current, Bounds, UpSoFar, UpNetwork, Sound
<1>2. yaml \in todo /\ yaml \in DOMAIN project.Networks
  BY <1>1, NextNetworkFacts
<1> HIDE DEF yaml
<1>3. CASE Fail
  BY <1>3, ReturnSInv DEF Fail
<1>4. ASSUME NEW st, Sound(st, nextID), Turn("networks", yaml, st),
             nextID' = nextID, DOMAIN st.networks = DOMAIN state.networks \cup {name}
      PROVE  SInv'
  <2>1. AllSound'
    BY <1>1, <1>4, SoundStep DEF Turn
  <2>2. UpSoFar'
    BY <1>1, <1>2, <1>4 DEF UpSoFar, Turn
  <2> QED
    BY <1>1, <1>4, <2>1, <2>2, CommandStep DEF Turn
<1>5. CASE /\ name \in DOMAIN state.networks
           /\ Turn("networks", yaml, state)
           /\ UNCHANGED nextID
  BY <1>1, <1>4, <1>5
<1>6. CASE /\ name \notin DOMAIN state.networks
           /\ state.availableSubnets # <<>>
           /\ Turn("networks", yaml, generateNetwork(state, name, yaml))
           /\ UNCHANGED nextID
  <2>1. Sound(generateNetwork(state, name, yaml), nextID)
    BY <1>1, <1>2, <1>6, NetworkIsSound
  <2>2. DOMAIN generateNetwork(state, name, yaml).networks
          = DOMAIN state.networks \cup {name}
    BY <1>1, NetworkNames
  <2> QED
    BY <1>4, <1>6, <2>1, <2>2
<1> QED
  BY <1>3, <1>5, <1>6 DEF UpNetwork, yaml

LEMMA UpVolumesSInv ==
    ASSUME SInv, UpVolumes
    PROVE  SInv'
<1> DEFINE new == [v \in DOMAIN state.volumes \cup project.Volumes |->
                      IF v \in DOMAIN state.volumes THEN state.volumes[v]
                      ELSE [UsageData |-> FALSE]]
<1>1. /\ Sound(state, nextID) /\ Fields(state) /\ Typed(state)
      /\ nextID \in 1 .. MaxIDs + 1 /\ nextID \in Nat
      /\ pc = "networks" /\ todo = {} /\ project \in Projects
      /\ \A y \in DOMAIN project.Networks :
            project.Networks[y].Name \in DOMAIN state.networks
  BY DEF SInv, Current, Bounds, UpSoFar, UpVolumes, Advance, Sound, Good, Shape
<1>2. /\ state' = [state EXCEPT !.volumes = new]
      /\ pc' = "services" /\ todo' = project.Services
      /\ UNCHANGED <<snapshots, nextID, project, last, panicked>>
  BY <1>1 DEF Fields, UpVolumes, Advance
<1>3. /\ DOMAIN new = DOMAIN state.volumes \cup project.Volumes
      /\ IsMap(new, VolumeNames, [UsageData : BOOLEAN])
  <2>1. IsMap(state.volumes, VolumeNames, [UsageData : BOOLEAN])
    BY <1>1, TypedParts
  <2>2. project.Volumes \subseteq VolumeNames
    BY <1>1 DEF VolumeNames
  <2> QED
    BY <2>1, <2>2 DEF IsMap
<1> HIDE DEF new
<1>4. Sound(state', nextID) /\ state'.volumes = new
      /\ state'.networks = state.networks
  BY <1>1, <1>2, <1>3, VolumesIsSound DEF Fields
<1>5. AllSound'
  BY <1>1, <1>2, <1>4, SoundStep
<1>6. UpSoFar'
  BY <1>1, <1>2, <1>3, <1>4 DEF UpSoFar
<1> QED
  BY <1>1, <1>2, <1>5, <1>6, CommandStep

\* A turn of Up's last loop: no container stops or goes, and that of the
\* service runs.
LEMMA UpServiceSInv ==
    ASSUME SInv, NEW service \in project.Services, UpService(service)
    PROVE  SInv'
<1>1. /\ Sound(state, nextID) /\ Good(state) /\ Typed(state)
      /\ nextID \in 1 .. MaxIDs + 1 /\ nextID \in Nat
      /\ pc = "services" /\ service \in todo /\ project \in Projects
      /\ \A y \in DOMAIN project.Networks :
            project.Networks[y].Name \in DOMAIN state.networks
      /\ project.Volumes \subseteq DOMAIN state.volumes
      /\ \A s \in project.Services \ todo : LooksForOwn(s) =>
            /\ s.ContainerName \in DOMAIN state.containers
            /\ state.containers[s.ContainerName].Running
  BY DEF SInv, Current, Bounds, UpSoFar, UpService, Sound
<1>2. ASSUME NEW st, Sound(st, nextID'), Turn("services", service, st),
             nextID' \in 1 .. MaxIDs + 1, nextID <= nextID',
             DOMAIN st.networks = DOMAIN state.networks,
             st.volumes = state.volumes,
             NEW c \in DOMAIN st.containers, st.containers[c].Running,
             DOMAIN state.containers \subseteq DOMAIN st.containers,
             \A d \in DOMAIN state.containers \ {c} :
                st.containers[d] = state.containers[d],
             \/ c = service.ContainerName
             \/ c = service.Name /\ c \in DOMAIN state.containers
      PROVE  SInv'
  <2>1. nextID' \in Nat
    BY <1>2
  <2>2. /\ state' = st /\ todo' = todo \ {service} /\ pc' = pc
        /\ UNCHANGED <<snapshots, project, last, panicked>>
    BY <1>2 DEF Turn
  <2>3. AllSound'
    BY <1>2, <2>1, <2>2, SoundStep
  <2>4. ASSUME NEW s \in project.Services \ (todo \ {service}),
               s.ContainerName = s.Name \/ s.Name \notin DOMAIN st.containers
        PROVE  /\ s.ContainerName \in DOMAIN st.containers
               /\ st.containers[s.ContainerName].Running
    <3>1. CASE s = service
      BY <1>2, <2>4, <3>1
    <3>2. CASE s # service
      <4>1. LooksForOwn(s)
        BY <1>2, <2>4 DEF LooksForOwn
      <4>2. /\ s.ContainerName \in DOMAIN state.containers
            /\ state.containers[s.ContainerName].Running
        BY <1>1, <3>2, <4>1
      <4> QED
        BY <1>2, <4>2
    <3> QED
      BY <3>1, <3>2
  <2>5. UpSoFar'
    BY <1>1, <1>2, <2>2, <2>4 DEF UpSoFar, LooksForOwn
  <2> QED
    BY <1>1, <1>2, <2>2, <2>3, <2>5, CommandStep
<1>3. CASE Fail
  BY <1>3, ReturnSInv DEF Fail
<1>4. CASE /\ service.Name \in DOMAIN state.containers
           /\ Turn("services", service, SetRunning(state, service.Name, TRUE))
           /\ UNCHANGED nextID
  <2> DEFINE st == SetRunning(state, service.Name, TRUE)
  <2>1. Sound(st, nextID)
    BY <1>1, <1>4, SetRunningIsSound
  <2>2. /\ st.networks = state.networks /\ st.volumes = state.volumes
        /\ DOMAIN st.containers = DOMAIN state.containers
        /\ st.containers[service.Name].Running
        /\ \A d \in DOMAIN state.containers :
              d # service.Name => st.containers[d] = state.containers[d]
    BY <1>1, <1>4, SetRunningFields
  <2>3. Turn("services", service, st) /\ nextID' = nextID
    BY <1>4
  <2> HIDE DEF st
  <2> QED
    BY <1>1, <1>2, <1>4, <2>1, <2>2, <2>3
<1>5. CASE /\ nextID <= MaxIDs
           /\ Turn("services", service,
                   generateService(state, project, service, nextID))
           /\ nextID' = nextID + 1
  <2> DEFINE st == generateService(state, project, service, nextID)
             addresses == NewAddresses(state, project, service)
  <2>1. nextID \in IDs /\ nextID + 1 \in 1 .. MaxIDs + 1 /\ nextID <= nextID + 1
    BY <1>1, <1>5, SubnetAssumption DEF IDs
  <2>2. service.Networks \subseteq DOMAIN project.Networks
    BY <1>1, ProjectAssumption
  <2>3. Sound(st, nextID + 1)
    BY <1>1, <2>1, <2>2, ServiceIsSound
  <2>4. ServiceMade(state, st, project, service, nextID, addresses)
    BY <1>1, ServiceFields
  <2>5. Turn("services", service, st)
    BY <1>5
  <2> HIDE DEF st, addresses
  <2> DEFINE c == service.ContainerName
  <2>6. /\ DOMAIN st.networks = DOMAIN state.networks
        /\ st.volumes = state.volumes
        /\ DOMAIN st.containers = DOMAIN state.containers \cup {c}
        /\ st.containers[c].Running
        /\ \A d \in DOMAIN state.containers \ {c} :
              st.containers[d] = state.containers[d]
    BY <2>4 DEF ServiceMade, Put, NewContainer
  <2> QED
    BY <1>2, <1>5, <2>1, <2>3, <2>5, <2>6
<1> QED
  BY <1>3, <1>4, <1>5 DEF UpService

LEMMA DownSInv ==
    ASSUME SInv,
           \/ \E service \in project.Services :
                 StopService(service) \/ DownContainer(service)
           \/ \E v \in project.Volumes : DownVolume(v)
           \/ \E yaml \in DOMAIN project.Networks : DownNetwork(yaml)
    PROVE  SInv'
<1>1. Sound(state, nextID) /\ Fields(state) /\ Typed(state)
  BY DEF SInv, Current, Sound, Good, Shape
<1>2. ASSUME Fail PROVE SInv'
  BY <1>2, ReturnSInv DEF Fail
<1>3. ASSUME NEW service \in project.Services, StopService(service)
      PROVE  SInv'
  <2> DEFINE c == service.ContainerName
  <2>1. CASE /\ c \in DOMAIN state.containers
             /\ Turn("stop", service, SetRunning(state, c, FALSE))
             /\ UNCHANGED nextID
    <3>1. Sound(SetRunning(state, c, FALSE), nextID)
      BY <1>1, <2>1, SetRunningIsSound
    <3> QED
      BY <2>1, <3>1, TurnStep
  <2> QED
    BY <1>2, <1>3, <2>1 DEF StopService
<1>4. ASSUME NEW service \in project.Services, DownContainer(service)
      PROVE  SInv'
  <2> DEFINE c == service.ContainerName
  <2>1. CASE /\ c \in DOMAIN state.containers
             /\ Turn("containers", service, WithoutContainer(state, c))
             /\ UNCHANGED nextID
    <3>1. Sound(WithoutContainer(state, c), nextID)
      BY <1>1, <2>1, WithoutContainerIsSound
    <3> QED
      BY <2>1, <3>1, TurnStep
  <2> QED
    BY <1>2, <1>4, <2>1 DEF DownContainer
<1>5. ASSUME NEW v \in project.Volumes, DownVolume(v)
      PROVE  SInv'
  <2> DEFINE st == [state EXCEPT !.volumes = Delete(@, v)]
  <2>1. CASE Turn("volumes", v, st) /\ UNCHANGED nextID
    <3>1. st = [state EXCEPT !.volumes = Delete(state.volumes, v)]
      BY <1>1 DEF Fields
    <3>2. IsMap(Delete(state.volumes, v), VolumeNames, [UsageData : BOOLEAN])
      BY <1>1, TypedParts, MapFacts
    <3>3. Sound(st, nextID)
      BY <1>1, <3>1, <3>2, VolumesIsSound
    <3> HIDE DEF st
    <3> QED
      BY <2>1, <3>3, TurnStep
  <2> QED
    BY <1>2, <1>5, <2>1 DEF DownVolume
<1>6. ASSUME NEW yaml \in DOMAIN project.Networks, DownNetwork(yaml)
      PROVE  SInv'
  <2> DEFINE n == project.Networks[yaml].Name
  <2>1. CASE /\ n \in DOMAIN state.networks /\ ~InUse(state, n)
             /\ Turn("remove", yaml, WithoutNetwork(state, n))
             /\ UNCHANGED nextID
    <3>1. Sound(WithoutNetwork(state, n), nextID)
      BY <1>1, <2>1, WithoutNetworkIsSound
    <3> QED
      BY <2>1, <3>1, TurnStep
  <2> QED
    BY <1>2, <1>6, <2>1 DEF DownNetwork
<1> QED
  BY <1>3, <1>4, <1>5, <1>6

LEMMA ComposeSInv ==
    ASSUME SInv, ComposeStep
    PROVE  SInv'
<1>1. ASSUME NEW p \in Projects, Up(p) \/ Stop(p) \/ Down(p) PROVE SInv'
  BY <1>1, BeginSInv
<1>2. CASE StopReturn \/ DownReturn
  BY <1>2, ReturnSInv DEF StopReturn, DownReturn
<1>3. CASE DownContainersDone \/ DownVolumesDone
  <2>1. /\ UNCHANGED <<state, snapshots, nextID, project, last, panicked>>
        /\ pc # "idle" /\ pc' \in {"volumes", "remove"}
    BY <1>3 DEF DownContainersDone, DownVolumesDone, Advance
  <2>2. AllSound'
    BY <2>1 DEF SInv, AllSound, Current, Values
  <2> QED
    BY <2>1, <2>2, CommandStep DEF UpSoFar, SInv, Bounds
<1> QED
  BY <1>1, <1>2, <1>3, UpReturnSInv, UpNetworkSInv, UpVolumesSInv,
     UpServiceSInv, DownSInv
     DEF ComposeStep

LEMMA NextSInv == SInv /\ [Next]_vars => SInv'
<1> SUFFICES ASSUME SInv, [Next]_vars PROVE SInv'
  OBVIOUS
<1>1. CASE UNCHANGED vars
  BY <1>1 DEF vars, command, SInv, Current, Values, Bounds, UpSoFar, Running,
              UpProvides, LooksForOwn
<1> QED
  BY <1>1, ClientSInv, SnapshotSInv, ComposeSInv DEF Next

-----------------------------------------------------------------------------
(* The theorems *)

THEOREM StateInvariance == Spec => []SInv
BY InitSInv, NextSInv, PTL DEF Spec

\* The state and every snapshot of it keep the shape that the Go types and
\* the projects allow, with every index a byte (state.go, manager.go:10-55).
THEOREM TypeCorrect == Spec => []TypeOK
<1>1. SInv => TypeOK
  BY DEF SInv, Bounds, Sound, Typed, TypeOK
<1> QED
  BY <1>1, StateInvariance, PTL

\* A container and its networks know each other (generation.go, client.go):
\* replacing, stopping, removing and reverting never leave one on a network
\* that is gone, or whose endpoint belongs to another.
THEOREM ConnectedCorrect == Spec => []ContainersConnected
<1>1. SInv => ContainersConnected
  BY DEF SInv, Sound, Wired, ContainersConnected
<1> QED
  BY <1>1, StateInvariance, PTL

\* Two endpoints of a network whose YAML name is its own have different
\* addresses until the index wraps (generation.go), also after a revert to a
\* state of lower indices.
THEOREM AddressesCorrect == Spec => []AddressesDistinct
<1>1. SInv => AddressesDistinct
  <2> SUFFICES ASSUME SInv, NEW st \in Current, NEW n \in DOMAIN st.networks,
                      NEW yaml \in YamlNames, Own(n, yaml),
                      nextID <= IndexMod - 1
               PROVE  LET endpoints == st.networks[n].Containers IN
                      /\ \A i, j \in DOMAIN endpoints :
                            endpoints[i] = endpoints[j] => i = j
                      /\ \A i \in DOMAIN endpoints : endpoints[i][2] >= 2
    BY DEF AddressesDistinct, OwnYamlName, Own
  <2> QED
    BY DEF SInv, Sound, Indexed
<1> QED
  BY <1>1, StateInvariance, PTL

\* When Up returns nil (compose.go:19-92), everything of the project is there
\* and runs.
THEOREM UpCorrect == Spec => []UpProvides
<1>1. SInv => UpProvides
  BY DEF SInv
<1> QED
  BY <1>1, StateInvariance, PTL

=============================================================================

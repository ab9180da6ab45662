--------------------------- MODULE DockerMockProofs ---------------------------
(***************************************************************************)
(* Theorems about DockerMock, for every set of projects, every list of     *)
(* subnets and any snapshot names: the subnets are conserved, and the mock *)
(* implements SnapshotStore.                                               *)
(***************************************************************************)
EXTENDS DockerMock, TLAPS

\* The fields of the Go struct `state', and of a network.
Fields(st) ==
    st = [containers |-> st.containers, volumes |-> st.volumes,
          networks |-> st.networks,
          availableSubnets |-> st.availableSubnets,
          usedSubnets |-> st.usedSubnets,
          networkIndices |-> st.networkIndices,
          serviceHashes |-> st.serviceHashes]

IsNetwork(net) ==
    net = [IPAM |-> net.IPAM, Containers |-> net.Containers]

Shape(st) ==
    /\ Fields(st)
    /\ st.availableSubnets \in Seq(Nat)
    /\ \A n \in DOMAIN st.networks : IsNetwork(st.networks[n])

Good(st) == Shape(st) /\ Conserved(st)

IInv == \A st \in Current : Good(st)

-----------------------------------------------------------------------------
(* Sequences and maps *)

\* The first subnet goes: the others keep their order and stay distinct.
LEMMA TailElements ==
    ASSUME NEW s \in Seq(Nat), s # <<>>,
           \A i, j \in 1 .. Len(s) : s[i] = s[j] => i = j
    PROVE  /\ Tail(s) \in Seq(Nat)
           /\ \A i, j \in 1 .. Len(Tail(s)) : Tail(s)[i] = Tail(s)[j] => i = j
           /\ Head(s) \in Elements(s)
           /\ Elements(Tail(s)) = Elements(s) \ {Head(s)}
<1>1. /\ Tail(s) \in Seq(Nat) /\ Len(s) \in Nat /\ Len(s) > 0
      /\ Len(Tail(s)) = Len(s) - 1 /\ Head(s) = s[1]
      /\ \A i \in 1 .. Len(Tail(s)) : Tail(s)[i] = s[i + 1]
  OBVIOUS
<1>2. \A i, j \in 1 .. Len(Tail(s)) : Tail(s)[i] = Tail(s)[j] => i = j
  <2> TAKE i, j \in 1 .. Len(Tail(s))
  <2>1. i + 1 \in 1 .. Len(s) /\ j + 1 \in 1 .. Len(s)
    BY <1>1
  <2>2. Tail(s)[i] = s[i + 1] /\ Tail(s)[j] = s[j + 1]
    BY <1>1
  <2> QED
    BY <2>1, <2>2
<1>3. Head(s) \in Elements(s)
  BY <1>1 DEF Elements
<1>4. Elements(Tail(s)) \subseteq Elements(s) \ {Head(s)}
  <2> SUFFICES ASSUME NEW i \in 1 .. Len(Tail(s))
               PROVE  Tail(s)[i] \in Elements(s) \ {Head(s)}
    BY DEF Elements
  <2>1. i + 1 \in 1 .. Len(s) /\ 1 \in 1 .. Len(s) /\ i + 1 # 1
    BY <1>1
  <2>2. Tail(s)[i] = s[i + 1] /\ s[i + 1] # s[1]
    BY <1>1, <2>1
  <2> QED
    BY <1>1, <2>1, <2>2 DEF Elements
<1>5. Elements(s) \ {Head(s)} \subseteq Elements(Tail(s))
  <2> SUFFICES ASSUME NEW i \in 1 .. Len(s), s[i] # Head(s)
               PROVE  s[i] \in Elements(Tail(s))
    BY DEF Elements
  <2>1. i # 1 /\ i - 1 \in 1 .. Len(Tail(s))
    BY <1>1
  <2>2. Tail(s)[i - 1] = s[i]
    BY <1>1, <2>1
  <2> QED
    BY <2>1, <2>2 DEF Elements
<1> QED
  BY <1>1, <1>2, <1>3, <1>4, <1>5

\* A subnet comes back at the end, where it is the only one of its value.
LEMMA AppendElements ==
    ASSUME NEW s \in Seq(Nat), NEW x \in Nat, x \notin Elements(s),
           \A i, j \in 1 .. Len(s) : s[i] = s[j] => i = j
    PROVE  LET t == Append(s, x)
           IN  /\ t \in Seq(Nat)
               /\ \A i, j \in 1 .. Len(t) : t[i] = t[j] => i = j
               /\ Elements(t) = Elements(s) \cup {x}
<1> DEFINE t == Append(s, x)
<1>1. /\ t \in Seq(Nat) /\ Len(s) \in Nat /\ Len(t) = Len(s) + 1
      /\ \A i \in 1 .. Len(s) : t[i] = s[i]
      /\ t[Len(s) + 1] = x
  OBVIOUS
<1> HIDE DEF t
<1>2. \A i \in 1 .. Len(s) : s[i] # x
  BY DEF Elements
<1>3. \A i, j \in 1 .. Len(t) : t[i] = t[j] => i = j
  <2> TAKE i, j \in 1 .. Len(t)
  <2> HAVE t[i] = t[j]
  <2>1. /\ i \in 1 .. Len(s) \/ i = Len(s) + 1
        /\ j \in 1 .. Len(s) \/ j = Len(s) + 1
    BY <1>1
  <2>2. CASE i \in 1 .. Len(s) /\ j \in 1 .. Len(s)
    BY <1>1, <2>2
  <2>3. CASE i = Len(s) + 1 /\ j \in 1 .. Len(s)
    BY <1>1, <1>2, <2>3
  <2>4. CASE j = Len(s) + 1 /\ i \in 1 .. Len(s)
    BY <1>1, <1>2, <2>4
  <2> QED
    BY <2>1, <2>2, <2>3, <2>4
<1>4. Elements(t) = Elements(s) \cup {x}
  <2>1. ASSUME NEW i \in 1 .. Len(t) PROVE t[i] \in Elements(s) \cup {x}
    <3>1. i \in 1 .. Len(s) \/ i = Len(s) + 1
      BY <1>1
    <3> QED
      BY <1>1, <3>1 DEF Elements
  <2>2. ASSUME NEW i \in 1 .. Len(s) PROVE s[i] \in Elements(t)
    <3>1. i \in 1 .. Len(t) /\ t[i] = s[i]
      BY <1>1
    <3> QED
      BY <3>1 DEF Elements
  <2>3. x \in Elements(t)
    <3>1. Len(s) + 1 \in 1 .. Len(t)
      BY <1>1
    <3> QED
      BY <1>1, <3>1 DEF Elements
  <2>4. Elements(t) \subseteq Elements(s) \cup {x}
    BY <2>1 DEF Elements
  <2>5. Elements(s) \subseteq Elements(t)
    BY <2>2 DEF Elements
  <2> QED
    BY <2>3, <2>4, <2>5
<1> QED
  BY <1>1, <1>3, <1>4 DEF t

\* What a map holds after a deletion, when no two keys have one value.
LEMMA DeleteValues ==
    ASSUME NEW m, NEW k, k \in DOMAIN m,
           \A x, y \in DOMAIN m : m[x] = m[y] => x = y
    PROVE  /\ DOMAIN Delete(m, k) = DOMAIN m \ {k}
           /\ \A x \in DOMAIN m \ {k} : Delete(m, k)[x] = m[x]
           /\ Values(Delete(m, k)) = Values(m) \ {m[k]}
<1>1. /\ DOMAIN Delete(m, k) = DOMAIN m \ {k}
      /\ \A x \in DOMAIN m \ {k} : Delete(m, k)[x] = m[x]
  BY DEF Delete
<1> QED
  BY <1>1 DEF Values

-----------------------------------------------------------------------------
(* The functions of the state *)

\* A change of its endpoints leaves a network its subnet.
LEMMA EndpointsKeepSubnet ==
    ASSUME NEW net, IsNetwork(net), NEW id, NEW address
    PROVE  /\ IsNetwork(Connected(net, id, address))
           /\ Connected(net, id, address).IPAM = net.IPAM
           /\ IsNetwork(Disconnected(net, id))
           /\ Disconnected(net, id).IPAM = net.IPAM
<1> DEFINE ipam == net.IPAM
           old == net.Containers
           more == Put(old, id, address)
           less == Delete(old, id)
<1>1. net = [IPAM |-> ipam, Containers |-> old]
  BY DEF IsNetwork
<1>2. Connected(net, id, address) = [net EXCEPT !.Containers = more]
  BY DEF Connected
<1>3. Disconnected(net, id) = [net EXCEPT !.Containers = less]
  BY DEF Disconnected
<1> HIDE DEF old, more, less
<1>4. Connected(net, id, address) = [IPAM |-> ipam, Containers |-> more]
  BY <1>1, <1>2
<1>5. Disconnected(net, id) = [IPAM |-> ipam, Containers |-> less]
  BY <1>1, <1>3
<1> QED
  BY <1>4, <1>5 DEF IsNetwork

\* Nothing happened to the subnets.
SameSubnets(st, new) ==
    /\ new.availableSubnets = st.availableSubnets
    /\ new.usedSubnets = st.usedSubnets
    /\ DOMAIN new.networks = DOMAIN st.networks
    /\ \A n \in DOMAIN st.networks : new.networks[n].IPAM = st.networks[n].IPAM

LEMMA SameIsGood ==
    ASSUME NEW st, NEW new, Good(st), Shape(new), SameSubnets(st, new)
    PROVE  Good(new)
BY DEF Good, Conserved, SameSubnets

\* Subnets are distinct, so the first state has every one of them, once.
LEMMA NewIsGood == Good(newState)
<1>1. newState.availableSubnets = Subnets /\ DOMAIN newState.networks = {}
      /\ DOMAIN newState.usedSubnets = {}
  BY DEF newState, NewMap
<1>2. Shape(newState)
  BY <1>1, SubnetAssumption DEF Shape, Fields, newState, NewMap
<1>3. Values(newState.usedSubnets) = {}
  BY <1>1 DEF Values
<1>4. Conserved(newState)
  BY <1>1, <1>3, SubnetAssumption DEF Conserved
<1> QED
  BY <1>2, <1>4 DEF Good

LEMMA CloneIsGood ==
    ASSUME NEW st, Good(st)
    PROVE  Good(Clone(st))
<1> DEFINE new == Clone(st)
<1>1. Shape(new) /\ SameSubnets(st, new)
  BY DEF Good, Shape, Fields, IsNetwork, SameSubnets, Clone
<1> QED
  BY <1>1, SameIsGood DEF new

\* An existing container changes, or a volume.
LEMMA OtherIsGood ==
    ASSUME NEW st, Good(st), NEW c, NEW v
    PROVE  /\ Good([st EXCEPT !.containers = c])
           /\ Good([st EXCEPT !.volumes = v])
<1>1. ASSUME NEW new, \/ new = [st EXCEPT !.containers = c]
                      \/ new = [st EXCEPT !.volumes = v]
      PROVE  Good(new)
  <2>1. Shape(new) /\ SameSubnets(st, new)
    BY <1>1 DEF Good, Shape, Fields, SameSubnets
  <2> QED
    BY <2>1, SameIsGood
<1> QED
  BY <1>1

LEMMA SetRunningIsGood ==
    ASSUME NEW st, Good(st), NEW c, NEW running
    PROVE  Good(SetRunning(st, c, running))
<1> DEFINE new == SetRunning(st, c, running)
           containers == [st.containers EXCEPT ![c].Running = running]
<1>1. new = [st EXCEPT !.containers = containers]
  BY Zenon DEF SetRunning
<1> HIDE DEF new, containers
<1>2. Shape(new) /\ SameSubnets(st, new)
  BY <1>1 DEF Good, Shape, Fields, SameSubnets
<1> QED
  BY <1>2, SameIsGood DEF new

\* A container leaves its networks; the networks stay.
LEMMA WithoutContainerIsGood ==
    ASSUME NEW st, Good(st), NEW c
    PROVE  Good(WithoutContainer(st, c))
<1> DEFINE new == WithoutContainer(st, c)
           container == st.containers[c]
           containers == Delete(st.containers, c)
           networks == [n \in DOMAIN st.networks |->
                           IF n \in DOMAIN container.Networks
                           THEN Disconnected(st.networks[n], container.ID)
                           ELSE st.networks[n]]
<1>1. new = [st EXCEPT !.containers = containers, !.networks = networks]
  BY DEF WithoutContainer
<1> HIDE DEF new, container, containers
<1>2. /\ DOMAIN networks = DOMAIN st.networks
      /\ \A n \in DOMAIN st.networks :
            IsNetwork(networks[n]) /\ networks[n].IPAM = st.networks[n].IPAM
  <2> SUFFICES ASSUME NEW n \in DOMAIN st.networks
               PROVE  /\ IsNetwork(networks[n])
                      /\ networks[n].IPAM = st.networks[n].IPAM
    OBVIOUS
  <2>1. IsNetwork(st.networks[n])
    BY DEF Good, Shape
  <2>2. \/ networks[n] = st.networks[n]
        \/ networks[n] = Disconnected(st.networks[n], container.ID)
    OBVIOUS
  <2> QED
    BY <2>1, <2>2, EndpointsKeepSubnet
<1> HIDE DEF networks
<1>3. Shape(new) /\ SameSubnets(st, new)
  <2>1. /\ Fields(new) /\ new.networks = networks
        /\ new.availableSubnets = st.availableSubnets
        /\ new.usedSubnets = st.usedSubnets
    BY <1>1 DEF Good, Shape, Fields
  <2> QED
    BY <1>2, <2>1 DEF Good, Shape, SameSubnets
<1> QED
  BY <1>3, SameIsGood DEF new

\* A new container enters its networks.
LEMMA ServiceIsGood ==
    ASSUME NEW st, Good(st), NEW p, NEW service, NEW id
    PROVE  Good(generateService(st, p, service, id))
<1> DEFINE new == generateService(st, p, service, id)
           addresses == NewAddresses(st, p, service)
           indices == [y \in DOMAIN st.networkIndices \cup service.Networks |->
                          IF y \in service.Networks
                          THEN NextIndex(IndexOf(st, y))
                          ELSE st.networkIndices[y]]
           containers == Put(st.containers, service.ContainerName,
                             NewContainer(id, addresses))
           networks == [n \in DOMAIN st.networks |->
                           IF n \in DOMAIN addresses
                           THEN Connected(st.networks[n], id, addresses[n])
                           ELSE st.networks[n]]
           hashes == Put(st.serviceHashes, service.Name, service)
<1>1. new = [st EXCEPT !.networkIndices = indices,
                       !.containers = containers,
                       !.networks = networks,
                       !.serviceHashes = hashes]
  BY DEF generateService
<1> HIDE DEF new, addresses, indices, containers, hashes
<1>2. /\ DOMAIN networks = DOMAIN st.networks
      /\ \A n \in DOMAIN st.networks :
            IsNetwork(networks[n]) /\ networks[n].IPAM = st.networks[n].IPAM
  <2> SUFFICES ASSUME NEW n \in DOMAIN st.networks
               PROVE  /\ IsNetwork(networks[n])
                      /\ networks[n].IPAM = st.networks[n].IPAM
    OBVIOUS
  <2>1. IsNetwork(st.networks[n])
    BY DEF Good, Shape
  <2>2. \/ networks[n] = st.networks[n]
        \/ networks[n] = Connected(st.networks[n], id, addresses[n])
    OBVIOUS
  <2> QED
    BY <2>1, <2>2, EndpointsKeepSubnet
<1> HIDE DEF networks
<1>3. Shape(new) /\ SameSubnets(st, new)
  <2>1. /\ Fields(new) /\ new.networks = networks
        /\ new.availableSubnets = st.availableSubnets
        /\ new.usedSubnets = st.usedSubnets
    BY <1>1 DEF Good, Shape, Fields
  <2> QED
    BY <1>2, <2>1 DEF Good, Shape, SameSubnets
<1> QED
  BY <1>3, SameIsGood DEF new

\* A new network takes the first subnet that is available.
LEMMA NetworkIsGood ==
    ASSUME NEW st, Good(st), NEW name, NEW yaml,
           name \notin DOMAIN st.networks, st.availableSubnets # <<>>
    PROVE  Good(generateNetwork(st, name, yaml))
<1> DEFINE new == generateNetwork(st, name, yaml)
           available == st.availableSubnets
           used == st.usedSubnets
           subnet == Head(available)
           network == [IPAM |-> subnet, Containers |-> NewMap]
           rest == Tail(available)
           used2 == Put(used, name, subnet)
           networks == Put(st.networks, name, network)
           indices == Put(st.networkIndices, yaml, 2)
<1>1. new = [st EXCEPT !.availableSubnets = rest, !.usedSubnets = used2,
                       !.networks = networks, !.networkIndices = indices]
  BY DEF generateNetwork
<1>2. /\ rest \in Seq(Nat)
      /\ \A i, j \in 1 .. Len(rest) : rest[i] = rest[j] => i = j
      /\ subnet \in Elements(available)
      /\ Elements(rest) = Elements(available) \ {subnet}
  BY TailElements DEF Good, Shape, Conserved
<1>3. /\ DOMAIN networks = DOMAIN st.networks \cup {name}
      /\ networks[name] = network
      /\ \A n \in DOMAIN st.networks : networks[n] = st.networks[n]
  BY DEF Put
<1>4. /\ DOMAIN used2 = DOMAIN used \cup {name}
      /\ used2[name] = subnet
      /\ \A n \in DOMAIN used : used2[n] = used[n]
      /\ Values(used2) = Values(used) \cup {subnet}
  <2>1. name \notin DOMAIN used
    BY DEF Good, Conserved
  <2>2. /\ DOMAIN used2 = DOMAIN used \cup {name}
        /\ used2[name] = subnet
        /\ \A n \in DOMAIN used : used2[n] = used[n]
    BY <2>1 DEF Put
  <2> HIDE DEF used2, subnet
  <2> QED
    BY <2>2 DEF Values
<1> HIDE DEF new, rest, used2, networks, indices
<1>5. /\ Fields(new) /\ new.networks = networks
      /\ new.availableSubnets = rest /\ new.usedSubnets = used2
  BY <1>1 DEF Good, Shape, Fields
<1>6. IsNetwork(network) /\ network.IPAM = subnet
  BY DEF IsNetwork
<1> HIDE DEF network, subnet
<1>7. Shape(new)
  BY <1>2, <1>3, <1>5, <1>6 DEF Good, Shape
<1>8. \A n \in DOMAIN used : used[n] # subnet
  BY <1>2 DEF Good, Conserved, Values
<1>9. /\ DOMAIN used2 = DOMAIN networks
      /\ \A n \in DOMAIN used2 : used2[n] = networks[n].IPAM
      /\ \A n, m \in DOMAIN used2 : used2[n] = used2[m] => n = m
  BY <1>3, <1>4, <1>6, <1>8 DEF Good, Conserved
<1>10. /\ Elements(rest) \cap Values(used2) = {}
       /\ Elements(rest) \cup Values(used2) = Elements(Subnets)
  BY <1>2, <1>4 DEF Good, Conserved
<1>11. Conserved(new)
  BY <1>2, <1>5, <1>9, <1>10 DEF Conserved
<1> QED
  BY <1>7, <1>11 DEF Good, new

\* A network gives its subnet back.
LEMMA WithoutNetworkIsGood ==
    ASSUME NEW st, Good(st), NEW n \in DOMAIN st.networks
    PROVE  Good(WithoutNetwork(st, n))
<1> DEFINE new == WithoutNetwork(st, n)
           available == st.availableSubnets
           used == st.usedSubnets
           more == Append(available, used[n])
           used2 == Delete(used, n)
           networks == Delete(st.networks, n)
<1>1. new = [st EXCEPT !.availableSubnets = more, !.networks = networks,
                       !.usedSubnets = used2]
  BY DEF WithoutNetwork
<1>2. n \in DOMAIN used /\ used[n] \in Values(used)
  BY DEF Good, Conserved, Values
<1>3. used[n] \in Nat /\ used[n] \notin Elements(available)
  <2>1. Elements(Subnets) \subseteq Nat
    BY SubnetAssumption DEF Elements
  <2> QED
    BY <1>2, <2>1 DEF Good, Conserved
<1>4. /\ more \in Seq(Nat)
      /\ \A i, j \in 1 .. Len(more) : more[i] = more[j] => i = j
      /\ Elements(more) = Elements(available) \cup {used[n]}
  BY <1>3, AppendElements DEF Good, Shape, Conserved
<1>5. /\ DOMAIN used2 = DOMAIN used \ {n}
      /\ \A m \in DOMAIN used \ {n} : used2[m] = used[m]
      /\ Values(used2) = Values(used) \ {used[n]}
  <2>1. \A x, y \in DOMAIN used : used[x] = used[y] => x = y
    BY DEF Good, Conserved
  <2> QED
    BY <1>2, <2>1, DeleteValues
<1>6. /\ DOMAIN networks = DOMAIN st.networks \ {n}
      /\ \A m \in DOMAIN st.networks \ {n} : networks[m] = st.networks[m]
  BY DEF Delete
<1> HIDE DEF new, more, used2, networks
<1>7. /\ Fields(new) /\ new.networks = networks
      /\ new.availableSubnets = more /\ new.usedSubnets = used2
  BY <1>1 DEF Good, Shape, Fields
<1>8. Shape(new)
  BY <1>4, <1>6, <1>7 DEF Good, Shape
<1>9. /\ DOMAIN used2 = DOMAIN networks
      /\ \A m \in DOMAIN used2 : used2[m] = networks[m].IPAM
      /\ \A m, k \in DOMAIN used2 : used2[m] = used2[k] => m = k
  BY <1>5, <1>6 DEF Good, Conserved
<1>10. /\ Elements(more) \cap Values(used2) = {}
       /\ Elements(more) \cup Values(used2) = Elements(Subnets)
  BY <1>2, <1>4, <1>5 DEF Good, Conserved
<1>11. Conserved(new)
  BY <1>4, <1>7, <1>9, <1>10 DEF Conserved
<1> QED
  BY <1>8, <1>11 DEF Good, new

-----------------------------------------------------------------------------
(* The steps *)

\* A step that leaves the snapshots alone keeps the invariant if the new
\* state is good.
LEMMA StateStep ==
    ASSUME IInv, Good(state'), snapshots' = snapshots
    PROVE  IInv'
BY DEF IInv, Current, Values

LEMMA InitGood == Init => IInv
<1> SUFFICES ASSUME Init PROVE IInv
  OBVIOUS
<1>1. Current = {newState}
  BY DEF Init, Current, Values, NewMap
<1> QED
  BY <1>1, NewIsGood DEF IInv

LEMMA PanicGood == IInv /\ Panic => IInv'
<1> SUFFICES ASSUME Panic PROVE IInv'
  OBVIOUS
<1>1. Current' = {newState}
  BY DEF Panic, Current, Values, NewMap
<1> QED
  BY <1>1, NewIsGood DEF IInv

\* The calls of the client and the admin functions.
LEMMA ClientGood == IInv /\ ClientStep => IInv'
<1> SUFFICES ASSUME IInv, ClientStep PROVE IInv'
  OBVIOUS
<1>1. Good(state)
  BY DEF IInv, Current
<1>2. ASSUME NEW st, Good(st), Call(st) PROVE IInv'
  BY <1>2, StateStep DEF Call
<1>3. ASSUME NEW c \in DOMAIN state.containers, ContainerStart(c) PROVE IInv'
  BY <1>1, <1>2, <1>3, SetRunningIsGood DEF ContainerStart
<1>4. ASSUME NEW c \in DOMAIN state.containers, ContainerStop(c) PROVE IInv'
  BY <1>1, <1>2, <1>4, SetRunningIsGood DEF ContainerStop
<1>5. ASSUME NEW c \in DOMAIN state.containers, ContainerRemove(c) PROVE IInv'
  BY <1>1, <1>2, <1>5, WithoutContainerIsGood DEF ContainerRemove
<1>6. ASSUME NEW n \in DOMAIN state.networks, NetworkRemove(n) PROVE IInv'
  BY <1>1, <1>2, <1>6, WithoutNetworkIsGood DEF NetworkRemove
<1>7. ASSUME NEW v \in DOMAIN state.volumes, VolumeRemove(v) PROVE IInv'
  <2>1. [state EXCEPT !.volumes = Delete(@, v)]
          = [state EXCEPT !.volumes = Delete(state.volumes, v)]
    BY <1>1 DEF Good, Shape, Fields
  <2>2. Good([state EXCEPT !.volumes = Delete(@, v)])
    BY <1>1, <2>1, OtherIsGood
  <2> QED
    BY <1>2, <1>7, <2>2 DEF VolumeRemove
<1>8. ASSUME NEW v \in AddedVolumes, Mock_AddVolume(v) PROVE IInv'
  <2> DEFINE new == Put(state.volumes, v, [UsageData |-> TRUE])
  <2>1. [state EXCEPT !.volumes = Put(@, v, [UsageData |-> TRUE])]
          = [state EXCEPT !.volumes = new]
    BY <1>1 DEF Good, Shape, Fields
  <2>2. Good([state EXCEPT !.volumes = Put(@, v, [UsageData |-> TRUE])])
    BY <1>1, <2>1, OtherIsGood
  <2> QED
    BY <1>2, <1>8, <2>2 DEF Mock_AddVolume
<1>9. ASSUME NEW c \in AddedContainers, Mock_AddContainer(c) PROVE IInv'
  <2> DEFINE new == Put(state.containers, c,
                        [ID |-> nextID, Running |-> FALSE,
                         Bare |-> TRUE, Networks |-> NewMap])
  <2>1. state' = [state EXCEPT !.containers = new]
    BY <1>1, <1>9 DEF Good, Shape, Fields, Mock_AddContainer
  <2>2. Good(state')
    BY <1>1, <2>1, OtherIsGood
  <2> QED
    BY <1>9, <2>2, StateStep DEF Mock_AddContainer
<1>10. CASE Panic
  BY <1>10, PanicGood
<1> QED
  BY <1>3, <1>4, <1>5, <1>6, <1>7, <1>8, <1>9, <1>10
     DEF ClientStep, Mock_SetContainerDiskUsage, Mock_SetVolumeDiskUsage,
         ContainerList, DiskUsage

LEMMA SnapshotGood == IInv /\ SnapshotStep => IInv'
<1> SUFFICES ASSUME IInv, NEW n \in Names,
                    TakeSnapshot(n) \/ RevertToSnapshot(n)
             PROVE  IInv'
  BY DEF SnapshotStep
<1>1. CASE TakeSnapshot(n)
  <2>1. Good(state) /\ Good(Clone(state))
    BY CloneIsGood DEF IInv, Current
  <2>2. state' = state /\ snapshots' = Put(snapshots, n, Clone(state))
    BY <1>1 DEF TakeSnapshot
  <2>3. Current' \subseteq Current \cup {Clone(state)}
    BY <2>2 DEF Current, Values, Put
  <2> QED
    BY <2>1, <2>3 DEF IInv
<1>2. CASE RevertToSnapshot(n)
  <2>1. Good(snapshots[n]) /\ state' = Clone(snapshots[n])
        /\ snapshots' = snapshots
    BY <1>2 DEF IInv, Current, Values, RevertToSnapshot
  <2>2. Good(state')
    BY <2>1, CloneIsGood
  <2> QED
    BY <2>1, <2>2, StateStep
<1> QED
  BY <1>1, <1>2

\* Up, network by network, volume by volume and service by service.
LEMMA UpGood ==
    ASSUME IInv,
           \/ UpNetwork \/ UpVolumes
           \/ \E service \in project.Services : UpService(service)
    PROVE  IInv'
<1>1. Good(state)
  BY DEF IInv, Current
<1>2. ASSUME UpNetwork PROVE Good(state') /\ snapshots' = snapshots
  <2> DEFINE yaml == NextNetwork
             name == project.Networks[yaml].Name
  <2>1. CASE /\ name \in DOMAIN state.networks
             /\ Turn("networks", yaml, state)
    BY <1>1, <2>1 DEF Turn
  <2>2. CASE /\ name \notin DOMAIN state.networks
             /\ state.availableSubnets # <<>>
             /\ Turn("networks", yaml, generateNetwork(state, name, yaml))
    BY <1>1, <2>2, NetworkIsGood DEF Turn
  <2>3. CASE Fail
    BY <1>1, <2>3 DEF Fail, Return
  <2> QED
    BY <1>2, <2>1, <2>2, <2>3 DEF UpNetwork
<1>3. ASSUME UpVolumes PROVE Good(state') /\ snapshots' = snapshots
  <2> DEFINE new == [v \in DOMAIN state.volumes \cup project.Volumes |->
                        IF v \in DOMAIN state.volumes THEN state.volumes[v]
                        ELSE [UsageData |-> FALSE]]
  <2>1. state' = [state EXCEPT !.volumes = new] /\ snapshots' = snapshots
    BY <1>1, <1>3 DEF Good, Shape, Fields, UpVolumes, Advance
  <2> HIDE DEF new
  <2> QED
    BY <1>1, <2>1, OtherIsGood
<1>4. ASSUME NEW service \in project.Services, UpService(service)
      PROVE  Good(state') /\ snapshots' = snapshots
  <2>1. CASE Turn("services", service, SetRunning(state, service.Name, TRUE))
    BY <1>1, <2>1, SetRunningIsGood DEF Turn
  <2>2. CASE Turn("services", service,
                  generateService(state, project, service, nextID))
    BY <1>1, <2>2, ServiceIsGood DEF Turn
  <2>3. CASE Fail
    BY <1>1, <2>3 DEF Fail, Return
  <2> QED
    BY <1>4, <2>1, <2>2, <2>3 DEF UpService
<1> QED
  BY <1>2, <1>3, <1>4, StateStep

\* Stop and Down, one container, volume and network after the other.
LEMMA DownGood ==
    ASSUME IInv,
           \/ \E service \in project.Services :
                 StopService(service) \/ DownContainer(service)
           \/ \E v \in project.Volumes : DownVolume(v)
           \/ \E yaml \in DOMAIN project.Networks : DownNetwork(yaml)
    PROVE  IInv'
<1>1. Good(state)
  BY DEF IInv, Current
<1>2. ASSUME Fail PROVE Good(state') /\ snapshots' = snapshots
  BY <1>1, <1>2 DEF Fail, Return
<1>3. ASSUME NEW service \in project.Services, StopService(service)
      PROVE  Good(state') /\ snapshots' = snapshots
  BY <1>1, <1>2, <1>3, SetRunningIsGood DEF StopService, Turn
<1>4. ASSUME NEW service \in project.Services, DownContainer(service)
      PROVE  Good(state') /\ snapshots' = snapshots
  BY <1>1, <1>2, <1>4, WithoutContainerIsGood DEF DownContainer, Turn
<1>5. ASSUME NEW v \in project.Volumes, DownVolume(v)
      PROVE  Good(state') /\ snapshots' = snapshots
  <2>1. [state EXCEPT !.volumes = Delete(@, v)]
          = [state EXCEPT !.volumes = Delete(state.volumes, v)]
    BY <1>1 DEF Good, Shape, Fields
  <2>2. Good([state EXCEPT !.volumes = Delete(@, v)])
    BY <1>1, <2>1, OtherIsGood
  <2> QED
    BY <1>2, <1>5, <2>2 DEF DownVolume, Turn
<1>6. ASSUME NEW yaml \in DOMAIN project.Networks, DownNetwork(yaml)
      PROVE  Good(state') /\ snapshots' = snapshots
  BY <1>1, <1>2, <1>6, WithoutNetworkIsGood DEF DownNetwork, Turn
<1> QED
  BY <1>3, <1>4, <1>5, <1>6, StateStep

\* The beginnings and ends of commands and loops change no state.
LEMMA ComposeGood == IInv /\ ComposeStep => IInv'
<1> SUFFICES ASSUME IInv, ComposeStep PROVE IInv'
  OBVIOUS
<1>1. Good(state)
  BY DEF IInv, Current
<1>2. ASSUME state' = state, snapshots' = snapshots PROVE IInv'
  BY <1>1, <1>2, StateStep
<1>3. ASSUME NEW p \in Projects, Up(p) \/ Stop(p) \/ Down(p) PROVE IInv'
  BY <1>2, <1>3 DEF Up, Stop, Down, Begin
<1>4. CASE UpReturn \/ StopReturn \/ DownReturn
  BY <1>2, <1>4 DEF UpReturn, StopReturn, DownReturn, Return
<1>5. CASE DownContainersDone \/ DownVolumesDone
  BY <1>2, <1>5 DEF DownContainersDone, DownVolumesDone, Advance
<1> QED
  BY <1>3, <1>4, <1>5, UpGood, DownGood DEF ComposeStep

LEMMA NextGood == IInv /\ [Next]_vars => IInv'
<1> SUFFICES ASSUME IInv, [Next]_vars PROVE IInv'
  OBVIOUS
<1>1. CASE UNCHANGED vars
  BY <1>1 DEF vars, IInv, Current, Values
<1> QED
  BY <1>1, ClientGood, SnapshotGood, ComposeGood DEF Next

\* However many projects come up and go down, whichever commands stop half
\* way, and whatever is reverted (compose.go, generation.go:39, client.go:161):
\* no subnet is lost, and none belongs to two networks.
THEOREM SubnetsStayConserved == Spec => []SubnetsConserved
<1>1. IInv => SubnetsConserved
  BY DEF IInv, Good, SubnetsConserved
<1> QED
  BY <1>1, InitGood, NextGood, PTL DEF Spec

-----------------------------------------------------------------------------
(* The mock implements SnapshotStore. *)

\* A snapshot holds no hashes, so that a revert, which clones it, brings back
\* exactly what is stored.
HashesForgotten ==
    \A n \in DOMAIN snapshots : snapshots[n].serviceHashes = NewMap

\* While a command runs, no call has just returned.
Running == pc # "idle" => last = <<>>

RInv == IInv /\ HashesForgotten /\ Running

SnapshotCalls == {"TakeSnapshot", "RevertToSnapshot"}

\* What a step is that neither takes nor reverts a snapshot.
Ordinary == /\ snapshots' = snapshots
            /\ last' # <<>> => last'[1] \notin SnapshotCalls
            /\ pc' # "idle" => last' = <<>>

LEMMA CloneOfSnapshot ==
    ASSUME NEW st, Fields(st)
    PROVE  /\ Clone(st).serviceHashes = NewMap
           /\ Kept(Clone(st)) = Clone(st)
           /\ st.serviceHashes = NewMap => Clone(st) = st
<1> DEFINE new == Clone(st)
<1>1. Fields(new) /\ new.serviceHashes = NewMap
  BY DEF Clone, Fields
<1>2. ASSUME NEW r, Fields(r), r.serviceHashes = NewMap
      PROVE  [r EXCEPT !.serviceHashes = NewMap] = r
  BY <1>2 DEF Fields
<1> HIDE DEF new
<1>3. Kept(new) = new
  BY <1>1, <1>2 DEF Kept
<1>4. st.serviceHashes = NewMap => Clone(st) = st
  BY <1>2 DEF Clone
<1> QED
  BY <1>1, <1>3, <1>4 DEF new

LEMMA OrdinaryRefines ==
    ASSUME RInv, Ordinary
    PROVE  HashesForgotten' /\ Running' /\ Store!Next
BY DEF RInv, HashesForgotten, Running, Ordinary, SnapshotCalls,
       Store!Next, Store!Change

\* The calls of the client are ordinary, and so is every step of a command,
\* since last is empty while it runs and names the command when it returns.
LEMMA ClientOrdinary == ClientStep => Ordinary \/ Panic
<1> SUFFICES ASSUME ClientStep PROVE Ordinary \/ Panic
  OBVIOUS
<1>1. ASSUME NEW st, Call(st) PROVE Ordinary
  BY <1>1 DEF Call, Ordinary, command
<1>2. ASSUME NEW c, \/ ContainerStart(c) \/ ContainerStop(c)
                    \/ ContainerRemove(c)
      PROVE  Ordinary
  BY <1>1, <1>2 DEF ContainerStart, ContainerStop, ContainerRemove
<1>3. ASSUME NEW n, NetworkRemove(n) PROVE Ordinary
  BY <1>1, <1>3 DEF NetworkRemove
<1>4. ASSUME NEW v, VolumeRemove(v) \/ Mock_AddVolume(v) PROVE Ordinary
  BY <1>1, <1>4 DEF VolumeRemove, Mock_AddVolume
<1>5. ASSUME NEW c, Mock_AddContainer(c) PROVE Ordinary
  BY <1>5 DEF Mock_AddContainer, Ordinary
<1> QED
  BY <1>2, <1>3, <1>4, <1>5
     DEF ClientStep, Mock_SetContainerDiskUsage, Mock_SetVolumeDiskUsage,
         ContainerList, DiskUsage

LEMMA ComposeOrdinary == RInv /\ ComposeStep => Ordinary
<1> SUFFICES ASSUME Running, ComposeStep PROVE Ordinary
  BY DEF RInv
<1>1. ASSUME NEW p, NEW first, NEW visit, Begin(p, first, visit)
      PROVE  Ordinary
  BY <1>1 DEF Begin, Ordinary
<1>2. ASSUME NEW at, NEW item, NEW st, at # "idle", Turn(at, item, st)
      PROVE  Ordinary
  BY <1>2 DEF Turn, Ordinary, Running
<1>3. ASSUME NEW at, NEW next, NEW visit, at # "idle", Advance(at, next, visit)
      PROVE  Ordinary
  BY <1>3 DEF Advance, Ordinary, Running
<1>4. ASSUME NEW call, Return(call), call # <<>> => call[1] \notin SnapshotCalls
      PROVE  Ordinary
  BY <1>4 DEF Return, Ordinary
<1>5. ASSUME Fail PROVE Ordinary
  BY <1>4, <1>5 DEF Fail
<1>6. ASSUME NEW p \in Projects, Up(p) \/ Stop(p) \/ Down(p) PROVE Ordinary
  BY <1>1, <1>6 DEF Up, Stop, Down
<1>7. CASE UpNetwork
  BY <1>2, <1>5, <1>7 DEF UpNetwork
<1>8. CASE UpVolumes \/ DownContainersDone \/ DownVolumesDone
  BY <1>3, <1>8 DEF UpVolumes, DownContainersDone, DownVolumesDone
<1>9. ASSUME NEW service \in project.Services,
             \/ UpService(service) \/ StopService(service)
             \/ DownContainer(service)
      PROVE  Ordinary
  BY <1>2, <1>5, <1>9 DEF UpService, StopService, DownContainer
<1>10. ASSUME NEW v \in project.Volumes, DownVolume(v) PROVE Ordinary
  BY <1>2, <1>5, <1>10 DEF DownVolume
<1>11. ASSUME NEW yaml \in DOMAIN project.Networks, DownNetwork(yaml)
       PROVE  Ordinary
  BY <1>2, <1>5, <1>11 DEF DownNetwork
<1>12. CASE UpReturn \/ StopReturn \/ DownReturn
  BY <1>4, <1>12 DEF UpReturn, StopReturn, DownReturn, SnapshotCalls
<1> QED
  BY <1>6, <1>7, <1>8, <1>9, <1>10, <1>11, <1>12 DEF ComposeStep

LEMMA PanicRefines ==
    ASSUME Panic
    PROVE  HashesForgotten' /\ Running' /\ Store!Next
BY DEF Panic, HashesForgotten, Running, NewMap, command, Store!Next,
       Store!Close

LEMMA TakeRefines ==
    ASSUME RInv, NEW n \in Names, TakeSnapshot(n)
    PROVE  HashesForgotten' /\ Running' /\ Store!Next
<1>1. /\ state' = state /\ snapshots' = Put(snapshots, n, Clone(state))
      /\ last' = <<"TakeSnapshot", n>> /\ pc' = "idle"
  BY DEF TakeSnapshot, command
<1>2. Clone(state).serviceHashes = NewMap
  BY CloneOfSnapshot DEF RInv, IInv, Current, Good, Shape
<1>3. HashesForgotten'
  BY <1>1, <1>2 DEF RInv, HashesForgotten, Put
<1>4. Store!TakeSnapshot(n)
  BY <1>1 DEF Store!TakeSnapshot, Put, Clone, Kept
<1> QED
  BY <1>1, <1>3, <1>4 DEF Running, Store!Next

LEMMA RevertRefines ==
    ASSUME RInv, NEW n \in Names, RevertToSnapshot(n)
    PROVE  HashesForgotten' /\ Running' /\ Store!Next
<1>1. /\ n \in DOMAIN snapshots /\ snapshots' = snapshots
      /\ state' = Clone(snapshots[n])
      /\ last' = <<"RevertToSnapshot", n>> /\ pc' = "idle"
  BY DEF RevertToSnapshot, command
<1>2. Fields(snapshots[n]) /\ snapshots[n].serviceHashes = NewMap
  BY <1>1 DEF RInv, IInv, Current, Values, Good, Shape, HashesForgotten
<1>3. Kept(state') = snapshots[n]
  BY <1>1, <1>2, CloneOfSnapshot
<1>4. Store!RevertToSnapshot(n)
  BY <1>1, <1>3 DEF Store!RevertToSnapshot, Kept
<1> QED
  BY <1>1, <1>4 DEF RInv, HashesForgotten, Running, Store!Next

LEMMA StepRefines == RInv /\ [Next]_vars => RInv' /\ [Store!Next]_Store!vars
<1> SUFFICES ASSUME RInv, [Next]_vars PROVE RInv' /\ [Store!Next]_Store!vars
  OBVIOUS
<1>1. IInv'
  BY NextGood DEF RInv
<1>2. CASE UNCHANGED vars
  BY <1>1, <1>2
     DEF vars, command, RInv, HashesForgotten, Running, Kept, Store!vars
<1>3. CASE Next
  <2>1. HashesForgotten' /\ Running' /\ Store!Next
    BY <1>3, OrdinaryRefines, ClientOrdinary, ComposeOrdinary, PanicRefines,
       TakeRefines, RevertRefines
       DEF Next, SnapshotStep
  <2> QED
    BY <1>1, <2>1 DEF RInv
<1> QED
  BY <1>2, <1>3

LEMMA InitRefines == Init => RInv /\ Store!Init
<1> SUFFICES ASSUME Init PROVE RInv /\ Store!Init
  OBVIOUS
<1>1. IInv
  BY InitGood
<1>2. HashesForgotten /\ Running /\ Store!Init
  BY DEF Init, HashesForgotten, Running, NewMap, Store!Init
<1> QED
  BY <1>1, <1>2 DEF RInv

\* For every set of projects and names, the mock's TakeSnapshot and
\* RevertToSnapshot (manager.go:28-55) are single steps of a snapshot store,
\* and nothing else touches a stored copy.
THEOREM MockIsStore == Spec => IsStore
BY InitRefines, StepRefines, PTL DEF Spec, IsStore, Store!Spec

=============================================================================

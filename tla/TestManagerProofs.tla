------------------------- MODULE TestManagerProofs -------------------------
(***************************************************************************)
(* Proofs about TestManager: the baseline's Hardhat copy stays alive, and  *)
(* a live copy is the chain it was taken of, for any number of snapshots,  *)
(* failing calls and mined blocks.                                         *)
(*                                                                         *)
(* evm_revert deletes the copy it reverts to and every later one, so the   *)
(* baseline survives because its copy is older than every other live copy: *)
(* that order is the heart of the inductive invariant.                     *)
(***************************************************************************)
EXTENDS TestManager, TLAPS

HardhatType ==
    /\ el \in Chains
    /\ saved \in Seq(Chains)
    /\ live \subseteq 1 .. Len(saved)
    /\ hardhatSnapshotMap \in [Names -> 0 .. Len(saved)]
    /\ created \in Names
    /\ arg \in Names
    /\ DOMAIN ideal = Names
    /\ lost \in BOOLEAN

\* The calls of CreateSnapshot after Hardhat's copy is taken.
AfterCopy == {"bn_take", "docker_take", "fs_take", "modules_take"}

\* Until its first snapshot is stored the constructor is running.
Constructing ==
    ~Stored(Baseline) =>
        /\ arg = Baseline
        /\ created = Baseline
        /\ \A n \in Names \ {Baseline} : hardhatSnapshotMap[n] = 0
        /\ pc \in {"connect", "failed", "evm_snapshot"} \union AfterCopy
        /\ pc \in AfterCopy => hardhatSnapshotMap[Baseline] \in live

\* Later CreateSnapshot calls are about other names, and reverts about
\* stored ones.
AboutStored ==
    /\ Stored(Baseline) /\ pc \in {"evm_snapshot"} \union AfterCopy
           => arg # Baseline
    /\ pc \in {"evm_revert", "evm_resnapshot"} => Stored(arg)
    /\ pc = "connect" => ~Stored(Baseline)

\* The baseline's copy is the oldest live copy that any name refers to.
BaselineOldest ==
    ~lost => \A n \in Names \ {Baseline} : hardhatSnapshotMap[n] \in live =>
                 /\ ~BetweenCopies
                 /\ hardhatSnapshotMap[Baseline] < hardhatSnapshotMap[n]

\* CopiesFaithful already holds before the name is stored, and between
\* evm_revert and the new copy the chain itself is faithful.
Faithful ==
    /\ \A n \in Names :
          n \notin drifted /\ hardhatSnapshotMap[n] \in live
              => Told(saved[hardhatSnapshotMap[n]]) = Told(ideal[n].el)
    /\ pc = "evm_resnapshot" /\ arg \notin drifted
          => Told(el) = Told(ideal[arg].el)

\* The inductive invariant.
HInv ==
    /\ HardhatType
    /\ Constructing
    /\ AboutStored
    /\ BaselineOldest
    /\ BaselineAlive
    /\ Faithful

-----------------------------------------------------------------------------

\* The baseline is one of the names.
LEMMA BaselineIsName == Baseline \in Names
BY BoundAssumption DEF Baseline, Names

\* A new TestManager has no copies.
LEMMA InitHInv == Init => HInv
<1> SUFFICES ASSUME Init PROVE HInv
  OBVIOUS
<1>1. el \in Chains /\ saved \in Seq(Chains) /\ Len(saved) = 0
  BY ChainAssumption DEF Init, Chains
<1>2. HardhatType
  <2>1. live \subseteq 1 .. Len(saved) /\ hardhatSnapshotMap \in [Names -> 0 .. Len(saved)]
    BY <1>1 DEF Init
  <2>2. created \in Names /\ arg \in Names
    BY BaselineIsName DEF Init
  <2>3. lost \in BOOLEAN /\ DOMAIN ideal = Names
    BY DEF Init
  <2> QED BY <1>1, <2>1, <2>2, <2>3 DEF HardhatType
<1>3. ~Stored(Baseline) /\ \A n \in Names : hardhatSnapshotMap[n] = 0
  BY BaselineIsName DEF Init, Stored
<1>4. Constructing
  BY <1>3 DEF Init, Constructing, AfterCopy
<1>5. AboutStored /\ BaselineOldest /\ BaselineAlive /\ Faithful
  <2>1. 0 \notin live /\ drifted = {}
    BY DEF Init
  <2>2. AboutStored
    BY <1>3 DEF Init, AboutStored, AfterCopy
  <2>3. BaselineOldest /\ BaselineAlive
    BY <1>3, <2>1 DEF BaselineOldest, BaselineAlive
  <2>4. Faithful
    BY <1>3, <2>1 DEF Init, Faithful
  <2> QED BY <2>2, <2>3, <2>4
<1> QED BY <1>2, <1>4, <1>5 DEF HInv

\* The steps that neither touch a copy nor begin to.
LEMMA QuietHInv ==
  ASSUME HInv,
         el' \in Chains,
         UNCHANGED <<saved, live, hardhatSnapshotMap, created, arg, snapshots,
                     ideal, lost, drifted>>,
         pc # "evm_resnapshot",
         pc' \notin {"connect", "evm_snapshot", "evm_revert", "evm_resnapshot"},
         pc' \in AfterCopy => pc \in AfterCopy,
         ~Stored(Baseline) => pc' \in {"failed"} \union AfterCopy
  PROVE  HInv'
<1>1. HardhatType'
  BY DEF HInv, HardhatType
<1>2. Constructing'
  BY DEF HInv, Constructing, Stored
<1>3. AboutStored'
  BY DEF HInv, AboutStored, Stored
<1>4. BaselineOldest' /\ BaselineAlive'
  BY DEF HInv, BaselineOldest, BaselineAlive, BetweenCopies, Stored
<1>5. Faithful'
  BY DEF HInv, Faithful
<1> QED BY <1>1, <1>2, <1>3, <1>4, <1>5 DEF HInv

\* Changing the block and the count of interval-mined blocks of a chain.
LEMMA ChainExcept ==
  ASSUME NEW c \in Chains, NEW b \in Int, NEW a \in Nat
  PROVE  /\ [c EXCEPT !.block = b, !.auto = a]
                = [block |-> b, offset |-> c.offset, sent |-> c.sent, auto |-> a]
         /\ b \in Nat => [c EXCEPT !.block = b, !.auto = a] \in Chains
<1> DEFINE d == [c EXCEPT !.block = b, !.auto = a]
<1>1. d \in [block : Int, offset : Nat, sent : Nat, auto : Nat]
  BY DEF Chains
<1>2. d.block = b /\ d.auto = a /\ d.offset = c.offset /\ d.sent = c.sent
  BY DEF Chains
<1> HIDE DEF d
<1>3. d = [block |-> d.block, offset |-> d.offset, sent |-> d.sent, auto |-> d.auto]
  BY <1>1
<1>4. d = [block |-> b, offset |-> c.offset, sent |-> c.sent, auto |-> a]
  BY <1>2, <1>3
<1>5. b \in Nat => d \in Chains
  BY <1>1, <1>2, <1>3 DEF Chains
<1> QED BY <1>4, <1>5 DEF d

\* A block of interval mining: what the test did to the chain stays.
LEMMA IntervalTold ==
  ASSUME el \in Chains, el' = [el EXCEPT !.block = @ + 1, !.auto = @ + 1]
  PROVE  el' \in Chains /\ Told(el') = Told(el)
<1>1. el.block \in Nat /\ el.auto \in Nat
  BY DEF Chains
<1> DEFINE b == el.block + 1
           a == el.auto + 1
<1>2. el' = [block |-> b, offset |-> el.offset, sent |-> el.sent, auto |-> a]
      /\ el' \in Chains
  <2>1. b \in Nat /\ a \in Nat /\ el' = [el EXCEPT !.block = b, !.auto = a]
    BY <1>1
  <2>2. b \in Int
    BY <1>1
  <2> HIDE DEF a, b
  <2>3. [el EXCEPT !.block = b, !.auto = a]
           = [block |-> b, offset |-> el.offset, sent |-> el.sent, auto |-> a]
    BY <2>1, <2>2, ChainExcept
  <2>4. [el EXCEPT !.block = b, !.auto = a] \in Chains
    BY <2>1, <2>2, ChainExcept
  <2> QED BY <2>1, <2>3, <2>4
<1>3. Told(el) = [block |-> el.block - el.auto, offset |-> el.offset,
                  sent |-> el.sent, auto |-> 0]
  <2>1. Told(el) = [el EXCEPT !.block = el.block - el.auto, !.auto = 0]
    BY DEF Told
  <2>2. el.block - el.auto \in Int
    BY <1>1
  <2> QED BY <2>1, <2>2, ChainExcept
<1>4. Told(el') = [block |-> el'.block - el'.auto, offset |-> el'.offset,
                   sent |-> el'.sent, auto |-> 0]
  <2>1. Told(el') = [el' EXCEPT !.block = el'.block - el'.auto, !.auto = 0]
    BY DEF Told
  <2>2. el'.block - el'.auto \in Int
    BY <1>2 DEF Chains
  <2> QED BY <1>2, <2>1, <2>2, ChainExcept
<1>5. /\ el'.offset = el.offset /\ el'.sent = el.sent
      /\ el'.block = el.block + 1 /\ el'.auto = el.auto + 1
  BY <1>2
<1>6. el'.block - el'.auto = el.block - el.auto
  BY <1>1, <1>5
<1> QED BY <1>2, <1>3, <1>4, <1>5, <1>6

\* Interval mining, at any time.
LEMMA IntervalHInv ==
  ASSUME HInv, IntervalMine
  PROVE  HInv'
<1>1. /\ el \in Chains
      /\ el' = [el EXCEPT !.block = @ + 1, !.auto = @ + 1]
      /\ UNCHANGED <<saved, live, hardhatSnapshotMap, created, arg, snapshots,
                     ideal, lost, drifted, pc>>
  BY DEF IntervalMine, HInv, HardhatType, stores, frame, control, history
<1>2. el' \in Chains /\ Told(el') = Told(el)
  BY <1>1, IntervalTold
<1>3. HardhatType' /\ Constructing' /\ AboutStored'
  BY <1>1, <1>2 DEF HInv, HardhatType, Constructing, AboutStored, Stored
<1>4. BaselineOldest' /\ BaselineAlive'
  BY <1>1 DEF HInv, BaselineOldest, BaselineAlive, BetweenCopies, Stored
<1>5. Faithful'
  BY <1>1, <1>2 DEF HInv, Faithful
<1> QED BY <1>3, <1>4, <1>5 DEF HInv

\* evm_snapshot, and what it does to the ids.
LEMMA EvmSnapshotIds ==
  ASSUME HardhatType, EvmSnapshot
  PROVE  /\ saved' \in Seq(Chains) /\ Len(saved') = Len(saved) + 1 /\ Len(saved) \in Nat
         /\ el' = el /\ saved'[Len(saved) + 1] = el
         /\ \A id \in 1 .. Len(saved) : saved'[id] = saved[id]
         /\ live' = live \union {Len(saved) + 1}
         /\ live' \subseteq 1 .. Len(saved')
<1>1. el \in Chains /\ saved \in Seq(Chains) /\ live \subseteq 1 .. Len(saved)
  BY DEF HardhatType
<1>2. saved' = Append(saved, el) /\ live' = live \union {Len(saved) + 1} /\ el' = el
  BY DEF EvmSnapshot
<1>3. saved' \in Seq(Chains) /\ Len(saved') = Len(saved) + 1 /\ Len(saved) \in Nat
  BY <1>1, <1>2
<1>4. /\ saved'[Len(saved) + 1] = el
      /\ \A id \in 1 .. Len(saved) : saved'[id] = saved[id]
  BY <1>1, <1>2
<1>5. live' \subseteq 1 .. Len(saved')
  <2> SUFFICES ASSUME NEW id \in live' PROVE id \in 1 .. Len(saved')
    OBVIOUS
  <2>1. CASE id = Len(saved) + 1
    BY <1>3, <2>1
  <2>2. CASE id \in live
    <3>1. id \in 1 .. Len(saved)
      BY <1>1, <2>2
    <3> QED BY <1>3, <3>1
  <2> QED BY <1>2, <2>1, <2>2
<1> QED BY <1>2, <1>3, <1>4, <1>5

\* An evm_snapshot whose answer is lost leaves a copy that no name refers to.
LEMMA LostSnapshotHInv ==
  ASSUME HInv, EvmSnapshot \/ UNCHANGED hardhat,
         UNCHANGED <<hardhatSnapshotMap, created, arg, snapshots, ideal, drifted>>,
         pc' = IF Stored(Baseline) THEN "idle" ELSE "failed",
         lost' \in BOOLEAN,
         ~lost' => ~lost /\ ~BetweenCopies
  PROVE  HInv'
<1>0. HardhatType
  BY DEF HInv
<1>1. /\ el' = el /\ saved' \in Seq(Chains) /\ live' \subseteq 1 .. Len(saved')
      /\ Len(saved) \in Nat /\ Len(saved) <= Len(saved')
      /\ \A id \in 1 .. Len(saved) : saved'[id] = saved[id]
      /\ \A id \in 0 .. Len(saved) : id \in live' <=> id \in live
  <2>1. CASE EvmSnapshot
    <3> HIDE DEF EvmSnapshot
    <3>1. /\ saved' \in Seq(Chains) /\ Len(saved') = Len(saved) + 1 /\ Len(saved) \in Nat
          /\ el' = el
          /\ \A id \in 1 .. Len(saved) : saved'[id] = saved[id]
          /\ live' = live \union {Len(saved) + 1}
          /\ live' \subseteq 1 .. Len(saved')
      BY <1>0, <2>1, EvmSnapshotIds
    <3> QED BY <3>1
  <2>2. CASE UNCHANGED hardhat
    BY <1>0, <2>2 DEF hardhat, HardhatType
  <2> QED BY <2>1, <2>2
<1>2. \A n \in Names : /\ hardhatSnapshotMap[n] \in 0 .. Len(saved)
                       /\ hardhatSnapshotMap[n] \in live' <=> hardhatSnapshotMap[n] \in live
  BY <1>0, <1>1 DEF HardhatType
<1>3. HardhatType'
  <2>1. hardhatSnapshotMap' \in [Names -> 0 .. Len(saved')]
    BY <1>0, <1>1 DEF HardhatType
  <2> QED BY <1>0, <1>1, <2>1 DEF HardhatType
<1>4. Constructing' /\ AboutStored'
  BY DEF HInv, Constructing, AboutStored, Stored, AfterCopy
<1>5. BaselineOldest' /\ BaselineAlive'
  BY <1>2, BaselineIsName DEF HInv, BaselineOldest, BaselineAlive, BetweenCopies, Stored
<1>6. Faithful'
  <2>1. ASSUME NEW n \in Names, n \notin drifted, hardhatSnapshotMap[n] \in live'
        PROVE  Told(saved'[hardhatSnapshotMap[n]]) = Told(ideal[n].el)
    <3>1. hardhatSnapshotMap[n] \in live /\ hardhatSnapshotMap[n] \in 1 .. Len(saved)
      BY <1>0, <1>2, <2>1 DEF HardhatType
    <3> QED BY <1>1, <2>1, <3>1 DEF HInv, Faithful
  <2> QED BY <2>1 DEF Faithful
<1> QED BY <1>3, <1>4, <1>5, <1>6 DEF HInv

\* A new copy, of the chain as it is, becomes the copy of the method's
\* snapshot; its id is the newest.
LEMMA NewCopyIds ==
  ASSUME HInv, EvmSnapshot, UNCHANGED <<created, arg, snapshots, lost>>,
         DOMAIN ideal' = Names,
         hardhatSnapshotMap' = [hardhatSnapshotMap EXCEPT ![arg] = Len(saved) + 1]
  PROVE  /\ HardhatType'
         /\ hardhatSnapshotMap'[arg] = Len(saved) + 1
         /\ hardhatSnapshotMap'[arg] \in live'
         /\ saved'[hardhatSnapshotMap'[arg]] = el
         /\ \A n \in Names \ {arg} :
               /\ hardhatSnapshotMap'[n] = hardhatSnapshotMap[n]
               /\ hardhatSnapshotMap[n] < Len(saved) + 1
               /\ hardhatSnapshotMap[n] \in live' <=> hardhatSnapshotMap[n] \in live
               /\ hardhatSnapshotMap[n] \in live =>
                     saved'[hardhatSnapshotMap[n]] = saved[hardhatSnapshotMap[n]]
<1>0. HardhatType /\ arg \in Names
  BY DEF HInv, HardhatType
<1>1. /\ saved' \in Seq(Chains) /\ Len(saved') = Len(saved) + 1 /\ Len(saved) \in Nat
      /\ el' = el /\ saved'[Len(saved) + 1] = el
      /\ \A id \in 1 .. Len(saved) : saved'[id] = saved[id]
      /\ live' = live \union {Len(saved) + 1}
      /\ live' \subseteq 1 .. Len(saved')
  BY <1>0, EvmSnapshotIds
<1>2. hardhatSnapshotMap \in [Names -> 0 .. Len(saved)] /\ live \subseteq 1 .. Len(saved)
  BY <1>0 DEF HardhatType
<1>3. hardhatSnapshotMap'[arg] = Len(saved) + 1
  BY <1>0, <1>2
<1>4. hardhatSnapshotMap' \in [Names -> 0 .. Len(saved')]
  BY <1>0, <1>1, <1>2
<1>5. HardhatType'
  BY <1>0, <1>1, <1>4 DEF HardhatType
<1>6. ASSUME NEW n \in Names \ {arg}
      PROVE  /\ hardhatSnapshotMap'[n] = hardhatSnapshotMap[n]
             /\ hardhatSnapshotMap[n] < Len(saved) + 1
             /\ hardhatSnapshotMap[n] \in live' <=> hardhatSnapshotMap[n] \in live
             /\ hardhatSnapshotMap[n] \in live =>
                   saved'[hardhatSnapshotMap[n]] = saved[hardhatSnapshotMap[n]]
  <2>1. hardhatSnapshotMap'[n] = hardhatSnapshotMap[n]
        /\ hardhatSnapshotMap[n] \in 0 .. Len(saved)
    BY <1>0, <1>2
  <2> QED BY <1>1, <1>2, <2>1
<1> QED BY <1>1, <1>3, <1>5, <1>6

\* CreateSnapshot's call of evm_snapshot.
LEMMA TakeHInv ==
  ASSUME HInv, TakeHardhat
  PROVE  HInv'
<1>1. /\ HardhatType /\ pc = "evm_snapshot" /\ arg \in Names
      /\ UNCHANGED <<created, arg, snapshots, drifted, lost>>
  BY DEF HInv, HardhatType, TakeHardhat, frame, control, Goto
<1>2. CASE /\ EvmSnapshot \/ UNCHANGED hardhat
           /\ Fail
           /\ UNCHANGED <<hardhatSnapshotMap, ideal>>
  <2>1. pc' = IF Stored(Baseline) THEN "idle" ELSE "failed"
    BY <1>2 DEF Fail, ReturnError
  <2>2. lost' \in BOOLEAN /\ (~lost' => ~lost /\ ~BetweenCopies)
    BY <1>1 DEF HardhatType, BetweenCopies
  <2> QED BY <1>1, <1>2, <2>1, <2>2, LostSnapshotHInv
<1>3. CASE /\ EvmSnapshot /\ pc' = "bn_take"
           /\ hardhatSnapshotMap' = [hardhatSnapshotMap EXCEPT ![arg] = Len(saved) + 1]
           /\ ideal' = [ideal EXCEPT ![arg] = World]
  <2>1. /\ DOMAIN ideal' = Names
        /\ ideal'[arg].el = el
        /\ \A n \in Names \ {arg} : ideal'[n] = ideal[n]
    BY <1>1, <1>3 DEF HardhatType, World
  <2>2. /\ HardhatType'
        /\ hardhatSnapshotMap'[arg] = Len(saved) + 1
        /\ hardhatSnapshotMap'[arg] \in live'
        /\ saved'[hardhatSnapshotMap'[arg]] = el
        /\ \A n \in Names \ {arg} :
              /\ hardhatSnapshotMap'[n] = hardhatSnapshotMap[n]
              /\ hardhatSnapshotMap[n] < Len(saved) + 1
              /\ hardhatSnapshotMap[n] \in live' <=> hardhatSnapshotMap[n] \in live
              /\ hardhatSnapshotMap[n] \in live =>
                    saved'[hardhatSnapshotMap[n]] = saved[hardhatSnapshotMap[n]]
    BY <1>1, <1>3, <2>1, NewCopyIds
  <2>3. Constructing'
    BY <1>1, <1>3, <2>2 DEF HInv, Constructing, Stored, AfterCopy
  <2>4. AboutStored'
    BY <1>1, <1>3 DEF HInv, AboutStored, Stored, AfterCopy
  <2>5. BaselineAlive'
    <3>1. Stored(Baseline) => arg # Baseline
      BY <1>1 DEF HInv, AboutStored
    <3> QED BY <1>1, <3>1, <2>2, BaselineIsName DEF HInv, BaselineAlive, BetweenCopies, Stored
  <2>6. BaselineOldest'
    <3>1. CASE arg = Baseline
      <4>1. ~Stored(Baseline)
        BY <3>1, <1>1 DEF HInv, AboutStored
      <4>2. \A n \in Names \ {Baseline} : hardhatSnapshotMap[n] = 0
        BY <4>1 DEF HInv, Constructing
      <4>3. 0 \notin live
        BY <1>1 DEF HardhatType
      <4>4. \A n \in Names \ {Baseline} : hardhatSnapshotMap'[n] \notin live'
        BY <3>1, <4>2, <4>3, <2>2
      <4> QED BY <4>4 DEF BaselineOldest
    <3>2. CASE arg # Baseline
      BY <3>2, <1>1, <1>3, <2>2, BaselineIsName DEF HInv, BaselineOldest, BetweenCopies
    <3> QED BY <3>1, <3>2
  <2>7. Faithful'
    <3>1. ASSUME NEW n \in Names, n \notin drifted', hardhatSnapshotMap'[n] \in live'
          PROVE  Told(saved'[hardhatSnapshotMap'[n]]) = Told(ideal'[n].el)
      <4>1. CASE n = arg
        BY <4>1, <2>1, <2>2
      <4>2. CASE n # arg
        BY <3>1, <4>2, <1>1, <2>1, <2>2 DEF HInv, Faithful
      <4> QED BY <4>1, <4>2
    <3> QED BY <1>3, <3>1 DEF Faithful
  <2> QED BY <2>2, <2>3, <2>4, <2>5, <2>6, <2>7 DEF HInv
<1> QED BY <1>2, <1>3 DEF TakeHardhat, Goto

\* RevertSnapshot's second call: the new copy of the chain just restored.
LEMMA RetakeHInv ==
  ASSUME HInv, RetakeHardhat
  PROVE  HInv'
<1>1. /\ HardhatType /\ pc = "evm_resnapshot" /\ arg \in Names /\ Stored(arg)
      /\ UNCHANGED <<created, arg, snapshots, drifted, ideal>>
  BY DEF HInv, HardhatType, AboutStored, RetakeHardhat, frame, control
<1>a. Stored(Baseline)
  BY <1>1 DEF HInv, Constructing, AfterCopy
<1>2. CASE /\ EvmSnapshot \/ UNCHANGED hardhat
           /\ Fail
           /\ lost' = (lost \/ arg = Baseline)
           /\ UNCHANGED hardhatSnapshotMap
  <2>1. pc' = IF Stored(Baseline) THEN "idle" ELSE "failed"
    BY <1>2 DEF Fail, ReturnError
  <2>2. lost' \in BOOLEAN
    BY <1>2
  <2>3. ~lost' => ~lost /\ ~BetweenCopies
    BY <1>2 DEF BetweenCopies
  <2> QED BY <1>1, <1>2, <2>1, <2>2, <2>3, LostSnapshotHInv
<1>3. CASE /\ EvmSnapshot /\ pc' = "bn_revert" /\ lost' = lost
           /\ hardhatSnapshotMap' = [hardhatSnapshotMap EXCEPT ![arg] = Len(saved) + 1]
  <2>2. /\ HardhatType'
        /\ hardhatSnapshotMap'[arg] = Len(saved) + 1
        /\ hardhatSnapshotMap'[arg] \in live'
        /\ saved'[hardhatSnapshotMap'[arg]] = el
        /\ \A n \in Names \ {arg} :
              /\ hardhatSnapshotMap'[n] = hardhatSnapshotMap[n]
              /\ hardhatSnapshotMap[n] < Len(saved) + 1
              /\ hardhatSnapshotMap[n] \in live' <=> hardhatSnapshotMap[n] \in live
              /\ hardhatSnapshotMap[n] \in live =>
                    saved'[hardhatSnapshotMap[n]] = saved[hardhatSnapshotMap[n]]
    <3>1. DOMAIN ideal' = Names
      BY <1>1 DEF HardhatType
    <3> QED BY <1>1, <1>3, <3>1, NewCopyIds
  <2>3. Constructing' /\ AboutStored'
    BY <1>1, <1>a, <1>3 DEF Constructing, AboutStored, Stored, AfterCopy
  <2>4. BaselineAlive' /\ BaselineOldest'
    <3>1. CASE arg = Baseline
      <4>1. ~lost => \A n \in Names \ {Baseline} : hardhatSnapshotMap[n] \notin live
        BY <3>1, <1>1 DEF HInv, BaselineOldest, BetweenCopies
      <4> QED BY <3>1, <4>1, <1>1, <1>3, <2>2 DEF BaselineAlive, BaselineOldest
    <3>2. CASE arg # Baseline
      <4>1. ~BetweenCopies /\ ~BetweenCopies'
        BY <3>2, <1>3 DEF BetweenCopies
      <4>2. ~lost => hardhatSnapshotMap[Baseline] \in live
        BY <4>1, <1>a DEF HInv, BaselineAlive
      <4>3. BaselineAlive'
        BY <4>2, <3>2, <1>3, <2>2, BaselineIsName DEF BaselineAlive
      <4>4. BaselineOldest'
        BY <4>1, <3>2, <1>1, <1>3, <2>2, BaselineIsName DEF HInv, BaselineOldest
      <4> QED BY <4>3, <4>4
    <3> QED BY <3>1, <3>2
  <2>5. Faithful'
    <3>1. ASSUME NEW n \in Names, n \notin drifted', hardhatSnapshotMap'[n] \in live'
          PROVE  Told(saved'[hardhatSnapshotMap'[n]]) = Told(ideal'[n].el)
      <4>1. CASE n = arg
        BY <3>1, <4>1, <1>1, <2>2 DEF HInv, Faithful
      <4>2. CASE n # arg
        BY <3>1, <4>2, <1>1, <2>2 DEF HInv, Faithful
      <4> QED BY <4>1, <4>2
    <3> QED BY <1>3, <3>1 DEF Faithful
  <2> QED BY <2>2, <2>3, <2>4, <2>5 DEF HInv
<1> QED BY <1>2, <1>3 DEF RetakeHardhat, Goto

\* RevertSnapshot's first call: it restores a faithful copy, or finds that
\* the copy is gone and says nothing.
LEMMA RevertHInv ==
  ASSUME HInv, RevertHardhat
  PROVE  HInv'
<1> DEFINE id == hardhatSnapshotMap[arg]
<1>1. /\ HardhatType /\ pc = "evm_revert" /\ arg \in Names /\ Stored(arg)
      /\ UNCHANGED <<hardhatSnapshotMap, created, arg, snapshots, ideal>>
  BY DEF HInv, HardhatType, AboutStored, RevertHardhat, stores, frame, control
<1>a. Stored(Baseline) /\ (~lost => hardhatSnapshotMap[Baseline] \in live)
  BY <1>1 DEF HInv, Constructing, AfterCopy, BaselineAlive, BetweenCopies
<1>2. CASE Fail /\ UNCHANGED <<hardhat, lost, drifted>>
  <2>1. pc' = "idle"
    BY <1>a, <1>2 DEF Fail, ReturnError
  <2> QED BY <1>1, <1>a, <1>2, <2>1, QuietHInv DEF hardhat, HardhatType, AfterCopy
<1>3. CASE EvmRevert(id) /\ ~(Fail /\ UNCHANGED <<hardhat, lost, drifted>>)
  <2>1. /\ el' \in Chains /\ saved' = saved
        /\ id \in live => el' = saved[id] /\ live' = {j \in live : j < id}
        /\ id \notin live => el' = el /\ live' = live
    BY <1>1, <1>3 DEF EvmRevert, HardhatType, hardhat
  <2>2. \/ /\ pc' = "evm_resnapshot" /\ lost' = lost
           /\ drifted' = IF id \in live THEN drifted ELSE drifted \union {arg}
        \/ /\ pc' = "idle" /\ lost' = (lost \/ arg = Baseline)
           /\ drifted' = drifted
    BY <1>a, <1>3 DEF RevertHardhat, Fail, ReturnError
  <2>3. HardhatType'
    <3>1. live' \subseteq live
      BY <2>1
    <3>2. lost' \in BOOLEAN
      BY <2>2, <1>1 DEF HardhatType
    <3> QED BY <1>1, <2>1, <3>1, <3>2 DEF HardhatType
  <2>4. Constructing' /\ AboutStored'
    BY <1>1, <1>a, <2>2 DEF Constructing, AboutStored, Stored, AfterCopy
  <2>5. live \subseteq Nat /\ hardhatSnapshotMap \in [Names -> Nat]
    BY <1>1 DEF HardhatType
  <2>6. BaselineOldest'
    <3>1. CASE arg = Baseline /\ ~lost
      <4>1. \A n \in Names \ {Baseline} : hardhatSnapshotMap[n] \notin live'
        BY <3>1, <1>a, <2>1, <2>5, BaselineIsName DEF HInv, BaselineOldest
      <4> QED BY <1>1, <4>1 DEF BaselineOldest
    <3>2. CASE arg # Baseline \/ lost
      BY <3>2, <1>1, <2>1, <2>2 DEF HInv, BaselineOldest, BetweenCopies
    <3> QED BY <3>1, <3>2
  <2>7. BaselineAlive'
    <3>1. CASE arg = Baseline
      BY <3>1, <1>1, <2>2 DEF BaselineAlive, BetweenCopies
    <3>2. CASE arg # Baseline /\ ~lost
      <4>1. id \in live => hardhatSnapshotMap[Baseline] < id
        BY <3>2, <1>1 DEF HInv, BaselineOldest
      <4>2. hardhatSnapshotMap[Baseline] \in live'
        BY <4>1, <3>2, <1>a, <2>1
      <4> QED BY <4>2, <1>1 DEF BaselineAlive
    <3>3. CASE arg # Baseline /\ lost
      BY <3>3, <2>2 DEF BaselineAlive
    <3> QED BY <3>1, <3>2, <3>3
  <2>8. Faithful'
    <3>1. ASSUME NEW n \in Names, n \notin drifted', hardhatSnapshotMap[n] \in live'
          PROVE  Told(saved[hardhatSnapshotMap[n]]) = Told(ideal[n].el)
      BY <3>1, <2>1, <2>2 DEF HInv, Faithful
    <3>2. ASSUME pc' = "evm_resnapshot", arg \notin drifted'
          PROVE  Told(el') = Told(ideal[arg].el)
      BY <3>2, <1>1, <2>1, <2>2 DEF HInv, Faithful
    <3> QED BY <1>1, <2>1, <3>1, <3>2 DEF Faithful
  <2> QED BY <2>3, <2>4, <2>6, <2>7, <2>8 DEF HInv
<1> QED BY <1>2, <1>3 DEF RevertHardhat

\* The beginnings of NewTestManager, CreateSnapshot and RevertSnapshot, and
\* the end of CreateSnapshot.
LEMMA BeginHInv ==
  ASSUME HInv,
         \/ Connect \/ CreateSnapshot \/ StoreSnapshot
         \/ \E n \in Names, byClose \in BOOLEAN : BeginRevert(n, byClose)
  PROVE  HInv'
<1>0. HardhatType
  BY DEF HInv
<1>1. CASE Connect
  <2>1. /\ UNCHANGED <<el, saved, live, hardhatSnapshotMap, created, arg, snapshots,
                       ideal, drifted, lost>>
        /\ pc = "connect" /\ ~Stored(Baseline)
        /\ pc' \in {"evm_snapshot", "failed"}
    BY <1>1 DEF Connect, hardhat, stores, control, Goto, Fail, ReturnError, HInv, AboutStored
  <2>2. HardhatType'
    BY <1>0, <2>1 DEF HardhatType
  <2>3. Constructing' /\ AboutStored'
    BY <2>1 DEF HInv, Constructing, AboutStored, Stored, AfterCopy
  <2>4. BaselineOldest' /\ BaselineAlive'
    BY <2>1 DEF HInv, BaselineOldest, BaselineAlive, BetweenCopies, Stored
  <2>5. Faithful'
    BY <2>1 DEF HInv, Faithful
  <2> QED BY <2>2, <2>3, <2>4, <2>5 DEF HInv
<1>2. CASE CreateSnapshot
  <2>1. /\ UNCHANGED <<el, saved, live, hardhatSnapshotMap, snapshots, ideal, drifted,
                       lost>>
        /\ pc = "idle" /\ pc' = "evm_snapshot"
        /\ created < MaxSnapshots /\ created' = created + 1 /\ arg' = created + 1
    BY <1>2 DEF CreateSnapshot, Begin, Idle, hardhat, stores
  <2>2. Stored(Baseline)
    BY <2>1 DEF HInv, Constructing, AfterCopy
  <2>3. created \in Nat /\ created >= 1 /\ arg' \in Names /\ created' \in Names
        /\ arg' # Baseline
    BY <1>0, <2>1, BoundAssumption DEF HardhatType, Names, Baseline
  <2>4. HardhatType'
    BY <1>0, <2>1, <2>3 DEF HardhatType
  <2>5. Constructing' /\ AboutStored'
    BY <2>1, <2>2, <2>3 DEF Constructing, AboutStored, Stored
  <2>6. BaselineOldest' /\ BaselineAlive'
    BY <2>1 DEF HInv, BaselineOldest, BaselineAlive, BetweenCopies, Stored
  <2>7. Faithful'
    BY <2>1 DEF HInv, Faithful
  <2> QED BY <2>4, <2>5, <2>6, <2>7 DEF HInv
<1>3. CASE StoreSnapshot
  <2>1. /\ UNCHANGED <<el, saved, live, hardhatSnapshotMap, created, arg, ideal, drifted,
                       lost>>
        /\ pc = "modules_take" /\ pc' = "idle"
        /\ DOMAIN snapshots' = DOMAIN snapshots \union {arg}
    BY <1>3 DEF StoreSnapshot, Return, hardhat, frame, control
  <2>2. HardhatType'
    BY <1>0, <2>1 DEF HardhatType
  <2>3. hardhatSnapshotMap[Baseline] \in live \/ lost
    BY <2>1 DEF HInv, Constructing, AfterCopy, BaselineAlive, BetweenCopies
  <2>4. BaselineAlive'
    BY <2>1, <2>3 DEF BaselineAlive
  <2>5. BaselineOldest'
    BY <2>1 DEF HInv, BaselineOldest, BetweenCopies
  <2>6. AboutStored' /\ Faithful'
    BY <2>1 DEF HInv, AboutStored, Faithful, AfterCopy
  <2>7. Constructing'
    BY <2>1 DEF HInv, Constructing, Stored
  <2> QED BY <2>2, <2>4, <2>5, <2>6, <2>7 DEF HInv
<1>4. CASE \E n \in Names, byClose \in BOOLEAN : BeginRevert(n, byClose)
  <2> PICK n \in Names : /\ Stored(n)
                         /\ UNCHANGED <<el, saved, live, hardhatSnapshotMap, created,
                                        snapshots, ideal, drifted, lost>>
                         /\ pc = "idle" /\ pc' = "evm_revert" /\ arg' = n
    BY <1>4 DEF BeginRevert, Begin, Idle, hardhat, stores, frame, Stored
  <2>1. Stored(Baseline)
    BY DEF HInv, Constructing, AfterCopy
  <2>2. HardhatType'
    BY <1>0 DEF HardhatType
  <2>3. Constructing' /\ AboutStored'
    BY <2>1 DEF Constructing, AboutStored, Stored, AfterCopy
  <2>4. BaselineOldest' /\ BaselineAlive'
    BY DEF HInv, BaselineOldest, BaselineAlive, BetweenCopies, Stored
  <2>5. Faithful'
    BY DEF HInv, Faithful
  <2> QED BY <2>2, <2>3, <2>4, <2>5 DEF HInv
<1> QED BY <1>1, <1>2, <1>3, <1>4

\* The calls of CreateSnapshot after Hardhat's.
LEMMA TakeRestHInv ==
  ASSUME HInv, TakeBeacon \/ TakeDocker \/ TakeFiles \/ TakeModule
  PROVE  HInv'
<1>1. /\ UNCHANGED <<el, saved, live, hardhatSnapshotMap, created, arg, snapshots,
                     ideal, drifted>>
      /\ pc \in AfterCopy
  BY DEF TakeBeacon, TakeDocker, TakeFiles, TakeModule,
         hardhat, stores, frame, control, AfterCopy
<1>2. lost' = lost
  BY DEF TakeBeacon, TakeDocker, TakeFiles, TakeModule, Goto, Refuse
<1>3. pc' \in AfterCopy \/ pc' = IF Stored(Baseline) THEN "idle" ELSE "failed"
  BY DEF TakeBeacon, TakeDocker, TakeFiles, TakeModule, Goto, Refuse, Fail, ReturnError,
         AfterCopy
<1>4. el' \in Chains
  BY <1>1 DEF HInv, HardhatType
<1> QED BY <1>1, <1>2, <1>3, <1>4, QuietHInv DEF AfterCopy

\* Once the constructor is done, steps that leave the copies alone and end
\* in no call about them.
LEMMA OtherHInv ==
  ASSUME HInv, el' \in Chains,
         UNCHANGED <<saved, live, hardhatSnapshotMap, created, arg, snapshots, ideal,
                     lost, drifted>>,
         pc \in {"idle"} \union RevertCalls \union ChainCalls,
         pc \notin {"evm_revert", "evm_resnapshot"},
         pc' \in {"idle", "failed"} \union RevertCalls \union ChainCalls,
         pc' \notin {"evm_revert", "evm_resnapshot"}
  PROVE  HInv'
<1>1. Stored(Baseline)
  BY DEF HInv, Constructing, AfterCopy, RevertCalls, ChainCalls
<1>2. pc' \notin AfterCopy \union {"connect", "evm_snapshot"}
  BY DEF AfterCopy, RevertCalls, ChainCalls
<1> QED BY <1>1, <1>2, QuietHInv

\* The calls of RevertSnapshot and Close after Hardhat's.
LEMMA RevertRestHInv ==
  ASSUME HInv, \/ RevertBeacon \/ RevertDocker \/ RevertFiles \/ RevertModule
               \/ EndRevert \/ CloseFiles
  PROVE  HInv'
<1>1. /\ UNCHANGED <<el, saved, live, hardhatSnapshotMap, created, arg, snapshots,
                     ideal, drifted>>
      /\ pc \in RevertCalls \ {"evm_revert", "evm_resnapshot"}
  BY DEF RevertBeacon, RevertDocker, RevertFiles, RevertModule, EndRevert,
         CloseFiles, FilesClosed, FilesLeft,
         hardhat, stores, frame, control, RevertCalls
<1>2. lost' = lost
  BY DEF RevertBeacon, RevertDocker, RevertFiles, RevertModule, EndRevert,
         CloseFiles, FilesClosed, FilesLeft, Goto, Return, Refuse
<1>3. pc' \in ({"idle", "failed"} \union RevertCalls) \ {"evm_revert", "evm_resnapshot"}
  BY DEF RevertBeacon, RevertDocker, RevertFiles, RevertModule, EndRevert,
         CloseFiles, FilesClosed, FilesLeft,
         Goto, Return, Refuse, Fail, ReturnError, RevertCalls
<1>4. el' \in Chains
  BY <1>1 DEF HInv, HardhatType
<1> QED BY <1>1, <1>2, <1>3, <1>4, OtherHInv

\* The calls of CommitBlock and AdvanceSlots.
LEMMA ChainHInv ==
  ASSUME HInv, amount \in Nat,
         MineBlock \/ IncreaseTime \/ CommitBeacon \/ SkipSlot \/ IncreaseTimeAll
  PROVE  HInv'
<1>0. el \in Chains
  BY DEF HInv, HardhatType
<1>1. /\ UNCHANGED <<saved, live, hardhatSnapshotMap, created, arg, snapshots, ideal,
                     drifted>>
      /\ pc \in ChainCalls
  BY DEF MineBlock, IncreaseTime, CommitBeacon, SkipSlot, IncreaseTimeAll, EvmMine,
         EvmIncreaseTime, hardhat, stores, frame, control, ChainCalls
<1>2. lost' = lost
  BY DEF MineBlock, IncreaseTime, CommitBeacon, SkipSlot, IncreaseTimeAll, Goto, Return
<1>3. pc' \in {"idle", "failed"} \union ChainCalls
  BY DEF MineBlock, IncreaseTime, CommitBeacon, SkipSlot, IncreaseTimeAll, Goto, Return,
         Fail, ReturnError, ChainCalls
<1>4. el' \in Chains
  <2>1. \A t \in Nat : [el EXCEPT !.offset = @ + t] \in Chains
    BY <1>0 DEF Chains
  <2>2. [el EXCEPT !.block = @ + 1] \in Chains
    BY <1>0 DEF Chains
  <2>3. el' \in {el, [el EXCEPT !.block = @ + 1], [el EXCEPT !.offset = @ + 1],
                [el EXCEPT !.offset = @ + amount]}
    BY DEF MineBlock, IncreaseTime, CommitBeacon, SkipSlot, IncreaseTimeAll, EvmMine,
           EvmIncreaseTime, hardhat
  <2> QED BY <1>0, <2>1, <2>2, <2>3
<1>5. \A call \in ChainCalls : call \notin {"evm_revert", "evm_resnapshot"}
  BY DEF ChainCalls
<1> QED BY <1>1, <1>2, <1>3, <1>4, <1>5, OtherHInv

\* What the test does between two methods, and the beginnings of CommitBlock
\* and AdvanceSlots.
LEMMA TestHInv ==
  ASSUME HInv, Test
  PROVE  HInv'
<1>1. CASE \/ CreateSnapshot \/ RevertToBaseline \/ Close
           \/ \E n \in Names : RevertSnapshot(n)
  BY <1>1, BeginHInv, BaselineIsName DEF RevertToBaseline, Close, RevertSnapshot
<1>2. CASE \E call \in {"evm_mine", "bn_skip"}, slots \in Int : BeginAdvance(call, slots)
  <2>1. /\ UNCHANGED <<el, saved, live, hardhatSnapshotMap, created, arg, snapshots,
                       ideal, drifted, lost>>
        /\ pc = "idle" /\ pc' \in {"evm_mine", "bn_skip"}
    BY <1>2 DEF BeginAdvance, Begin, Idle, hardhat, stores, frame
  <2>2. el' \in Chains
    BY <2>1 DEF HInv, HardhatType
  <2> QED BY <2>1, <2>2, OtherHInv DEF ChainCalls
<1>3. CASE \/ \E on \in BOOLEAN : SetMiningInterval(on)
           \/ \E slot \in Slots : SetBeaconHeadSlot(slot)
           \/ \E i \in Instances : RegisterModule(i)
           \/ UseBeacon \/ UseMocks
  <2>1. /\ UNCHANGED <<el, saved, live, hardhatSnapshotMap, created, arg, snapshots,
                       ideal, drifted, lost>>
        /\ pc = "idle" /\ pc' \in {"idle", "failed"}
    BY <1>3 DEF SetMiningInterval, SetBeaconHeadSlot, RegisterModule, UseBeacon,
                UseMocks, Begin,
                Idle, Fail, ReturnError, hardhat, stores, frame, control
  <2>2. el' \in Chains
    BY <2>1 DEF HInv, HardhatType
  <2> QED BY <2>1, <2>2, OtherHInv
<1>4. CASE SendTransaction
  <2>1. /\ UNCHANGED <<saved, live, hardhatSnapshotMap, created, arg, snapshots,
                       ideal, drifted, lost>>
        /\ pc = "idle" /\ pc' = "idle"
        /\ el' = [el EXCEPT !.block = @ + 1, !.sent = @ + 1]
    BY <1>4 DEF SendTransaction, Begin, Idle, stores, frame, control
  <2>2. el \in Chains /\ el.block + 1 \in Nat /\ el.sent + 1 \in Nat
    BY DEF HInv, HardhatType, Chains
  <2>3. \A b, s \in Nat : [el EXCEPT !.block = b, !.sent = s] \in Chains
    BY <2>2 DEF Chains
  <2>4. el' \in Chains
    BY <2>1, <2>2, <2>3
  <2> QED BY <2>1, <2>4, OtherHInv
<1> QED
  BY <1>1, <1>2, <1>3, <1>4 DEF Test, CommitBlock, AdvanceSlots

\* Every step keeps the inductive invariant.
LEMMA NextHInv ==
  ASSUME HInv, amount \in Nat, [Next]_vars
  PROVE  HInv'
<1>1. CASE Step
  BY <1>1, BeginHInv, TakeHInv, TakeRestHInv, RevertHInv, RetakeHInv, RevertRestHInv,
     ChainHInv DEF Step
<1>2. CASE UNCHANGED vars
  <2>1. UNCHANGED <<el, saved, live, hardhatSnapshotMap, created, arg, snapshots,
                    ideal, drifted, lost, pc>>
    BY <1>2 DEF vars, hardhat, stores, frame, control, history
  <2>2. HardhatType' /\ Constructing' /\ AboutStored'
    BY <2>1 DEF HInv, HardhatType, Constructing, AboutStored, Stored
  <2>3. BaselineOldest' /\ BaselineAlive' /\ Faithful'
    BY <2>1 DEF HInv, BaselineOldest, BaselineAlive, BetweenCopies, Stored, Faithful
  <2> QED BY <2>2, <2>3 DEF HInv
<1> QED BY <1>1, <1>2, TestHInv, IntervalHInv DEF Next

\* The slots to add to the clock are a number: what AdvanceSlots was given.
LEMMA NextAmount ==
  ASSUME amount \in Nat, [Next]_vars
  PROVE  amount' \in Nat
<1>1. CASE Step
  BY <1>1 DEF Step, Connect, TakeHardhat, TakeBeacon, TakeDocker, TakeFiles, TakeModule,
      StoreSnapshot, RevertHardhat, RetakeHardhat, RevertBeacon, RevertDocker,
      RevertFiles, RevertModule, EndRevert, CloseFiles, FilesClosed, FilesLeft,
      MineBlock, IncreaseTime, CommitBeacon, SkipSlot, IncreaseTimeAll, control
<1>2. CASE Test
  <2>1. \A call, slots : BeginAdvance(call, slots) => amount' = slots
    BY DEF BeginAdvance
  <2>2. CASE CommitBlock
    BY <2>1, <2>2 DEF CommitBlock
  <2>3. CASE \E slots \in 0 .. MaxAdvance, includeBlocks \in BOOLEAN :
                AdvanceSlots(slots, includeBlocks)
    BY <2>1, <2>3, BoundAssumption DEF AdvanceSlots
  <2> QED
    BY <1>2, <2>2, <2>3 DEF Test, CreateSnapshot, RevertSnapshot, RevertToBaseline,
        Close, BeginRevert, SetMiningInterval, SetBeaconHeadSlot, RegisterModule,
        SendTransaction, UseBeacon, UseMocks, control
<1>3. CASE IntervalMine \/ UNCHANGED vars
  BY <1>3 DEF IntervalMine, vars, control
<1> QED BY <1>1, <1>2, <1>3 DEF Next

-----------------------------------------------------------------------------

\* HInv is an invariant of TestManager, for any number of snapshots, Hardhat
\* ids, failing calls, transactions and mined blocks (test-manager.go).
THEOREM HardhatInvariance == Spec => [](HInv /\ amount \in Nat)
<1>1. Init => HInv /\ amount \in Nat
  <2>1. Init => amount \in Nat
    BY DEF Init
  <2> QED BY <2>1, InitHInv
<1>2. (HInv /\ amount \in Nat) /\ [Next]_vars => (HInv /\ amount \in Nat)'
  BY NextHInv, NextAmount
<1> QED BY <1>1, <1>2, PTL DEF Spec

\* The baseline's Hardhat copy is never deleted by another revert, whatever
\* the order of CreateSnapshot and RevertSnapshot and whichever of their calls
\* fail (test-manager.go, RevertSnapshot).
THEOREM BaselineStaysAlive == Spec => []BaselineAlive
<1>1. HInv => BaselineAlive
  BY DEF HInv
<1> QED BY <1>1, HardhatInvariance, PTL

\* A live Hardhat copy is the chain CreateSnapshot saw, up to blocks of
\* interval mining: taking it again after each evm_revert never changes what
\* a name stands for (test-manager.go, CreateSnapshot and RevertSnapshot).
THEOREM CopiesStayFaithful == Spec => []CopiesFaithful
<1>1. HInv => CopiesFaithful
  BY DEF HInv, Faithful, CopiesFaithful
<1> QED BY <1>1, HardhatInvariance, PTL
=============================================================================

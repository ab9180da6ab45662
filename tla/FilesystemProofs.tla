-------------------------- MODULE FilesystemProofs --------------------------
(***************************************************************************)
(* Proofs about FilesystemManager, for every set of paths, names and       *)
(* contents and any number of failing calls: the folders stay file trees,  *)
(* Close leaves nothing, and the snapshots under separate names are a      *)
(* store of the test folder (Filesystem!IsStore).                          *)
(*                                                                         *)
(* A copy is several steps, and may stop at each.  FInv says what has been *)
(* copied halfway (Taking, Reverting); for the walk to put every entry in  *)
(* a folder that it has put there before, Visited must choose a path that  *)
(* nothing left to visit is above.  That there is one needs the order of   *)
(* the walk to be total and the folder to be finite.                       *)
(***************************************************************************)
EXTENDS Filesystem, FiniteSetTheorems, SequenceTheorems, TLAPS

Path == Seq(Nat)

-----------------------------------------------------------------------------
(* The inductive invariant *)

\* A folder whose every entry is in a folder: IsFolder, for all the folders on
\* the way to an entry.
Tree(dir) ==
    /\ DOMAIN dir \subseteq Path /\ IsFiniteSet(DOMAIN dir)
    /\ dir \in [DOMAIN dir -> Entries]
    /\ \A p \in DOMAIN dir, q \in Path : Below(q, p) => IsDir(dir, q)

FolderType ==
    /\ Tree(test) /\ Tree(store)
    /\ testDir \in BOOLEAN /\ snapshotDir \in BOOLEAN
    /\ pc \in {"idle", "take", "make", "revert", "close"}
    /\ name \in Names \cup {<<>>}
    /\ faults \in 0 .. MaxFaults
    /\ complete \subseteq Names \cap DOMAIN store

\* What a method that is running relies on.
Running ==
    /\ pc \in {"take", "make", "revert"} =>
          snapshotDir /\ name \in Names \cap DOMAIN store
    /\ pc = "revert" => testDir
    /\ pc # "idle" => last = <<>>

\* TakeSnapshot's copy, halfway: under the name are the entries that the walk
\* has visited, and no snapshot that is complete is in there.
Taking ==
    pc = "take" =>
        /\ todo \subseteq {<<>>} \cup DOMAIN test
        /\ <<>> \in todo \cup DOMAIN test
        /\ store[name] = Dir
        /\ \A m \in complete : ~IsPrefix(name, m)
        /\ \A p \in Path : name \o p \in DOMAIN store
                              <=> p = <<>> \/ p \in DOMAIN test \ todo
        /\ \A p \in DOMAIN test \ todo : store[name \o p] = test[p]

\* RevertToSnapshot's copy, halfway: the test folder was removed and made
\* again, so nothing is in it but what the walk has visited.
Reverting ==
    pc = "revert" =>
        /\ todo \subseteq PathsBelow(store, name)
        /\ DOMAIN test = {<<>>} \cup (PathsBelow(store, name) \ todo)
        /\ test[<<>>] = Dir
        /\ \A p \in PathsBelow(store, name) \ todo : test[p] = store[name \o p]

FInv == FolderType /\ Running /\ Taking /\ Reverting /\ ClosedIsClean

-----------------------------------------------------------------------------
(* Paths *)

LEMMA PathFacts ==
  ASSUME NEW p \in Path
  PROVE  /\ Len(p) \in Nat /\ <<>> \in Path
         /\ \A i \in 1 .. Len(p) : p[i] \in Nat
         /\ p = <<>> <=> Len(p) = 0
<1>1. <<>> \in Path
  BY DEF Path
<1> QED BY <1>1 DEF Path

LEMMA SamePath ==
  ASSUME NEW p \in Path, NEW q \in Path, Len(p) = Len(q),
         \A i \in 1 .. Len(p) : p[i] = q[i]
  PROVE  p = q
BY DEF Path

LEMMA PrefixIndex ==
  ASSUME NEW p \in Path, NEW q \in Path
  PROVE  IsPrefix(p, q) <=> /\ Len(p) <= Len(q)
                            /\ \A i \in 1 .. Len(p) : p[i] = q[i]
<1>0. Len(p) \in Nat /\ Len(q) \in Nat
  BY DEF Path
<1> SUFFICES ASSUME Len(p) <= Len(q)
             PROVE  SubSeq(q, 1, Len(p)) = p <=> \A i \in 1 .. Len(p) : p[i] = q[i]
  BY DEF IsPrefix
<1>1. /\ SubSeq(q, 1, Len(p)) \in Path /\ Len(SubSeq(q, 1, Len(p))) = Len(p)
      /\ \A i \in 1 .. Len(p) : SubSeq(q, 1, Len(p))[i] = q[i]
  BY <1>0 DEF Path
<1> QED BY <1>0, <1>1, SamePath

\* The paths a path continues are ordered.
LEMMA PrefixOrder ==
  ASSUME NEW p \in Path, NEW q \in Path, NEW r \in Path
  PROVE  /\ IsPrefix(p, p) /\ IsPrefix(<<>>, p)
         /\ IsPrefix(p, <<>>) => p = <<>>
         /\ IsPrefix(p, q) /\ IsPrefix(q, r) => IsPrefix(p, r)
         /\ IsPrefix(p, q) /\ IsPrefix(q, p) => p = q
         /\ IsPrefix(p, r) /\ IsPrefix(q, r) => IsPrefix(p, q) \/ IsPrefix(q, p)
<1>0. Len(p) \in Nat /\ Len(q) \in Nat /\ Len(r) \in Nat /\ <<>> \in Path /\ Len(<<>>) = 0
  BY PathFacts
<1>1. IsPrefix(p, p) /\ IsPrefix(<<>>, p)
  BY <1>0, PrefixIndex
<1>2. IsPrefix(p, <<>>) => p = <<>>
  BY <1>0, PrefixIndex, PathFacts
<1>3. IsPrefix(p, q) /\ IsPrefix(q, r) => IsPrefix(p, r)
  BY <1>0, PrefixIndex
<1>4. IsPrefix(p, q) /\ IsPrefix(q, p) => p = q
  BY <1>0, PrefixIndex, SamePath
<1>5. IsPrefix(p, r) /\ IsPrefix(q, r) => IsPrefix(p, q) \/ IsPrefix(q, p)
  BY <1>0, PrefixIndex
<1> QED BY <1>1, <1>2, <1>3, <1>4, <1>5

\* All but the last name of a path.
LEMMA PathLength ==
  ASSUME NEW p \in Path, p # <<>>
  PROVE  /\ Parent(p) \in Path /\ Len(Parent(p)) = Len(p) - 1
         /\ \A i \in 1 .. Len(p) - 1 : Parent(p)[i] = p[i]
<1>0. Len(p) \in Nat /\ Len(p) # 0 /\ \A i \in 1 .. Len(p) : p[i] \in Nat
  BY PathFacts
<1> DEFINE n == Len(p) - 1
           parent == SubSeq(p, 1, n)
<1>1. 1 \in Int /\ n \in Nat /\ n \in Int /\ \A i \in 1 .. n : p[i] \in Nat
  BY <1>0
<1> HIDE DEF n
<1>2. /\ parent \in Seq(Nat)
      /\ Len(parent) = IF 1 <= n THEN n - 1 + 1 ELSE 0
      /\ \A i \in 1 .. n - 1 + 1 : parent[i] = p[1 + i - 1]
  BY <1>1, SubSeqProperties
<1> HIDE DEF parent
<1>3. Len(parent) = n
  BY <1>1, <1>2
<1>4. ASSUME NEW i \in 1 .. n PROVE parent[i] = p[i]
  <2>1. i \in 1 .. n - 1 + 1 /\ 1 + i - 1 = i
    BY <1>1
  <2> QED BY <1>2, <2>1, Zenon
<1>5. Parent(p) = parent
  BY DEF Parent, parent, n
<1> QED BY <1>2, <1>3, <1>4, <1>5, Zenon DEF Path, n

\* The folder a path is in.
LEMMA ParentFacts ==
  ASSUME NEW p \in Path, p # <<>>
  PROVE  /\ Parent(p) \in Path /\ Below(Parent(p), p)
         /\ \A q \in Path : Below(q, p) => IsPrefix(q, Parent(p))
<1>0. Len(p) \in Nat /\ Len(p) # 0
  BY PathFacts
<1>1. /\ Parent(p) \in Path /\ Len(Parent(p)) = Len(p) - 1
      /\ \A i \in 1 .. Len(p) - 1 : Parent(p)[i] = p[i]
  BY PathLength
<1>2. Below(Parent(p), p)
  BY <1>0, <1>1, PrefixIndex DEF Below
<1>3. ASSUME NEW q \in Path, Below(q, p)
      PROVE  IsPrefix(q, Parent(p))
  <2>1. Len(q) \in Nat /\ Len(q) <= Len(p) /\ \A i \in 1 .. Len(q) : q[i] = p[i]
    BY <1>3, PrefixIndex, PathFacts DEF Below
  <2>2. Len(q) # Len(p)
    BY <1>3, <2>1, SamePath DEF Below
  <2>3. Len(q) <= Len(p) - 1
    BY <1>0, <2>1, <2>2
  <2> QED BY <1>0, <1>1, <2>1, <2>3, PrefixIndex
<1> QED BY <1>1, <1>2, <1>3

\* The path of an entry of the folder at p, and the entry's path seen from it.
LEMMA JoinFacts ==
  ASSUME NEW p \in Path, NEW q \in Path
  PROVE  /\ p \o q \in Path /\ IsPrefix(p, p \o q) /\ p \o <<>> = p
         /\ SubSeq(p \o q, Len(p) + 1, Len(p \o q)) = q
         /\ p \o q = p <=> q = <<>>
<1>0. Len(p) \in Nat /\ Len(q) \in Nat /\ <<>> \in Path /\ Len(<<>>) = 0
  BY PathFacts
<1>1. /\ p \o q \in Path /\ Len(p \o q) = Len(p) + Len(q)
      /\ \A i \in 1 .. Len(p) : (p \o q)[i] = p[i]
      /\ \A i \in 1 .. Len(q) : (p \o q)[Len(p) + i] = q[i]
  BY <1>0 DEF Path
<1>2. IsPrefix(p, p \o q)
  <2> DEFINE j == p \o q
  <2>1. /\ j \in Path /\ Len(p) <= Len(j)
        /\ \A i \in 1 .. Len(p) : p[i] = j[i]
    BY <1>0, <1>1
  <2> HIDE DEF j
  <2>2. IsPrefix(p, j)
    BY <2>1, PrefixIndex
  <2> QED BY <2>2 DEF j
<1>3. p \o <<>> = p
  BY DEF Path
<1>4. SubSeq(p \o q, Len(p) + 1, Len(p \o q)) = q
  <2> DEFINE s == SubSeq(p \o q, Len(p) + 1, Len(p) + Len(q))
  <2>1. /\ s \in Path /\ Len(s) = Len(q)
        /\ \A i \in 1 .. Len(q) : s[i] = (p \o q)[Len(p) + i]
    BY <1>0, <1>1 DEF Path
  <2>2. s = q
    <3> HIDE DEF s
    <3> QED BY <1>1, <2>1, SamePath
  <2> QED BY <1>1, <2>2
<1>5. p \o q = p <=> q = <<>>
  <2>1. p \o q = p => Len(q) = 0
    BY <1>0, <1>1
  <2> QED BY <1>3, <2>1, PathFacts, Zenon
<1> QED BY <1>1, <1>2, <1>3, <1>4, <1>5

LEMMA RestFacts ==
  ASSUME NEW p \in Path, NEW q \in Path, IsPrefix(p, q)
  PROVE  /\ SubSeq(q, Len(p) + 1, Len(q)) \in Path
         /\ p \o SubSeq(q, Len(p) + 1, Len(q)) = q
<1>0. /\ Len(p) \in Nat /\ Len(q) \in Nat /\ Len(p) <= Len(q)
      /\ \A i \in 1 .. Len(p) : p[i] = q[i]
  BY PrefixIndex, PathFacts
<1> DEFINE s == SubSeq(q, Len(p) + 1, Len(q))
<1>1. /\ s \in Path /\ Len(s) = Len(q) - Len(p)
      /\ \A i \in 1 .. Len(s) : s[i] = q[Len(p) + i]
  BY <1>0 DEF Path
<1> HIDE DEF s
<1>2. /\ p \o s \in Path /\ Len(p \o s) = Len(q)
      /\ \A i \in 1 .. Len(p) : (p \o s)[i] = p[i]
      /\ \A i \in 1 .. Len(s) : (p \o s)[Len(p) + i] = s[i]
  BY <1>0, <1>1 DEF Path
<1>3. ASSUME NEW i \in 1 .. Len(q) PROVE (p \o s)[i] = q[i]
  <2>1. CASE i <= Len(p)
    BY <1>0, <1>2, <2>1
  <2>2. CASE ~(i <= Len(p))
    <3>1. i - Len(p) \in 1 .. Len(s) /\ Len(p) + (i - Len(p)) = i
      BY <1>0, <1>1, <2>2
    <3> QED BY <1>1, <1>2, <3>1
  <2> QED BY <2>1, <2>2, Zenon
<1>4. p \o s = q
  BY <1>2, <1>3, SamePath
<1> QED BY <1>1, <1>4 DEF s

\* Different paths in a folder stay different.
LEMMA JoinCancel ==
  ASSUME NEW p \in Path, NEW q \in Path, NEW r \in Path, p \o q = p \o r
  PROVE  q = r
<1>1. /\ SubSeq(p \o q, Len(p) + 1, Len(p \o q)) = q
      /\ SubSeq(p \o r, Len(p) + 1, Len(p \o r)) = r
  BY JoinFacts, Zenon
<1> QED BY <1>1, Zenon

\* The order of paths in a folder is that of their joins.
LEMMA JoinPrefix ==
  ASSUME NEW p \in Path, NEW q \in Path, NEW r \in Path
  PROVE  /\ IsPrefix(p \o q, p \o r) <=> IsPrefix(q, r)
         /\ r # <<>> => Parent(p \o r) = p \o Parent(r)
<1>0. Len(p) \in Nat /\ Len(q) \in Nat /\ Len(r) \in Nat
  BY PathFacts
<1>1. ASSUME NEW t \in Path
      PROVE  /\ p \o t \in Path /\ Len(p \o t) = Len(p) + Len(t) /\ Len(t) \in Nat
             /\ \A i \in 1 .. Len(p) : (p \o t)[i] = p[i]
             /\ \A i \in 1 .. Len(t) : (p \o t)[Len(p) + i] = t[i]
             /\ \A i \in Len(p) + 1 .. Len(p) + Len(t) : (p \o t)[i] = t[i - Len(p)]
  BY <1>0 DEF Path
<1>3. ASSUME IsPrefix(q, r) PROVE IsPrefix(p \o q, p \o r)
  <2>1. Len(q) <= Len(r) /\ \A i \in 1 .. Len(q) : q[i] = r[i]
    BY <1>3, PrefixIndex
  <2>2. ASSUME NEW i \in 1 .. Len(p) + Len(q) PROVE (p \o q)[i] = (p \o r)[i]
    <3>1. CASE i <= Len(p)
      BY <1>0, <1>1, <3>1
    <3>2. CASE ~(i <= Len(p))
      <4>1. i - Len(p) \in 1 .. Len(q) /\ i \in Len(p) + 1 .. Len(p) + Len(q)
            /\ i \in Len(p) + 1 .. Len(p) + Len(r)
        BY <1>0, <2>1, <3>2
      <4> QED BY <1>1, <2>1, <4>1
    <3> QED BY <3>1, <3>2, Zenon
  <2>3. Len(p) + Len(q) <= Len(p) + Len(r)
    BY <1>0, <2>1
  <2> QED BY <1>1, <2>2, <2>3, PrefixIndex
<1>4. ASSUME IsPrefix(p \o q, p \o r) PROVE IsPrefix(q, r)
  <2>1. /\ Len(p) + Len(q) <= Len(p) + Len(r)
        /\ \A i \in 1 .. Len(p) + Len(q) : (p \o q)[i] = (p \o r)[i]
    <3>1. p \o q \in Path /\ p \o r \in Path
      BY <1>1
    <3>2. /\ Len(p \o q) <= Len(p \o r)
          /\ \A i \in 1 .. Len(p \o q) : (p \o q)[i] = (p \o r)[i]
      BY <1>4, <3>1, PrefixIndex, Zenon
    <3> QED BY <1>1, <3>2, Zenon
  <2>2. Len(q) <= Len(r)
    BY <1>0, <2>1
  <2>3. ASSUME NEW i \in 1 .. Len(q) PROVE q[i] = r[i]
    <3>1. Len(p) + i \in 1 .. Len(p) + Len(q) /\ i \in 1 .. Len(r)
      BY <1>0, <2>2
    <3>2. (p \o q)[Len(p) + i] = q[i] /\ (p \o r)[Len(p) + i] = r[i]
      BY <1>1, <3>1
    <3> QED BY <2>1, <3>1, <3>2
  <2> QED BY <2>2, <2>3, PrefixIndex
<1>5. ASSUME r # <<>> PROVE Parent(p \o r) = p \o Parent(r)
  <2>0. Len(r) # 0
    BY <1>5, PathFacts
  <2>1. /\ Parent(r) \in Path /\ Len(Parent(r)) = Len(r) - 1
        /\ \A i \in 1 .. Len(r) - 1 : Parent(r)[i] = r[i]
    BY <1>5, PathLength
  <2>2. /\ Parent(p \o r) \in Path /\ Len(Parent(p \o r)) = Len(p) + Len(r) - 1
        /\ \A i \in 1 .. Len(p) + Len(r) - 1 : Parent(p \o r)[i] = (p \o r)[i]
    <3>1. p \o r \in Path /\ p \o r # <<>> /\ Len(p \o r) = Len(p) + Len(r)
      BY <1>0, <1>1, <2>0, PathFacts
    <3> DEFINE j == p \o r
    <3> HIDE DEF j
    <3>2. /\ Parent(j) \in Path /\ Len(Parent(j)) = Len(j) - 1
          /\ \A i \in 1 .. Len(j) - 1 : Parent(j)[i] = j[i]
      BY <3>1, PathLength DEF j
    <3>3. Len(j) = Len(p) + Len(r)
      BY <3>1 DEF j
    <3>4. /\ Parent(j) \in Path /\ Len(Parent(j)) = Len(p) + Len(r) - 1
          /\ \A i \in 1 .. Len(p) + Len(r) - 1 : Parent(j)[i] = j[i]
      BY <3>2, <3>3
    <3> QED BY <3>4 DEF j
  <2>3. /\ p \o Parent(r) \in Path /\ Len(p \o Parent(r)) = Len(p) + (Len(r) - 1)
    BY <1>1, <2>1
  <2>4. ASSUME NEW i \in 1 .. Len(p) + Len(r) - 1
        PROVE  (p \o Parent(r))[i] = (p \o r)[i]
    <3>1. CASE i <= Len(p)
      BY <1>0, <1>1, <2>1, <3>1
    <3>2. CASE ~(i <= Len(p))
      <4>1. /\ i - Len(p) \in 1 .. Len(r) - 1
            /\ i \in Len(p) + 1 .. Len(p) + Len(r)
            /\ i \in Len(p) + 1 .. Len(p) + Len(Parent(r))
        BY <1>0, <2>1, <3>2
      <4> QED BY <1>1, <2>1, <4>1
    <3> QED BY <3>1, <3>2, Zenon
  <2> QED BY <1>0, <2>2, <2>3, <2>4, SamePath
<1> QED BY <1>3, <1>4, <1>5

-----------------------------------------------------------------------------
(* The order of the walk *)

LEMMA LeastNumber ==
  ASSUME NEW T \in SUBSET Nat, T # {}
  PROVE  \E n \in T : \A m \in T : n <= m
<1> DEFINE R == OpToRel(<, Nat)
<1>1. IsWellFoundedOn(R, Nat)
  BY NatLessThanWellFounded
<1>2. \A m, n \in Nat : m < n => <<m, n>> \in R
  BY DEF OpToRel
<1> HIDE DEF R
<1>3. PICK n \in T : \A m \in T : ~(<<m, n>> \in R)
  BY <1>1, WFMin, Zenon
<1>4. ASSUME NEW m \in T PROVE n <= m
  <2>1. m \in Nat /\ n \in Nat
    OBVIOUS
  <2>2. ~(m < n)
    BY <1>2, <1>3, <2>1, Zenon
  <2> QED BY <2>1, <2>2
<1> QED BY <1>4

\* Where two paths first differ.
LEMMA FirstDifference ==
  ASSUME NEW p \in Path, NEW q \in Path, ~IsPrefix(p, q), ~IsPrefix(q, p)
  PROVE  \E i \in Nat : /\ i \in 1 .. Len(p) /\ i \in 1 .. Len(q) /\ p[i] # q[i]
                        /\ \A j \in 1 .. i - 1 : p[j] = q[j]
<1>0. Len(p) \in Nat /\ Len(q) \in Nat
  BY PathFacts
<1> DEFINE T == {i \in Nat : i \in 1 .. Len(p) /\ i \in 1 .. Len(q) /\ p[i] # q[i]}
<1>1. T # {}
  BY <1>0, PrefixIndex
<1>2. PICK i \in T : \A j \in T : i <= j
  BY <1>1, LeastNumber
<1>3. ASSUME NEW j \in 1 .. i - 1 PROVE p[j] = q[j]
  <2>1. j \in Nat /\ j \in 1 .. Len(p) /\ j \in 1 .. Len(q) /\ ~(i <= j)
    BY <1>0
  <2>2. j \notin T
    BY <1>2, <2>1
  <2> QED BY <2>1, <2>2
<1> QED BY <1>3

\* Before, by the places of two paths.
LEMMA BeforeIndex ==
  ASSUME NEW p \in Path, NEW q \in Path
  PROVE  Before(p, q) <=>
            \/ Below(p, q)
            \/ \E i \in Nat : /\ i \in 1 .. Len(p) /\ i \in 1 .. Len(q)
                              /\ p[i] < q[i]
                              /\ \A j \in 1 .. i - 1 : p[j] = q[j]
<1>0. /\ Len(p) \in Nat /\ Len(q) \in Nat
      /\ \A i \in 1 .. Len(p) : p[i] \in Nat
      /\ \A i \in 1 .. Len(q) : q[i] \in Nat
  BY PathFacts
<1>1. ASSUME NEW i \in Nat, i \in 1 .. Len(p), i \in 1 .. Len(q)
      PROVE  SubSeq(p, 1, i - 1) = SubSeq(q, 1, i - 1)
                <=> \A j \in 1 .. i - 1 : p[j] = q[j]
  <2> DEFINE n == i - 1
             a == SubSeq(p, 1, n)
             b == SubSeq(q, 1, n)
  <2>1. /\ 1 \in Int /\ n \in Nat /\ n \in Int
        /\ \A j \in 1 .. n : p[j] \in Nat /\ q[j] \in Nat
    BY <1>0, <1>1
  <2> HIDE DEF n
  <2>2. /\ a \in Seq(Nat) /\ Len(a) = IF 1 <= n THEN n - 1 + 1 ELSE 0
        /\ \A j \in 1 .. n - 1 + 1 : a[j] = p[1 + j - 1]
    BY <2>1, SubSeqProperties
  <2>3. /\ b \in Seq(Nat) /\ Len(b) = IF 1 <= n THEN n - 1 + 1 ELSE 0
        /\ \A j \in 1 .. n - 1 + 1 : b[j] = q[1 + j - 1]
    BY <2>1, SubSeqProperties
  <2> HIDE DEF a, b
  <2>4. /\ Len(a) = n /\ Len(b) = n
        /\ \A j \in 1 .. n : a[j] = p[j] /\ b[j] = q[j]
    <3>1. Len(a) = n /\ Len(b) = n
      BY <2>1, <2>2, <2>3
    <3>2. ASSUME NEW j \in 1 .. n PROVE a[j] = p[j] /\ b[j] = q[j]
      <4>1. j \in 1 .. n - 1 + 1 /\ 1 + j - 1 = j
        BY <2>1
      <4> QED BY <2>2, <2>3, <4>1, Zenon
    <3> QED BY <3>1, <3>2
  <2>5. a = b <=> \A j \in 1 .. n : p[j] = q[j]
    <3>1. ASSUME \A j \in 1 .. n : p[j] = q[j] PROVE a = b
      BY <2>2, <2>3, <2>4, <3>1, SamePath DEF Path
    <3>2. ASSUME a = b PROVE \A j \in 1 .. n : p[j] = q[j]
      BY <2>4, <3>2
    <3> QED BY <3>1, <3>2
  <2> QED BY <2>5 DEF a, b, n
<1> DEFINE Diff(i) == /\ i \in 1 .. Len(p) /\ i <= Len(q)
                      /\ SubSeq(p, 1, i - 1) = SubSeq(q, 1, i - 1)
                      /\ p[i] < q[i]
           Less(i) == /\ i \in 1 .. Len(p) /\ i \in 1 .. Len(q)
                      /\ p[i] < q[i]
                      /\ \A j \in 1 .. i - 1 : p[j] = q[j]
<1>2. \A i \in Nat : Diff(i) <=> Less(i)
  <2> TAKE i \in Nat
  <2>1. i \in 1 .. Len(p) /\ i <= Len(q) <=> i \in 1 .. Len(p) /\ i \in 1 .. Len(q)
    BY <1>0
  <2> QED BY <1>1, <2>1, Zenon
<1>3. \A i \in 1 .. Len(p) : i \in Nat
  BY <1>0
<1>4. Before(p, q) <=> Below(p, q) \/ \E i \in 1 .. Len(p) : Diff(i)
  BY Zenon DEF Before
<1> QED BY <1>2, <1>3, <1>4, Zenon

\* The walk's order is a total order of the paths.
LEMMA BeforeOrder ==
  ASSUME NEW p \in Path, NEW q \in Path, NEW r \in Path
  PROVE  /\ ~Before(p, p)
         /\ p # q => Before(p, q) \/ Before(q, p)
         /\ Before(p, q) /\ Before(q, r) => Before(p, r)
<1>0. /\ Len(p) \in Nat /\ Len(q) \in Nat /\ Len(r) \in Nat
      /\ \A i \in 1 .. Len(p) : p[i] \in Nat
      /\ \A i \in 1 .. Len(q) : q[i] \in Nat
      /\ \A i \in 1 .. Len(r) : r[i] \in Nat
  BY PathFacts
<1> DEFINE Less(s, t, i) == /\ i \in 1 .. Len(s) /\ i \in 1 .. Len(t)
                            /\ s[i] < t[i]
                            /\ \A j \in 1 .. i - 1 : s[j] = t[j]
<1>1. ~Before(p, p)
  BY <1>0, BeforeIndex DEF Below
<1>2. p # q => Before(p, q) \/ Before(q, p)
  <2>1. CASE IsPrefix(p, q) \/ IsPrefix(q, p)
    BY <2>1 DEF Before, Below
  <2>2. CASE ~IsPrefix(p, q) /\ ~IsPrefix(q, p)
    <3>1. PICK i \in Nat : /\ i \in 1 .. Len(p) /\ i \in 1 .. Len(q) /\ p[i] # q[i]
                           /\ \A j \in 1 .. i - 1 : p[j] = q[j]
      BY <2>2, FirstDifference
    <3>2. p[i] < q[i] \/ q[i] < p[i]
      BY <1>0, <3>1
    <3> QED BY <3>1, <3>2, BeforeIndex
  <2> QED BY <2>1, <2>2
<1>3. ASSUME Before(p, q), Before(q, r) PROVE Before(p, r)
  <2>1. CASE Below(p, q) /\ Below(q, r)
    <3>1. Below(p, r)
      BY <2>1, PrefixOrder DEF Below
    <3> QED BY <3>1 DEF Before
  <2>2. ASSUME Below(p, q), NEW i \in Nat, Less(q, r, i)
        PROVE  Before(p, r)
    <3>1. Len(p) <= Len(q) /\ \A j \in 1 .. Len(p) : p[j] = q[j]
      BY <2>2, PrefixIndex DEF Below
    <3>2. CASE i <= Len(p)
      <4>1. Less(p, r, i)
        BY <1>0, <2>2, <3>1, <3>2
      <4> QED BY <4>1, BeforeIndex
    <3>3. CASE ~(i <= Len(p))
      <4>1. Len(p) <= Len(r) /\ \A j \in 1 .. Len(p) : p[j] = r[j]
        BY <1>0, <2>2, <3>1, <3>3
      <4>2. IsPrefix(p, r) /\ Len(p) # Len(r)
        BY <1>0, <2>2, <3>3, <4>1, PrefixIndex
      <4> QED BY <4>2 DEF Before, Below
    <3> QED BY <3>2, <3>3, Zenon
  <2>3. ASSUME NEW i \in Nat, Less(p, q, i), Below(q, r)
        PROVE  Before(p, r)
    <3>1. Len(q) <= Len(r) /\ \A j \in 1 .. Len(q) : q[j] = r[j]
      BY <2>3, PrefixIndex DEF Below
    <3>2. Less(p, r, i)
      BY <1>0, <2>3, <3>1
    <3> QED BY <3>2, BeforeIndex
  <2>4. ASSUME NEW i \in Nat, Less(p, q, i), NEW k \in Nat, Less(q, r, k)
        PROVE  Before(p, r)
    <3>1. CASE i <= k
      <4>1. Less(p, r, i)
        BY <1>0, <2>4, <3>1
      <4> QED BY <4>1, BeforeIndex
    <3>2. CASE ~(i <= k)
      <4>1. Less(p, r, k)
        BY <1>0, <2>4, <3>2
      <4> QED BY <4>1, BeforeIndex
    <3> QED BY <3>1, <3>2, Zenon
  <2> QED BY <1>3, <2>1, <2>2, <2>3, <2>4, BeforeIndex
<1> QED BY <1>1, <1>2, <1>3

\* A finite set of paths has one that comes before the others: if it had not,
\* take a smallest such set and a path out of it.
LEMMA FirstPath ==
  ASSUME NEW T \in SUBSET Path, IsFiniteSet(T), T # {}
  PROVE  \E p \in T : \A q \in T \ {p} : Before(p, q)
<1> DEFINE HasFirst(U) == \E p \in U : \A q \in U \ {p} : Before(p, q)
           Bad == {U \in SUBSET T : U # {} /\ ~HasFirst(U)}
<1> SUFFICES ASSUME Bad # {} PROVE FALSE
  OBVIOUS
<1>1. IsWellFoundedOn(StrictSubsetOrdering(T), SUBSET T)
  BY FS_StrictSubsetOrderingWellFounded, FS_FiniteSubsetsOfFinite
<1>2. PICK U \in Bad : \A V \in Bad : ~(<<V, U>> \in StrictSubsetOrdering(T))
  <2>1. Bad \subseteq SUBSET T
    OBVIOUS
  <2> HIDE DEF Bad
  <2> QED BY <1>1, <2>1, WFMin, Zenon
<1>3. PICK p \in U : TRUE
  OBVIOUS
<1> DEFINE V == U \ {p}
<1>4. V \notin Bad
  <2>1. <<V, U>> \in StrictSubsetOrdering(T)
    BY DEF StrictSubsetOrdering
  <2> QED BY <1>2, <2>1
<1>5. V # {}
  <2>1. V = {} => HasFirst(U)
    OBVIOUS
  <2> QED BY <2>1
<1>6. PICK f \in V : \A q \in V \ {f} : Before(f, q)
  BY <1>4, <1>5
<1>7. p \in Path /\ f \in Path /\ f # p /\ U \subseteq Path
  OBVIOUS
<1>8. CASE Before(p, f)
  <2>1. ASSUME NEW q \in U \ {p} PROVE Before(p, q)
    BY <1>6, <1>7, <1>8, BeforeOrder
  <2> QED BY <1>3, <2>1
<1>9. CASE Before(f, p)
  <2>1. ASSUME NEW q \in U \ {f} PROVE Before(f, q)
    BY <1>6, <1>9
  <2> QED BY <1>6, <2>1
<1> QED BY <1>7, <1>8, <1>9, BeforeOrder

\* The walk goes to a path it has not visited, and to every folder before it
\* goes to what is in it.
LEMMA VisitedFacts ==
  ASSUME NEW T \in SUBSET Path, IsFiniteSet(T), T # {}
  PROVE  /\ Visited(T) \in T
         /\ \A q \in T : ~Below(q, Visited(T))
<1>1. /\ Visited(T) \in T
      /\ \A q \in T \ {Visited(T)} : Before(Visited(T), q)
  BY FirstPath DEF Visited
<1>2. ASSUME NEW q \in T, Below(q, Visited(T)) PROVE FALSE
  <2>1. Before(q, Visited(T)) /\ q # Visited(T)
    BY <1>2 DEF Before, Below
  <2>2. Before(Visited(T), q)
    BY <1>1, <2>1
  <2> QED BY <1>1, <2>1, <2>2, BeforeOrder
<1> QED BY <1>1, <1>2

-----------------------------------------------------------------------------
(* Folders *)

LEMMA TreeIsFolder ==
  ASSUME NEW dir, Tree(dir)
  PROVE  IsFolder(dir)
<1> SUFFICES ASSUME NEW p \in DOMAIN dir
             PROVE  dir[p] \in Entries /\ (p # <<>> => IsDir(dir, Parent(p)))
  BY DEF IsFolder
<1>1. p \in Path /\ dir[p] \in Entries
  BY DEF Tree
<1>2. p # <<>> => IsDir(dir, Parent(p))
  BY <1>1, ParentFacts DEF Tree
<1> QED BY <1>1, <1>2

LEMMA EmptyTrees == Tree(Nothing) /\ Tree(NewDir)
<1>1. DOMAIN Nothing = {} /\ DOMAIN NewDir = {<<>>} /\ NewDir[<<>>] = Dir
  BY DEF Nothing, NewDir
<1>2. IsFiniteSet({}) /\ IsFiniteSet({<<>>})
  BY FS_EmptySet, FS_Singleton
<1>3. <<>> \in Path
  BY DEF Path
<1>4. Nothing \in [{} -> Entries] /\ NewDir \in [{<<>>} -> Entries]
  BY DEF Nothing, NewDir, Entries
<1>5. \A q \in Path : ~Below(q, <<>>)
  BY <1>3, PrefixOrder DEF Below
<1> QED BY <1>1, <1>2, <1>3, <1>4, <1>5 DEF Tree

\* Nothing is in a folder that does not exist, or in a file.
LEMMA OnlyInDirs ==
  ASSUME NEW dir, Tree(dir), NEW p \in Path, ~IsDir(dir, p), NEW q \in DOMAIN dir
  PROVE  ~Below(p, q)
BY DEF Tree

\* An entry is put in a folder, and takes the place of none that has others
\* in it.
LEMMA PutTree ==
  ASSUME NEW dir, Tree(dir), NEW p \in Path, NEW entry \in Entries,
         p = <<>> \/ IsDir(dir, Parent(p)),
         entry = Dir \/ ~IsDir(dir, p)
  PROVE  Tree(Put(dir, p, entry))
<1> DEFINE new == Put(dir, p, entry)
<1>1. /\ DOMAIN new = DOMAIN dir \cup {p} /\ new[p] = entry
      /\ \A q \in DOMAIN dir \ {p} : new[q] = dir[q]
  BY DEF Put
<1>2. new \in [DOMAIN dir \cup {p} -> Entries]
  BY DEF Put, Tree
<1>3. DOMAIN new \subseteq Path /\ IsFiniteSet(DOMAIN new)
  BY <1>1, FS_AddElement DEF Tree
<1> HIDE DEF new
<1>4. ASSUME NEW q \in DOMAIN new, NEW r \in Path, Below(r, q)
      PROVE  IsDir(new, r)
  <2>1. IsDir(dir, r)
    <3>1. CASE q \in DOMAIN dir
      BY <1>4, <3>1 DEF Tree
    <3>2. CASE q = p
      <4>1. p # <<>>
        BY <1>4, <3>2, PrefixOrder DEF Below
      <4>2. Parent(p) \in DOMAIN dir /\ IsDir(dir, Parent(p)) /\ IsPrefix(r, Parent(p))
        BY <1>4, <3>2, <4>1, ParentFacts DEF IsDir
      <4> QED BY <4>2 DEF Tree, Below
    <3> QED BY <1>1, <3>1, <3>2
  <2>2. CASE r = p
    BY <1>1, <2>1, <2>2 DEF IsDir
  <2>3. CASE r # p
    BY <1>1, <2>1, <2>3 DEF IsDir
  <2> QED BY <2>2, <2>3
<1> QED BY <1>1, <1>2, <1>3, <1>4 DEF Tree, new

\* What is left of a folder is one when it keeps the way to all it keeps.
LEMMA PartTree ==
  ASSUME NEW dir, Tree(dir), NEW D \in SUBSET DOMAIN dir,
         \A p \in D, q \in DOMAIN dir : Below(q, p) => q \in D
  PROVE  Tree([p \in D |-> dir[p]])
<1> DEFINE new == [p \in D |-> dir[p]]
<1>1. DOMAIN new = D /\ \A p \in D : new[p] = dir[p]
  OBVIOUS
<1>2. new \in [D -> Entries]
  BY DEF Tree
<1>3. D \subseteq Path /\ IsFiniteSet(D)
  BY FS_Subset DEF Tree
<1> HIDE DEF new
<1>4. ASSUME NEW p \in D, NEW q \in Path, Below(q, p)
      PROVE  IsDir(new, q)
  BY <1>1, <1>4 DEF Tree, IsDir
<1> QED BY <1>1, <1>2, <1>3, <1>4 DEF Tree, new

LEMMA RemoveTree ==
  ASSUME NEW dir, Tree(dir), NEW p \in Path
  PROVE  Tree(WithoutAll(dir, p))
<1> DEFINE D == {q \in DOMAIN dir : ~IsPrefix(p, q)}
<1>1. ASSUME NEW q \in D, NEW r \in DOMAIN dir, Below(r, q)
      PROVE  r \in D
  <2>1. q \in Path /\ r \in Path
    BY DEF Tree
  <2> QED BY <1>1, <2>1, PrefixOrder DEF Below
<1>2. Tree([q \in D |-> dir[q]])
  <2>1. D \in SUBSET DOMAIN dir
    OBVIOUS
  <2> HIDE DEF D
  <2> QED BY <1>1, <2>1, PartTree
<1> QED BY <1>2 DEF WithoutAll

\* A removal that failed leaves a folder.
LEMMA LeftoversTree ==
  ASSUME NEW dir, Tree(dir), NEW new \in Leftovers(dir)
  PROVE  Tree(new)
<1>1. PICK p \in DOMAIN dir :
        new = [q \in {q \in DOMAIN dir : IsPrefix(p, q) \/ IsPrefix(q, p)} |-> dir[q]]
  BY DEF Leftovers
<1> DEFINE D == {q \in DOMAIN dir : IsPrefix(p, q) \/ IsPrefix(q, p)}
<1>2. ASSUME NEW q \in D, NEW r \in DOMAIN dir, Below(r, q)
      PROVE  r \in D
  <2>1. p \in Path /\ q \in Path /\ r \in Path
    BY DEF Tree
  <2>2. IsPrefix(p, q) => IsPrefix(p, r) \/ IsPrefix(r, p)
    BY <1>2, <2>1, PrefixOrder DEF Below
  <2>3. IsPrefix(q, p) => IsPrefix(r, p)
    BY <1>2, <2>1, PrefixOrder DEF Below
  <2> QED BY <2>2, <2>3
<1>3. Tree([q \in D |-> dir[q]])
  <2>1. D \in SUBSET DOMAIN dir
    OBVIOUS
  <2> HIDE DEF D
  <2> QED BY <1>2, <2>1, PartTree
<1> QED BY <1>1, <1>3

\* What is in a folder of a folder.
LEMMA SubFolderFacts ==
  ASSUME NEW dir, Tree(dir), NEW n \in Path
  PROVE  /\ PathsBelow(dir, n) = {q \in Path : n \o q \in DOMAIN dir}
         /\ DOMAIN SubFolder(dir, n) = PathsBelow(dir, n)
         /\ \A q \in PathsBelow(dir, n) : SubFolder(dir, n)[q] = dir[n \o q]
         /\ n \in DOMAIN dir <=> <<>> \in PathsBelow(dir, n)
         /\ Tree(SubFolder(dir, n))
<1>0. DOMAIN dir \subseteq Path /\ IsFiniteSet(DOMAIN dir)
  BY DEF Tree
<1> DEFINE In == {q \in Path : n \o q \in DOMAIN dir}
<1>1. PathsBelow(dir, n) = In
  <2>1. ASSUME NEW q \in DOMAIN dir, IsPrefix(n, q)
        PROVE  SubSeq(q, Len(n) + 1, Len(q)) \in In
    BY <1>0, <2>1, RestFacts
  <2>2. ASSUME NEW q \in In
        PROVE  \E r \in DOMAIN dir : IsPrefix(n, r) /\ q = SubSeq(r, Len(n) + 1, Len(r))
    <3>1. n \o q \in DOMAIN dir /\ IsPrefix(n, n \o q)
      BY JoinFacts
    <3>2. q = SubSeq(n \o q, Len(n) + 1, Len(n \o q))
      BY JoinFacts, Zenon
    <3> QED BY <3>1, <3>2, Zenon
  <2> HIDE DEF In
  <2> QED BY <2>1, <2>2, Zenon DEF PathsBelow
<1>2. /\ DOMAIN SubFolder(dir, n) = PathsBelow(dir, n)
      /\ \A q \in PathsBelow(dir, n) : SubFolder(dir, n)[q] = dir[n \o q]
  BY DEF SubFolder
<1>3. n \in DOMAIN dir <=> <<>> \in PathsBelow(dir, n)
  <2>1. n \o <<>> = n /\ <<>> \in Path
    BY JoinFacts, PathFacts
  <2> QED BY <1>1, <2>1
<1>4. IsFiniteSet(In)
  <2> DEFINE f == [q \in In |-> n \o q]
  <2>1. f \in [In -> DOMAIN dir]
    OBVIOUS
  <2>2. \A q, r \in In : n \o q = n \o r => q = r
    BY JoinCancel, Zenon
  <2>3. f \in Injection(In, DOMAIN dir)
    BY <2>1, <2>2 DEF Injection, IsInjective
  <2> HIDE DEF f, In
  <2> QED BY <1>0, <2>3, FS_Injection
<1>5. SubFolder(dir, n) \in [In -> Entries]
  BY <1>1 DEF SubFolder, Tree
<1>6. ASSUME NEW q \in In, NEW r \in Path, Below(r, q)
      PROVE  r \in In /\ dir[n \o r] = Dir
  <2>1. n \o q \in DOMAIN dir /\ n \o r \in Path /\ Below(n \o r, n \o q)
    <3>1. n \o r \in Path /\ IsPrefix(n \o r, n \o q) /\ n \o r # n \o q
      <4>1. n \o r \in Path /\ IsPrefix(r, q) /\ r # q /\ q \in Path
        BY <1>6, JoinFacts DEF Below
      <4>2. IsPrefix(n \o r, n \o q)
        BY <4>1, JoinPrefix
      <4>3. n \o r = n \o q => r = q
        BY <4>1, JoinCancel, Zenon
      <4> QED BY <4>1, <4>2, <4>3
    <3> QED BY <3>1 DEF Below
  <2> QED BY <2>1 DEF Tree, IsDir
<1>7. Tree(SubFolder(dir, n))
  <2>1. DOMAIN SubFolder(dir, n) = In /\ In \subseteq Path
    BY <1>1, <1>2
  <2>2. \A q \in In : SubFolder(dir, n)[q] = dir[n \o q]
    BY <1>1, <1>2
  <2>3. ASSUME NEW q \in In, NEW r \in Path, Below(r, q)
        PROVE  IsDir(SubFolder(dir, n), r)
    <3>1. r \in In /\ dir[n \o r] = Dir
      BY <1>6, <2>3
    <3> HIDE DEF In
    <3> QED BY <2>1, <2>2, <3>1 DEF IsDir
  <2> HIDE DEF In
  <2> QED BY <1>4, <1>5, <2>1, <2>3 DEF Tree
<1> QED BY <1>1, <1>2, <1>3, <1>7

\* Two stores that agree below a name have the same folder there.
LEMMA SameSubFolder ==
  ASSUME NEW old, Tree(old), NEW new, Tree(new), NEW n \in Path,
         \A q \in Path : IsPrefix(n, q) => /\ q \in DOMAIN new <=> q \in DOMAIN old
                                           /\ q \in DOMAIN old => new[q] = old[q]
  PROVE  SubFolder(new, n) = SubFolder(old, n)
<1>1. \A q \in Path : n \o q \in Path /\ IsPrefix(n, n \o q)
  BY JoinFacts
<1>2. PathsBelow(new, n) = PathsBelow(old, n)
  <2>1. /\ PathsBelow(new, n) = {q \in Path : n \o q \in DOMAIN new}
        /\ PathsBelow(old, n) = {q \in Path : n \o q \in DOMAIN old}
    BY SubFolderFacts, Zenon
  <2> QED BY <1>1, <2>1
<1>3. \A q \in PathsBelow(old, n) : new[n \o q] = old[n \o q]
  BY <1>1, SubFolderFacts
<1> QED BY <1>2, <1>3, Zenon DEF SubFolder

-----------------------------------------------------------------------------
(* The steps *)

LEMMA NamesArePaths ==
  /\ Names \subseteq Path /\ Paths \subseteq Path /\ <<>> \in Path
  /\ <<>> \notin Names /\ <<>> \notin Paths /\ MaxFaults \in Nat
BY PathAssumption, PathFacts DEF Path

LEMMA InitFInv == Init => FInv
<1> SUFFICES ASSUME Init PROVE FInv
  OBVIOUS
<1>1. FolderType
  <2>1. Tree(test) /\ Tree(store)
    BY EmptyTrees DEF Init
  <2>2. 0 \in 0 .. MaxFaults
    BY NamesArePaths
  <2> QED BY <2>1, <2>2 DEF Init, FolderType
<1> QED BY <1>1 DEF Init, FInv, Running, Taking, Reverting, ClosedIsClean

\* A step that ends a method, or takes it no further than the removal of the
\* test folder.
LEMMA QuietFInv ==
  ASSUME FInv, Tree(test'), Tree(store'),
         UNCHANGED <<testDir, snapshotDir, complete>>,
         faults' = faults \/ (faults < MaxFaults /\ faults' = faults + 1),
         pc' \in {"idle", "make"}, name' \in Names \cup {<<>>},
         pc' = "make" => snapshotDir /\ name' \in Names \cap DOMAIN store' /\ last' = <<>>,
         DOMAIN store \subseteq DOMAIN store',
         ~testDir => DOMAIN test' = {},
         ~snapshotDir => DOMAIN store' = {}
  PROVE  FInv'
<1>1. faults' \in 0 .. MaxFaults
  BY NamesArePaths DEF FInv, FolderType
<1>2. FolderType'
  BY <1>1 DEF FInv, FolderType
<1>3. Running' /\ Taking' /\ Reverting' /\ ClosedIsClean'
  BY DEF Running, Taking, Reverting, ClosedIsClean
<1> QED BY <1>2, <1>3 DEF FInv

\* What the test does to its folder leaves a folder.
LEMMA UseFInv ==
  ASSUME FInv, NEW p \in Paths,
         \/ \E content \in Contents : WriteFile(p, content)
         \/ MakeDir(p) \/ MakeLink(p) \/ Remove(p)
  PROVE  /\ FInv' /\ pc = "idle" /\ last' = <<>>
         /\ UNCHANGED <<store, complete>>
<1>0. p \in Path /\ p # <<>> /\ Tree(test)
  BY NamesArePaths DEF FInv, FolderType
<1>1. PICK dir : UseTestDir(dir) /\ Tree(dir)
  <2>1. ASSUME NEW entry \in Entries, entry = Dir \/ ~IsDir(test, p),
               IsDir(test, Parent(p))
        PROVE  Tree(Put(test, p, entry))
    BY <1>0, <2>1, PutTree
  <2>2. ASSUME NEW content \in Contents, WriteFile(p, content)
        PROVE  \E dir : UseTestDir(dir) /\ Tree(dir)
    <3>1. File(content) \in Entries
      BY DEF Entries
    <3> QED BY <2>1, <2>2, <3>1 DEF WriteFile
  <2>3. CASE MakeDir(p)
    <3>1. Dir \in Entries
      BY DEF Entries
    <3> QED BY <2>1, <2>3, <3>1 DEF MakeDir
  <2>4. CASE MakeLink(p)
    <3>1. Irregular \in Entries
      BY DEF Entries
    <3>2. ~IsDir(test, p)
      BY <2>4 DEF MakeLink, IsDir
    <3> QED BY <2>1, <2>4, <3>1, <3>2 DEF MakeLink
  <2>5. CASE Remove(p)
    BY <1>0, <2>5, RemoveTree DEF Remove
  <2> QED BY <2>2, <2>3, <2>4, <2>5
<1>2. /\ pc = "idle" /\ pc' = pc /\ testDir /\ Tree(test') /\ last' = <<>>
      /\ UNCHANGED <<store, testDir, snapshotDir, name, faults, complete>>
  BY <1>1 DEF UseTestDir
<1>3. FInv'
  BY <1>2, QuietFInv DEF FInv, FolderType, ClosedIsClean
<1> QED BY <1>2, <1>3

\* The folder of a new snapshot is empty, and no complete one is in it.
LEMMA TakeFInv ==
  ASSUME FInv, NEW n \in Names, TakeSnapshot(n)
  PROVE  /\ FInv' /\ last' = <<>> /\ UNCHANGED <<test, complete>>
         /\ store' = store \/ (n \notin DOMAIN store /\ store' = Put(store, n, Dir))
<1>0. /\ n \in Path /\ n # <<>> /\ Tree(store) /\ Tree(test)
      /\ pc = "idle" /\ snapshotDir /\ n \notin DOMAIN store /\ IsDir(store, Parent(n))
      /\ complete \subseteq Names \cap DOMAIN store
      /\ DOMAIN store \subseteq Path
  BY NamesArePaths DEF FInv, FolderType, TakeSnapshot, Tree
<1>1. CASE Fault /\ UNCHANGED <<test, store>>
  <2>1. FInv'
    BY <1>0, <1>1, QuietFInv DEF Fault, Return, Goto, FInv, FolderType, ClosedIsClean
  <2> QED BY <1>1, <2>1 DEF Fault, Return, Goto
<1>2. CASE /\ store' = Put(store, n, Dir)
           /\ Goto("take", n, {<<>>} \cup DOMAIN test)
           /\ last' = <<>>
           /\ UNCHANGED <<test, faults>>
  <2>1. Dir \in Entries
    BY DEF Entries
  <2>2. Tree(store')
    BY <1>0, <1>2, <2>1, PutTree
  <2>3. DOMAIN store' = DOMAIN store \cup {n} /\ store'[n] = Dir
    BY <1>2 DEF Put
  <2>4. FolderType'
    BY <1>0, <1>2, <2>2, <2>3 DEF FInv, FolderType, Goto
  <2>5. Running' /\ Reverting' /\ ClosedIsClean'
    BY <1>0, <1>2, <2>3 DEF FInv, Running, Reverting, ClosedIsClean, Goto
  <2>6. ASSUME NEW p \in DOMAIN store PROVE ~IsPrefix(n, p)
    <3>1. ~IsDir(store, n) /\ p # n
      BY <1>0 DEF IsDir
    <3> QED BY <1>0, <3>1, OnlyInDirs DEF Below
  <2>7. \A p \in Path : n \o p \in DOMAIN store' <=> p = <<>>
    <3> TAKE p \in Path
    <3>1. IsPrefix(n, n \o p) /\ (n \o p = n <=> p = <<>>)
      BY <1>0, JoinFacts
    <3> QED BY <2>3, <2>6, <3>1
  <2>8. Taking'
    <3>1. /\ name' = n /\ todo' = {<<>>} \cup DOMAIN test /\ test' = test
          /\ complete' = complete
      BY <1>2 DEF Goto
    <3>2. DOMAIN test \ todo' = {}
      BY <3>1
    <3>3. \A m \in complete : ~IsPrefix(n, m)
      BY <1>0, <2>6
    <3> QED BY <2>3, <2>7, <3>1, <3>2, <3>3 DEF Taking
  <2>9. FInv'
    BY <2>4, <2>5, <2>8 DEF FInv
  <2> QED BY <1>0, <1>2, <2>9 DEF Goto
<1> QED BY <1>1, <1>2 DEF TakeSnapshot

LEMMA RevertFInv ==
  ASSUME FInv, NEW n \in Names, RevertToSnapshot(n)
  PROVE  FInv' /\ last' = <<>> /\ UNCHANGED <<store, complete>>
<1>0. /\ Tree(test) /\ Tree(store) /\ snapshotDir /\ n \in DOMAIN store
  BY DEF FInv, FolderType, RevertToSnapshot
<1>1. CASE /\ test' = Nothing
           /\ Goto("make", n, {})
           /\ last' = <<>>
           /\ UNCHANGED <<store, faults>>
  <2>1. Tree(test') /\ DOMAIN test' = {}
    BY <1>1, EmptyTrees DEF Nothing
  <2>2. FInv'
    BY <1>0, <1>1, <2>1, QuietFInv DEF Goto
  <2> QED BY <1>1, <2>2 DEF Goto
<1>2. CASE /\ testDir
           /\ test' \in Leftovers(test)
           /\ Fault
           /\ UNCHANGED store
  <2>1. Tree(test')
    BY <1>0, <1>2, LeftoversTree
  <2>2. FInv'
    BY <1>0, <1>2, <2>1, QuietFInv DEF Fault, Return, Goto
  <2> QED BY <1>2, <2>2 DEF Fault, Return, Goto
<1> QED BY <1>1, <1>2 DEF RevertToSnapshot

\* The folder that the snapshot is copied into is new and empty.
LEMMA MakeFInv ==
  ASSUME FInv, MakeTestDir
  PROVE  FInv' /\ last' = <<>> /\ UNCHANGED <<store, complete>>
<1>0. /\ Tree(test) /\ Tree(store) /\ pc = "make" /\ last = <<>>
      /\ snapshotDir /\ name \in Names \cap DOMAIN store /\ name \in Path
  BY NamesArePaths DEF FInv, FolderType, Running, MakeTestDir
<1>1. CASE /\ testDir
           /\ test' = NewDir
           /\ Goto("revert", name, PathsBelow(store, name))
           /\ UNCHANGED <<store, faults, last>>
  <2>1. Tree(test') /\ DOMAIN test' = {<<>>} /\ test'[<<>>] = Dir
    BY <1>1, EmptyTrees DEF NewDir
  <2>2. FolderType'
    BY <1>0, <1>1, <2>1 DEF FInv, FolderType, Goto
  <2>3. Running' /\ Taking' /\ ClosedIsClean'
    BY <1>0, <1>1 DEF FInv, Running, Taking, ClosedIsClean, Goto
  <2>4. Reverting'
    BY <1>1, <2>1 DEF Reverting, Goto
  <2>5. FInv'
    BY <2>2, <2>3, <2>4 DEF FInv
  <2> QED BY <1>0, <1>1, <2>5 DEF Goto
<1>2. CASE UNCHANGED <<test, store>> /\ (Fault \/ (Return(<<>>) /\ UNCHANGED faults))
  <2>1. FInv'
    BY <1>0, <1>2, QuietFInv DEF Fault, Return, Goto, FInv, ClosedIsClean
  <2> QED BY <1>2, <2>1 DEF Fault, Return, Goto
<1> QED BY <1>1, <1>2 DEF MakeTestDir

\* What the copy starts from, whichever way it goes.
LEMMA CopyTypes ==
  ASSUME FInv, pc \in {"take", "revert"}
  PROVE  /\ name \in Path /\ name # <<>> /\ name \in DOMAIN store
         /\ Tree(test) /\ Tree(store) /\ Tree(Source)
         /\ DOMAIN test \subseteq Path /\ DOMAIN store \subseteq Path
         /\ IsDir(store, Parent(name))
         /\ todo \subseteq Path /\ IsFiniteSet(todo)
<1>1. /\ name \in Path /\ name # <<>> /\ name \in DOMAIN store
      /\ Tree(test) /\ Tree(store)
      /\ DOMAIN test \subseteq Path /\ DOMAIN store \subseteq Path
  BY NamesArePaths DEF FInv, FolderType, Running, Tree
<1>2. IsDir(store, Parent(name))
  BY <1>1, ParentFacts DEF Tree
<1>3. Tree(SubFolder(store, name))
  BY <1>1, SubFolderFacts
<1>4. todo \subseteq Path /\ IsFiniteSet(todo)
  <2>1. CASE pc = "take"
    <3>1. todo \subseteq DOMAIN test \cup {<<>>}
      BY <2>1 DEF FInv, Taking
    <3>2. IsFiniteSet(DOMAIN test \cup {<<>>}) /\ <<>> \in Path
      BY <1>1, FS_AddElement, PathFacts DEF Tree
    <3> QED BY <1>1, <3>1, <3>2, FS_Subset
  <2>2. CASE pc = "revert"
    <3>1. todo \subseteq DOMAIN SubFolder(store, name)
      BY <1>1, <2>2, SubFolderFacts DEF FInv, Reverting
    <3> QED BY <1>3, <3>1, FS_Subset DEF Tree
  <2> QED BY <2>1, <2>2
<1> QED BY <1>1, <1>2, <1>3, <1>4 DEF Source

\* The path that the walk goes to, and the folder it is in.
LEMMA CopyNext ==
  ASSUME FInv, pc \in {"take", "revert"}, todo # {}, NEW p, p = Visited(todo),
         ~Unsupported(p)
  PROVE  /\ p \in todo /\ p \in Path /\ p \in DOMAIN Source
         /\ Source[p] \in Entries /\ (p = <<>> => Source[p] = Dir)
         /\ p # <<>> => /\ Parent(p) \in Path /\ Parent(p) \in DOMAIN Source \ todo
                        /\ Source[Parent(p)] = Dir
<1>1. p \in todo /\ \A q \in todo : ~Below(q, p)
  BY CopyTypes, VisitedFacts
<1>2. p \in Path /\ Tree(Source)
  BY <1>1, CopyTypes
<1>3. p \in DOMAIN Source /\ (p = <<>> => Source[p] = Dir)
  BY DEF Unsupported
<1>4. Source[p] \in Entries
  BY <1>2, <1>3 DEF Tree
<1>5. ASSUME p # <<>>
      PROVE  /\ Parent(p) \in Path /\ Parent(p) \in DOMAIN Source \ todo
             /\ Source[Parent(p)] = Dir
  <2>1. Parent(p) \in Path /\ Below(Parent(p), p)
    BY <1>2, <1>5, ParentFacts
  <2>2. IsDir(Source, Parent(p))
    BY <1>2, <1>3, <2>1 DEF Tree
  <2> QED BY <1>1, <2>1, <2>2 DEF IsDir
<1> QED BY <1>1, <1>2, <1>3, <1>4, <1>5

\* An entry is copied into a folder that the walk has copied before.
LEMMA TakePut ==
  ASSUME FInv, pc = "take", todo # {}, NEW p, p = Visited(todo), ~Unsupported(p),
         NEW entry \in Entries, entry = Dir \/ test[p] # Dir
  PROVE  /\ Tree(Put(store, name \o p, entry))
         /\ name \o p \in Path /\ IsPrefix(name, name \o p)
         /\ name \o p = name => p = <<>> /\ entry = Dir
<1>0. /\ p \in todo /\ p \in Path /\ p \in DOMAIN test
      /\ (p = <<>> => test[p] = Dir)
      /\ p # <<>> => /\ Parent(p) \in Path /\ Parent(p) \in DOMAIN test \ todo
                     /\ test[Parent(p)] = Dir
  BY CopyNext DEF Source
<1>1. /\ name \in Path /\ name # <<>> /\ name \in DOMAIN store /\ Tree(store)
      /\ IsDir(store, Parent(name))
  BY CopyTypes
<1>2. /\ store[name] = Dir
      /\ \A q \in Path : name \o q \in DOMAIN store
                            <=> q = <<>> \/ q \in DOMAIN test \ todo
      /\ \A q \in DOMAIN test \ todo : store[name \o q] = test[q]
  BY DEF FInv, Taking
<1>3. /\ name \o p \in Path /\ IsPrefix(name, name \o p)
      /\ name \o p = name <=> p = <<>>
  BY <1>0, <1>1, JoinFacts, Zenon
<1>4. IsDir(store, Parent(name \o p)) /\ (entry = Dir \/ ~IsDir(store, name \o p))
  <2>1. CASE p = <<>>
    BY <1>0, <1>1, <1>3, <2>1
  <2>2. CASE p # <<>>
    <3>1. Parent(name \o p) = name \o Parent(p)
      BY <1>0, <1>1, <2>2, JoinPrefix, Zenon
    <3>2. name \o Parent(p) \in DOMAIN store /\ store[name \o Parent(p)] = Dir
      BY <1>0, <1>2, <2>2, Zenon
    <3>3. name \o p \notin DOMAIN store
      BY <1>0, <1>2, <2>2
    <3> QED BY <3>1, <3>2, <3>3, Zenon DEF IsDir
  <2> QED BY <2>1, <2>2, Zenon
<1> DEFINE j == name \o p
<1> HIDE DEF j
<1>5. j \in Path /\ IsDir(store, Parent(j)) /\ (entry = Dir \/ ~IsDir(store, j))
  BY <1>3, <1>4, Zenon DEF j
<1>6. Tree(Put(store, j, entry))
  BY <1>1, <1>5, PutTree
<1> QED BY <1>0, <1>3, <1>6, Zenon DEF j

LEMMA RevertPut ==
  ASSUME FInv, pc = "revert", todo # {}, NEW p, p = Visited(todo), ~Unsupported(p),
         NEW entry \in Entries, entry = Dir \/ Source[p] # Dir
  PROVE  Tree(Put(test, p, entry))
<1>0. /\ p \in todo /\ p \in Path /\ p \in DOMAIN Source
      /\ (p = <<>> => Source[p] = Dir)
      /\ p # <<>> => /\ Parent(p) \in Path /\ Parent(p) \in DOMAIN Source \ todo
                     /\ Source[Parent(p)] = Dir
  BY CopyNext
<1>1. Tree(test) /\ Tree(store) /\ name \in Path
  BY CopyTypes
<1>2. /\ DOMAIN Source = PathsBelow(store, name)
      /\ \A q \in PathsBelow(store, name) : Source[q] = store[name \o q]
  BY <1>1, SubFolderFacts DEF Source
<1>3. /\ DOMAIN test = {<<>>} \cup (PathsBelow(store, name) \ todo)
      /\ \A q \in PathsBelow(store, name) \ todo : test[q] = store[name \o q]
  BY DEF FInv, Reverting
<1>4. p = <<>> \/ (IsDir(test, Parent(p)) /\ p \notin DOMAIN test)
  BY <1>0, <1>2, <1>3 DEF IsDir
<1>5. p = <<>> => entry = Dir
  BY <1>0
<1> QED BY <1>0, <1>1, <1>4, <1>5, PutTree DEF IsDir

\* One step of the copy to the snapshot folder, of the whole entry.
LEMMA TakeCopy ==
  ASSUME FInv, pc = "take", todo # {}, NEW p, p = Visited(todo), ~Unsupported(p),
         Write(p, Source[p]), Goto(pc, name, todo \ {p}), UNCHANGED <<faults, last>>
  PROVE  FInv'
<1>0. /\ p \in todo /\ p \in Path /\ p \in DOMAIN test /\ test[p] \in Entries
  BY CopyNext DEF Source
<1>1. /\ name \in Path /\ name \in DOMAIN store /\ DOMAIN test \subseteq Path
      /\ Tree(store)
  BY CopyTypes
<1>2. /\ store' = Put(store, name \o p, test[p]) /\ test' = test
      /\ pc' = pc /\ name' = name /\ todo' = todo \ {p} /\ faults' = faults
      /\ last' = last /\ UNCHANGED <<testDir, snapshotDir, complete>>
  BY DEF Write, Source, Goto
<1>3. /\ Tree(store') /\ name \o p \in Path
      /\ name \o p = name => p = <<>> /\ test[p] = Dir
  BY <1>0, <1>2, TakePut, Zenon
<1>4. /\ DOMAIN store' = DOMAIN store \cup {name \o p}
      /\ store'[name \o p] = test[p]
      /\ \A q \in DOMAIN store \ {name \o p} : store'[q] = store[q]
  <2> DEFINE j == name \o p
             entry == test[p]
  <2> HIDE DEF j, entry
  <2>1. store' = Put(store, j, entry)
    BY <1>2 DEF j, entry
  <2>2. /\ DOMAIN store' = DOMAIN store \cup {j} /\ store'[j] = entry
        /\ \A q \in DOMAIN store \ {j} : store'[q] = store[q]
    BY <2>1 DEF Put
  <2> QED BY <2>2 DEF j, entry
<1>5. FolderType' /\ Running' /\ Reverting' /\ ClosedIsClean'
  <2>1. FolderType'
    BY <1>2, <1>3, <1>4 DEF FInv, FolderType
  <2>2. Running' /\ Reverting' /\ ClosedIsClean'
    BY <1>2, <1>4 DEF FInv, Running, Reverting, ClosedIsClean
  <2> QED BY <2>1, <2>2
<1>6. Taking'
  <2>0. /\ todo \subseteq {<<>>} \cup DOMAIN test
        /\ store[name] = Dir
        /\ \A m \in complete : ~IsPrefix(name, m)
        /\ \A q \in Path : name \o q \in DOMAIN store
                              <=> q = <<>> \/ q \in DOMAIN test \ todo
        /\ \A q \in DOMAIN test \ todo : store[name \o q] = test[q]
        /\ <<>> \in todo \cup DOMAIN test
    BY DEF FInv, Taking
  <2>1. \A q \in Path : name \o q = name \o p => q = p
    BY <1>0, <1>1, JoinCancel, Zenon
  <2>2. store'[name] = Dir
    BY <1>1, <1>3, <1>4, <2>0
  <2>3. ASSUME NEW q \in Path
        PROVE  name \o q \in DOMAIN store'
                  <=> q = <<>> \/ q \in DOMAIN test \ (todo \ {p})
    <3>1. name \o q \in DOMAIN store' <=> name \o q \in DOMAIN store \/ q = p
      BY <1>4, <2>1
    <3>2. name \o q \in DOMAIN store <=> q = <<>> \/ q \in DOMAIN test \ todo
      BY <2>0, Zenon
    <3> QED BY <1>0, <3>1, <3>2
  <2>4. ASSUME NEW q \in DOMAIN test \ (todo \ {p})
        PROVE  store'[name \o q] = test[q]
    <3>1. CASE q = p
      BY <1>4, <3>1
    <3>2. CASE q # p
      <4>1. q \in Path /\ q \in DOMAIN test \ todo /\ name \o q # name \o p
        BY <1>1, <2>1, <3>2
      <4>2. name \o q \in DOMAIN store /\ store[name \o q] = test[q]
        BY <2>0, <4>1, Zenon
      <4>3. name \o q \in DOMAIN store \ {name \o p}
        BY <4>1, <4>2
      <4> QED BY <1>4, <4>2, <4>3
    <3> QED BY <3>1, <3>2
  <2>5. todo' \subseteq {<<>>} \cup DOMAIN test' /\ <<>> \in todo' \cup DOMAIN test'
    BY <1>0, <1>2, <2>0
  <2> QED BY <1>2, <2>0, <2>2, <2>3, <2>4, <2>5, Zenon DEF Taking
<1> QED BY <1>5, <1>6 DEF FInv

LEMMA RevertCopy ==
  ASSUME FInv, pc = "revert", todo # {}, NEW p, p = Visited(todo), ~Unsupported(p),
         Write(p, Source[p]), Goto(pc, name, todo \ {p}), UNCHANGED <<faults, last>>
  PROVE  FInv'
<1>0. /\ p \in todo /\ p \in Path /\ p \in DOMAIN Source /\ Source[p] \in Entries
      /\ p = <<>> => Source[p] = Dir
  BY CopyNext
<1>1. Tree(store) /\ name \in Path
  BY CopyTypes
<1>2. /\ test' = Put(test, p, Source[p]) /\ store' = store
      /\ pc' = pc /\ name' = name /\ todo' = todo \ {p} /\ faults' = faults
      /\ last' = last /\ UNCHANGED <<testDir, snapshotDir, complete>>
  BY DEF Write, Goto
<1>3. Tree(test')
  BY <1>0, <1>2, RevertPut DEF Source
<1>4. /\ DOMAIN test' = DOMAIN test \cup {p} /\ test'[p] = Source[p]
      /\ \A q \in DOMAIN test \ {p} : test'[q] = test[q]
  BY <1>2 DEF Put
<1>5. FolderType' /\ Running' /\ Taking' /\ ClosedIsClean'
  <2>1. FolderType'
    BY <1>2, <1>3 DEF FInv, FolderType
  <2>2. testDir /\ snapshotDir
    BY DEF FInv, Running
  <2>3. Running' /\ Taking' /\ ClosedIsClean'
    BY <1>2, <2>2 DEF FInv, Running, Taking, ClosedIsClean
  <2> QED BY <2>1, <2>3
<1>6. Reverting'
  <2>1. /\ DOMAIN Source = PathsBelow(store, name)
        /\ \A q \in PathsBelow(store, name) : Source[q] = store[name \o q]
    BY <1>1, SubFolderFacts DEF Source
  <2>2. /\ todo \subseteq PathsBelow(store, name)
        /\ DOMAIN test = {<<>>} \cup (PathsBelow(store, name) \ todo)
        /\ test[<<>>] = Dir
        /\ \A q \in PathsBelow(store, name) \ todo : test[q] = store[name \o q]
    BY DEF FInv, Reverting
  <2>3. DOMAIN test' = {<<>>} \cup (PathsBelow(store, name) \ (todo \ {p}))
    BY <1>0, <1>4, <2>1, <2>2
  <2>4. test'[<<>>] = Dir
    BY <1>0, <1>4, <2>2
  <2>5. ASSUME NEW q \in PathsBelow(store, name) \ (todo \ {p})
        PROVE  test'[q] = store[name \o q]
    <3>1. CASE q = p
      BY <1>0, <1>4, <2>1, <3>1
    <3>2. CASE q # p
      <4>1. q \in PathsBelow(store, name) \ todo /\ q \in DOMAIN test \ {p}
        BY <2>2, <3>2
      <4> QED BY <1>4, <2>2, <4>1
    <3> QED BY <3>1, <3>2
  <2> QED BY <1>2, <2>2, <2>3, <2>4, <2>5, Zenon DEF Reverting
<1> QED BY <1>5, <1>6 DEF FInv

\* A copy that stops leaves both folders as trees, with part of an entry at
\* the most.
LEMMA CopyFInv ==
  ASSUME FInv, CopyEntry
  PROVE  /\ FInv' /\ last' = <<>> /\ UNCHANGED complete
         /\ \/ store' = store
            \/ pc = "take" /\ \E p \in Path, entry \in Entries :
                                  store' = Put(store, name \o p, entry)
<1> DEFINE p == Visited(todo)
<1>0. pc \in {"take", "revert"} /\ todo # {}
  BY DEF CopyEntry
<1>1. /\ Tree(test) /\ Tree(store) /\ name \in DOMAIN store /\ snapshotDir
      /\ pc = "revert" => testDir
      /\ last = <<>>
  BY <1>0, CopyTypes DEF FInv, Running
<1>2. ~Unsupported(p) => p \in Path /\ p \in todo /\ Source[p] \in Entries
  BY <1>0, CopyNext
<1> HIDE DEF p
<1>3. CASE ~Unsupported(p) /\ Write(p, Source[p]) /\ Goto(pc, name, todo \ {p})
           /\ UNCHANGED <<faults, last>>
  <2>1. FInv'
    BY <1>0, <1>3, TakeCopy, RevertCopy DEF p
  <2>2. \/ store' = store
        \/ pc = "take" /\ store' = Put(store, name \o p, Source[p])
    BY <1>3 DEF Write
  <2> QED BY <1>1, <1>2, <1>3, <2>1, <2>2, Zenon DEF Goto
<1>4. CASE /\ Fault \/ (Return(<<>>) /\ UNCHANGED faults)
           /\ UNCHANGED <<test, store>>
  <2>1. FInv'
    BY <1>1, <1>4, QuietFInv DEF Fault, Return, Goto, FInv, ClosedIsClean
  <2> QED BY <1>4, <2>1 DEF Fault, Return, Goto
<1>5. CASE ~Unsupported(p) /\ Fault /\ Source[p] # Dir /\ Write(p, File(Part))
  <2>0. File(Part) \in Entries
    BY DEF Entries
  <2>1. CASE pc = "take"
    <3>1. test' = test /\ store' = Put(store, name \o p, File(Part))
      BY <1>5, <2>1 DEF Write
    <3>2. Tree(store')
      BY <1>0, <1>5, <2>0, <2>1, <3>1, TakePut, Zenon DEF Source, p
    <3>3. DOMAIN store \subseteq DOMAIN store'
      BY <3>1 DEF Put
    <3>4. FInv'
      BY <1>1, <1>5, <3>1, <3>2, <3>3, QuietFInv
         DEF Fault, Return, Goto, FInv, ClosedIsClean
    <3> QED BY <1>2, <1>5, <2>0, <2>1, <3>1, <3>4, Zenon DEF Fault, Return, Goto
  <2>2. CASE pc = "revert"
    <3>1. store' = store /\ test' = Put(test, p, File(Part))
      BY <1>5, <2>2 DEF Write
    <3>2. Tree(test')
      BY <1>0, <1>5, <2>0, <2>2, <3>1, RevertPut DEF p
    <3>3. FInv'
      BY <1>1, <1>5, <2>2, <3>1, <3>2, QuietFInv
         DEF Fault, Return, Goto
    <3> QED BY <1>5, <3>1, <3>3 DEF Fault, Return, Goto
  <2> QED BY <1>0, <2>1, <2>2
<1>6. \/ ~Unsupported(p) /\ Write(p, Source[p]) /\ Goto(pc, name, todo \ {p})
         /\ UNCHANGED <<faults, last>>
      \/ /\ Fault \/ (Return(<<>>) /\ UNCHANGED faults)
         /\ UNCHANGED <<test, store>>
      \/ ~Unsupported(p) /\ Fault /\ Source[p] # Dir /\ Write(p, File(Part))
  BY Zenon DEF CopyEntry, p
<1> QED BY <1>3, <1>4, <1>5, <1>6, Zenon

\* When nothing is left to visit, the copy is the folder it was made from.
LEMMA DoneFInv ==
  ASSUME FInv, CopyDone
  PROVE  /\ FInv' /\ UNCHANGED <<test, store>> /\ name \in Names
         /\ pc = "take" => SubFolder(store, name) = test
         /\ pc = "revert" => test = SubFolder(store, name)
<1>0. /\ pc \in {"take", "revert"} /\ todo = {} /\ name \in Names \cap DOMAIN store
      /\ Tree(test) /\ Tree(store) /\ name \in Path /\ DOMAIN test \subseteq Path
  BY CopyTypes DEF CopyDone, FInv, Running
<1>1. /\ DOMAIN SubFolder(store, name) = {q \in Path : name \o q \in DOMAIN store}
      /\ \A q \in DOMAIN SubFolder(store, name) :
            SubFolder(store, name)[q] = store[name \o q]
      /\ PathsBelow(store, name) = DOMAIN SubFolder(store, name)
      /\ <<>> \in PathsBelow(store, name)
  <2>1. /\ PathsBelow(store, name) = {q \in Path : name \o q \in DOMAIN store}
        /\ DOMAIN SubFolder(store, name) = PathsBelow(store, name)
        /\ \A q \in PathsBelow(store, name) :
              SubFolder(store, name)[q] = store[name \o q]
        /\ name \in DOMAIN store <=> <<>> \in PathsBelow(store, name)
    BY <1>0, SubFolderFacts, Zenon
  <2> QED BY <1>0, <2>1, Zenon
<1>2. pc = "take" \/ pc = "revert" => DOMAIN test = DOMAIN SubFolder(store, name)
  BY <1>0, <1>1 DEF FInv, Taking, Reverting
<1>3. \A q \in DOMAIN test : test[q] = SubFolder(store, name)[q]
  <2>1. CASE pc = "take"
    BY <1>0, <1>1, <1>2, <2>1 DEF FInv, Taking
  <2>2. CASE pc = "revert"
    BY <1>0, <1>1, <1>2, <2>2 DEF FInv, Reverting
  <2> QED BY <1>0, <2>1, <2>2
<1>4. test = SubFolder(store, name)
  <2>1. test = [q \in DOMAIN test |-> test[q]]
    BY <1>0 DEF Tree
  <2>2. SubFolder(store, name) = [q \in DOMAIN test |-> SubFolder(store, name)[q]]
    BY <1>0, <1>1, <1>2 DEF SubFolder
  <2> QED BY <1>3, <2>1, <2>2, Zenon
<1>5. FInv'
  <2>1. complete' \subseteq Names \cap DOMAIN store'
    BY <1>0 DEF CopyDone, FInv, FolderType
  <2>2. FolderType'
    BY <1>0, <2>1 DEF CopyDone, FInv, FolderType
  <2>3. Running' /\ Taking' /\ Reverting' /\ ClosedIsClean'
    BY <1>0 DEF CopyDone, FInv, Running, Taking, Reverting, ClosedIsClean
  <2> QED BY <2>2, <2>3 DEF FInv
<1> QED BY <1>0, <1>4, <1>5 DEF CopyDone

LEMMA CloseTestFInv ==
  ASSUME FInv, CloseTestDir
  PROVE  FInv' /\ last' = <<>> /\ UNCHANGED <<store, complete>>
<1>0. Tree(test) /\ Tree(store) /\ pc = "idle" /\ testDir /\ last' = <<>> /\ store' = store
  BY DEF FInv, FolderType, CloseTestDir
<1>1. CASE test' \in Leftovers(test) /\ Fault
  <2>1. Tree(test')
    BY <1>0, <1>1, LeftoversTree
  <2>2. FInv'
    BY <1>0, <1>1, <2>1, QuietFInv DEF Fault, Return, Goto, FInv, ClosedIsClean
  <2> QED BY <1>0, <1>1, <2>2 DEF Fault, Return, Goto
<1>2. CASE /\ test' = Nothing
           /\ testDir' = FALSE
           /\ pc' = "close"
           /\ UNCHANGED <<snapshotDir, name, todo, faults, complete>>
  <2>1. Tree(test') /\ DOMAIN test' = {}
    BY <1>2, EmptyTrees DEF Nothing
  <2>2. FolderType'
    BY <1>0, <1>2, <2>1 DEF FInv, FolderType
  <2>3. Running' /\ Taking' /\ Reverting' /\ ClosedIsClean'
    BY <1>0, <1>2, <2>1 DEF FInv, Running, Taking, Reverting, ClosedIsClean
  <2> QED BY <1>0, <1>2, <2>2, <2>3 DEF FInv
<1> QED BY <1>0, <1>1, <1>2 DEF CloseTestDir

LEMMA CloseSnapshotFInv ==
  ASSUME FInv, CloseSnapshotDir
  PROVE  FInv' /\ complete' = {} /\ last' = <<>>
<1>0. /\ Tree(test) /\ Tree(store) /\ snapshotDir /\ test' = test /\ last' = <<>>
      /\ faults \in 0 .. MaxFaults /\ testDir' = testDir /\ name' = name
      /\ pc' = "idle" /\ complete' = {} /\ (~testDir => DOMAIN test = {})
  BY DEF FInv, FolderType, ClosedIsClean, CloseSnapshotDir
<1>1. /\ Tree(store') /\ snapshotDir' \in BOOLEAN /\ faults' \in 0 .. MaxFaults
      /\ (~snapshotDir' => DOMAIN store' = {})
  <2>1. CASE store' = Nothing /\ snapshotDir' = FALSE /\ faults' = faults
    BY <1>0, <2>1, EmptyTrees DEF Nothing
  <2>2. CASE /\ store' \in Leftovers(store) /\ snapshotDir' = snapshotDir
             /\ faults < MaxFaults /\ faults' = faults + 1
    BY <1>0, <2>2, LeftoversTree, NamesArePaths
  <2> QED BY <2>1, <2>2 DEF CloseSnapshotDir
<1>2. FolderType'
  BY <1>0, <1>1 DEF FInv, FolderType
<1>3. Running' /\ Taking' /\ Reverting' /\ ClosedIsClean'
  BY <1>0, <1>1 DEF Running, Taking, Reverting, ClosedIsClean
<1> QED BY <1>0, <1>2, <1>3 DEF FInv

LEMMA NextFInv == FInv /\ [Next]_vars => FInv'
<1> SUFFICES ASSUME FInv, [Next]_vars PROVE FInv'
  OBVIOUS
<1>1. ASSUME NEW p \in Paths,
             \/ \E content \in Contents : WriteFile(p, content)
             \/ MakeDir(p) \/ MakeLink(p) \/ Remove(p)
      PROVE  FInv'
  BY <1>1, UseFInv
<1>2. ASSUME NEW n \in Names, TakeSnapshot(n) PROVE FInv'
  BY <1>2, TakeFInv
<1>3. ASSUME NEW n \in Names, RevertToSnapshot(n) PROVE FInv'
  BY <1>3, RevertFInv
<1>4. CASE MakeTestDir
  BY <1>4, MakeFInv
<1>5. CASE CopyEntry
  BY <1>5, CopyFInv
<1>6. CASE CopyDone
  BY <1>6, DoneFInv
<1>7. CASE CloseTestDir
  BY <1>7, CloseTestFInv
<1>8. CASE CloseSnapshotDir
  BY <1>8, CloseSnapshotFInv
<1>9. CASE UNCHANGED vars
  BY <1>9 DEF vars, FInv, FolderType, Running, Taking, Reverting, ClosedIsClean
<1> QED BY <1>1, <1>2, <1>3, <1>4, <1>5, <1>6, <1>7, <1>8, <1>9 DEF Next

\* The folders, and each copy halfway, are as FInv says, in every state.
THEOREM Invariance == Spec => []FInv
BY InitFInv, NextFInv, PTL DEF Spec

\* Whatever call fails, in the walk or in a removal, both folders stay file
\* trees, and a method that runs has a snapshot folder (manager.go:50-175).
THEOREM TypeCorrect == Spec => []TypeOK
<1>1. FInv => TypeOK
  <2> SUFFICES ASSUME FInv PROVE TypeOK
    OBVIOUS
  <2>1. IsFolder(test) /\ IsFolder(store)
    BY TreeIsFolder DEF FInv, FolderType
  <2> QED BY <2>1 DEF TypeOK, FInv, FolderType, Running
<1> QED BY <1>1, Invariance, PTL

\* Close, in one attempt or in several (manager.go:50-70), leaves nothing of a
\* folder whose name it has cleared, and nothing is made there again.
THEOREM CleanCorrect == Spec => []ClosedIsClean
<1>1. FInv => ClosedIsClean
  BY DEF FInv
<1> QED BY <1>1, Invariance, PTL

-----------------------------------------------------------------------------
(* The refinement: what the snapshot folders hold is a store. *)

\* An entry that is put elsewhere leaves a snapshot's folder as it is.
LEMMA PutElsewhere ==
  ASSUME NEW dir, Tree(dir), NEW j \in Path, NEW entry, Tree(Put(dir, j, entry)),
         NEW n \in Path, ~IsPrefix(n, j)
  PROVE  SubFolder(Put(dir, j, entry), n) = SubFolder(dir, n)
<1> DEFINE new == Put(dir, j, entry)
<1>1. \A q \in Path : IsPrefix(n, q) => /\ q \in DOMAIN new <=> q \in DOMAIN dir
                                        /\ q \in DOMAIN dir => new[q] = dir[q]
  BY DEF Put
<1> HIDE DEF new
<1>2. Tree(new)
  BY DEF new
<1>3. SubFolder(new, n) = SubFolder(dir, n)
  BY <1>1, <1>2, SameSubFolder
<1> QED BY <1>3 DEF new

\* No step but CloseSnapshotDir reaches the folder of a complete snapshot.
LEMMA CopiesKept ==
  ASSUME FInv, [Next]_vars, ~CloseSnapshotDir,
         NEW m \in complete, Separate(m)
  PROVE  SubFolder(store', m) = SubFolder(store, m)
<1>0. /\ m \in Path /\ m \in Names /\ m \in DOMAIN store /\ Tree(store)
      /\ Tree(store')
      /\ \A n \in Names : ~Below(m, n)
  BY NamesArePaths, NextFInv DEF FInv, FolderType, Separate
<1>1. ASSUME NEW n \in Names, TakeSnapshot(n)
      PROVE  SubFolder(store', m) = SubFolder(store, m)
  <2>1. store' = store \/ (n \notin DOMAIN store /\ store' = Put(store, n, Dir))
    BY <1>1, TakeFInv
  <2>2. CASE n \notin DOMAIN store /\ store' = Put(store, n, Dir)
    <3>1. n \in Path /\ ~IsPrefix(m, n)
      BY <1>0, <2>2, NamesArePaths DEF Below
    <3> QED BY <1>0, <2>2, <3>1, PutElsewhere
  <2> QED BY <2>1, <2>2
<1>2. CASE CopyEntry
  <2>1. \/ store' = store
        \/ pc = "take" /\ \E p \in Path, entry \in Entries :
                              store' = Put(store, name \o p, entry)
    BY <1>2, CopyFInv
  <2>2. ASSUME pc = "take", NEW p \in Path, NEW entry \in Entries,
               store' = Put(store, name \o p, entry)
        PROVE  SubFolder(store', m) = SubFolder(store, m)
    <3>1. name \in Path /\ name \in Names /\ ~IsPrefix(name, m)
      BY <2>2, NamesArePaths DEF FInv, Running, Taking
    <3>2. ~IsPrefix(m, name)
      BY <1>0, <3>1 DEF Below
    <3>3. name \o p \in Path /\ IsPrefix(name, name \o p)
      BY <3>1, JoinFacts
    <3> DEFINE j == name \o p
    <3> HIDE DEF j
    <3>4. j \in Path /\ IsPrefix(name, j) /\ store' = Put(store, j, entry)
      BY <2>2, <3>3 DEF j
    <3>5. ~IsPrefix(m, j)
      BY <1>0, <3>1, <3>2, <3>4, PrefixOrder
    <3> QED BY <1>0, <3>4, <3>5, PutElsewhere
  <2> QED BY <2>1, <2>2
<1>3. ASSUME ~CopyEntry, \A n \in Names : ~TakeSnapshot(n)
      PROVE  store' = store
  <2>1. \A p \in Paths : \/ \E content \in Contents : WriteFile(p, content)
                         \/ MakeDir(p) \/ MakeLink(p) \/ Remove(p)
                         => store' = store
    BY UseFInv
  <2>2. \A n \in Names : RevertToSnapshot(n) => store' = store
    BY RevertFInv
  <2>3. MakeTestDir => store' = store
    BY MakeFInv
  <2>4. CopyDone => store' = store
    BY DEF CopyDone
  <2>5. CloseTestDir => store' = store
    BY DEF CloseTestDir
  <2> QED BY <1>3, <2>1, <2>2, <2>3, <2>4, <2>5 DEF Next, vars
<1> QED BY <1>1, <1>2, <1>3, Zenon

\* Only CopyDone says that a call returned nil, and only it and
\* CloseSnapshotDir change which copies there are.
LEMMA QuietSteps ==
  ASSUME FInv, [Next]_vars, ~CopyDone, ~CloseSnapshotDir, ~UNCHANGED vars
  PROVE  last' = <<>> /\ complete' = complete
<1>1. ASSUME NEW p \in Paths,
             \/ \E content \in Contents : WriteFile(p, content)
             \/ MakeDir(p) \/ MakeLink(p) \/ Remove(p)
      PROVE  last' = <<>> /\ complete' = complete
  BY <1>1, UseFInv
<1>2. ASSUME NEW n \in Names, TakeSnapshot(n)
      PROVE  last' = <<>> /\ complete' = complete
  BY <1>2, TakeFInv
<1>3. ASSUME NEW n \in Names, RevertToSnapshot(n)
      PROVE  last' = <<>> /\ complete' = complete
  BY <1>3, RevertFInv
<1>4. CASE MakeTestDir
  BY <1>4, MakeFInv
<1>5. CASE CopyEntry
  BY <1>5, CopyFInv
<1>6. CASE CloseTestDir
  BY <1>6, CloseTestFInv
<1> QED BY <1>1, <1>2, <1>3, <1>4, <1>5, <1>6 DEF Next

\* The copies, and the call that is shown, of the mapping in Store.
Shown == {n \in complete : Separate(n)}
Saved == [n \in Shown |-> SubFolder(store, n)]
Returned == IF last # <<>> /\ Separate(last[2]) /\ last[2] \in complete
            THEN last ELSE <<>>

LEMMA StepRefines == FInv /\ [Next]_vars => FInv' /\ [Store!Next]_Store!vars
<1> SUFFICES ASSUME FInv, [Next]_vars
             PROVE  FInv' /\ [Store!Next]_Store!vars
  OBVIOUS
<1>0. FInv'
  BY NextFInv
<1>1. CASE UNCHANGED vars
  <2>1. UNCHANGED <<test, Saved, Returned>>
    BY <1>1 DEF vars, Saved, Shown, Returned
  <2> QED BY <1>0, <2>1 DEF Store!vars, Saved, Shown, Returned
<1>2. CASE CloseSnapshotDir
  <2>1. complete' = {} /\ last' = <<>>
    BY <1>2, CloseSnapshotFInv
  <2>2. DOMAIN Saved' = {} /\ Returned' = <<>>
    BY <2>1 DEF Saved, Shown, Returned
  <2>3. Store!Close
    BY <2>2 DEF Store!Close, Saved, Shown, Returned
  <2> QED BY <1>0, <2>3 DEF Store!Next
<1>3. ASSUME ~CloseSnapshotDir, complete' = complete, Returned' = <<>>
      PROVE  Store!Change
  <2>1. \A n \in Shown : SubFolder(store', n) = SubFolder(store, n)
    BY <1>3, CopiesKept DEF Shown
  <2>2. Saved' = Saved
    BY <1>3, <2>1 DEF Saved, Shown
  <2> QED BY <1>3, <2>2 DEF Store!Change, Saved, Shown, Returned
<1>4. CASE ~CopyDone /\ ~CloseSnapshotDir /\ ~UNCHANGED vars
  <2>1. complete' = complete /\ Returned' = <<>>
    BY <1>4, QuietSteps DEF Returned
  <2> QED BY <1>0, <1>3, <1>4, <2>1 DEF Store!Next
<1>5. CASE CopyDone /\ pc = "take"
  <2>1. /\ name \in Names /\ SubFolder(store, name) = test
        /\ UNCHANGED <<test, store>>
    BY <1>5, DoneFInv
  <2>2. complete' = complete \cup {name} /\ last' = <<"TakeSnapshot", name>>
    BY <1>5 DEF CopyDone
  <2>3. CASE Separate(name)
    <3>1. Shown' = Shown \cup {name}
      BY <2>2, <2>3 DEF Shown
    <3>2. Returned' = <<"TakeSnapshot", name>>
      BY <2>2, <2>3 DEF Returned
    <3>3. Saved' = [m \in DOMAIN Saved \cup {name} |->
                      IF m = name THEN test ELSE Saved[m]]
      BY <2>1, <3>1 DEF Saved
    <3>4. Store!TakeSnapshot(name)
      BY <2>1, <3>2, <3>3 DEF Store!TakeSnapshot, Saved, Shown, Returned
    <3> QED BY <1>0, <2>1, <2>3, <3>4 DEF Store!Next
  <2>4. CASE ~Separate(name)
    <3>1. Returned' = <<>> /\ Shown' = Shown
      BY <2>2, <2>4 DEF Returned, Shown
    <3>2. Saved' = Saved
      BY <2>1, <3>1 DEF Saved
    <3>3. Store!Change
      BY <3>1, <3>2 DEF Store!Change, Saved, Shown, Returned
    <3> QED BY <1>0, <3>3 DEF Store!Next
  <2> QED BY <2>3, <2>4
<1>6. CASE CopyDone /\ pc = "revert"
  <2>1. /\ name \in Names /\ test = SubFolder(store, name)
        /\ UNCHANGED <<test, store>>
    BY <1>6, DoneFInv
  <2>2. complete' = complete /\ last' = <<"RevertToSnapshot", name>>
    BY <1>6 DEF CopyDone
  <2>3. Saved' = Saved
    BY <2>1, <2>2 DEF Saved, Shown
  <2>4. CASE name \in Shown
    <3>1. Returned' = <<"RevertToSnapshot", name>> /\ name \in DOMAIN Saved
          /\ test' = Saved[name]
      BY <2>1, <2>2, <2>4 DEF Returned, Saved, Shown
    <3>2. Store!RevertToSnapshot(name)
      BY <2>3, <3>1 DEF Store!RevertToSnapshot, Saved, Shown, Returned
    <3> QED BY <1>0, <2>1, <2>4, <3>2 DEF Store!Next, Shown
  <2>5. CASE name \notin Shown
    <3>1. Returned' = <<>>
      BY <2>2, <2>5 DEF Returned, Shown
    <3>2. Store!Change
      BY <2>3, <3>1 DEF Store!Change, Saved, Shown, Returned
    <3> QED BY <1>0, <3>2 DEF Store!Next
  <2> QED BY <2>4, <2>5
<1>7. CopyDone => pc = "take" \/ pc = "revert"
  BY DEF CopyDone
<1> QED BY <1>1, <1>2, <1>4, <1>5, <1>6, <1>7

LEMMA InitRefines == Init => FInv /\ Store!Init
<1>1. Init => FInv
  BY InitFInv
<1>2. Init => Store!Init
  BY DEF Init, Store!Init
<1> QED BY <1>1, <1>2

\* For every set of names, and whichever calls fail, TakeSnapshot and
\* RevertToSnapshot (manager.go:72-126) are single steps of a snapshot store
\* as far as separate names go: a copy that was taken whole stays as it was
\* taken, and comes back whole.
THEOREM FilesIsStore == Spec => IsStore
BY InitRefines, StepRefines, PTL DEF Spec, IsStore, Store!Spec

=============================================================================

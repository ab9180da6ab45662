----------------------------- MODULE Filesystem -----------------------------
(***************************************************************************)
(* FilesystemManager (filesystem/manager.go): the test folder, and under   *)
(* the snapshot folder one folder per snapshot.  A folder's content is a   *)
(* function from the paths in it, sequences of numbers because Walk goes   *)
(* through the names of a folder in order, to what is there; the empty     *)
(* path is the folder itself.  A snapshot's name is a path too: it is      *)
(* joined to that of the snapshot folder.                                  *)
(*                                                                         *)
(* Every file system call is a step, and may fail up to MaxFaults times.   *)
(* Permissions are left out.                                               *)
(***************************************************************************)
EXTENDS Integers, Sequences

CONSTANTS
    Paths,      \* where the test may put files and folders
    Names,      \* snapshot names
    Contents,   \* contents the test writes
    MaxFaults   \* bound on failing calls

ASSUME PathAssumption ==
    /\ Paths \subseteq Seq(Nat) \ {<<>>}
    /\ Names \subseteq Seq(Nat) \ {<<>>}
    /\ MaxFaults \in Nat

VARIABLES
    test,          \* the test folder; without the empty path it does not exist
    store,         \* the snapshot folder
    testDir,       \* m.testDir is not ""
    snapshotDir,   \* m.snapshotDir is not ""
    pc,            \* the next call of the method that runs, or "idle"
    name,          \* the method's argument
    todo,          \* the paths Walk has still to visit
    faults,        \* failing calls so far
    complete,      \* history: names whose TakeSnapshot returned nil
    last           \* the snapshot call that returned nil in this step

vars == <<test, store, testDir, snapshotDir, pc, name, todo, faults, complete,
          last>>

-----------------------------------------------------------------------------
(* Folders *)

Nothing == [p \in {} |-> p]
Dir == [kind |-> "dir"]
File(content) == [kind |-> "file", content |-> content]
Irregular == [kind |-> "irregular"]

\* What io.Copy leaves when it stops.
Part == "part"

NewDir == [p \in {<<>>} |-> Dir]

IsPrefix(p, q) == Len(p) <= Len(q) /\ SubSeq(q, 1, Len(p)) = p
Below(p, q) == IsPrefix(p, q) /\ p # q
Parent(p) == SubSeq(p, 1, Len(p) - 1)

Put(dir, p, entry) ==
    [q \in DOMAIN dir \cup {p} |-> IF q = p THEN entry ELSE dir[q]]
WithoutAll(dir, p) ==
    [q \in {q \in DOMAIN dir : ~IsPrefix(p, q)} |-> dir[q]]

\* The paths in the folder at p, and what is there, seen from it.
PathsBelow(dir, p) ==
    {SubSeq(q, Len(p) + 1, Len(q)) : q \in {q \in DOMAIN dir : IsPrefix(p, q)}}
SubFolder(dir, p) == [q \in PathsBelow(dir, p) |-> dir[p \o q]]

IsDir(dir, p) == p \in DOMAIN dir /\ dir[p] = Dir

\* Walk visits a folder before what is in it, and names in order.
Before(p, q) ==
    \/ Below(p, q)
    \/ \E i \in 1 .. Len(p) : /\ i <= Len(q)
                              /\ SubSeq(p, 1, i - 1) = SubSeq(q, 1, i - 1)
                              /\ p[i] < q[i]

\* Mutant: the order of the names alone, deepest first.
VisitedLast(paths) ==
    CHOOSE p \in paths : \A q \in paths \ {p} : Before(q, p)

Visited(paths) == CHOOSE p \in paths : \A q \in paths \ {p} : Before(p, q)

Init ==
    /\ test = NewDir /\ testDir = TRUE
    /\ store = NewDir /\ snapshotDir = TRUE
    /\ pc = "idle" /\ name = <<>> /\ todo = {}
    /\ faults = 0
    /\ complete = {}
    /\ last = <<>>

-----------------------------------------------------------------------------
(* The test uses its folder between two calls of the manager. *)

UseTestDir(dir) ==
    /\ pc = "idle" /\ testDir
    /\ test' = dir
    /\ last' = <<>>
    /\ UNCHANGED <<store, testDir, snapshotDir, pc, name, todo, faults,
                   complete>>

WriteFile(p, content) ==
    /\ IsDir(test, Parent(p)) /\ ~IsDir(test, p)
    /\ UseTestDir(Put(test, p, File(content)))

MakeDir(p) ==
    /\ IsDir(test, Parent(p)) /\ p \notin DOMAIN test
    /\ UseTestDir(Put(test, p, Dir))

MakeLink(p) ==
    /\ IsDir(test, Parent(p)) /\ p \notin DOMAIN test
    /\ UseTestDir(Put(test, p, Irregular))

Remove(p) ==
    /\ p \in DOMAIN test
    /\ UseTestDir(WithoutAll(test, p))

-----------------------------------------------------------------------------
(* The methods of the manager *)

Goto(next, n, visit) ==
    /\ pc' = next /\ name' = n /\ todo' = visit
    /\ UNCHANGED <<testDir, snapshotDir, complete>>

Return(call) ==
    /\ Goto("idle", <<>>, {})
    /\ last' = call

\* The method returns the error of a call, which may have had some effect.
Fault ==
    /\ faults < MaxFaults
    /\ faults' = faults + 1
    /\ Return(<<>>)

\* What is left when RemoveAll fails at a path: that, with all that is in it,
\* and the folders it is in.
Leftovers(dir) ==
    {[q \in {q \in DOMAIN dir : IsPrefix(p, q) \/ IsPrefix(q, p)} |-> dir[q]] :
        p \in DOMAIN dir}

\* An existing name is an error, as is a name in a folder that does not
\* exist.
TakeSnapshot(n) ==
    /\ pc = "idle" /\ snapshotDir
    /\ n \notin DOMAIN store /\ IsDir(store, Parent(n))
    /\ \/ /\ store' = Put(store, n, Dir)
          /\ Goto("take", n, {<<>>} \cup DOMAIN test)
          /\ last' = <<>>
          /\ UNCHANGED <<test, faults>>
       \/ Fault /\ UNCHANGED <<test, store>>

\* Mutant: the test folder is kept, and the copy goes over it.
RevertOver(n) ==
    /\ pc = "idle" /\ snapshotDir
    /\ n \in DOMAIN store
    /\ Goto("revert", n, PathsBelow(store, n))
    /\ last' = <<>>
    /\ UNCHANGED <<test, store, faults>>

\* A name that does not exist is an error.  With m.testDir = "" RemoveAll
\* does nothing.
RevertToSnapshot(n) ==
    /\ pc = "idle" /\ snapshotDir
    /\ n \in DOMAIN store
    /\ \/ /\ test' = Nothing
          /\ Goto("make", n, {})
          /\ last' = <<>>
          /\ UNCHANGED <<store, faults>>
       \/ /\ testDir
          /\ test' \in Leftovers(test)
          /\ Fault
          /\ UNCHANGED store

\* Mkdir of the empty name fails.
MakeTestDir ==
    /\ pc = "make"
    /\ \/ /\ testDir
          /\ test' = NewDir
          /\ Goto("revert", name, PathsBelow(store, name))
          /\ UNCHANGED <<store, faults, last>>
       \/ /\ ~testDir
          /\ Return(<<>>)
          /\ UNCHANGED <<test, store, faults>>
       \/ Fault /\ UNCHANGED <<test, store>>

-----------------------------------------------------------------------------
(* copyDirectory, from the test folder or to it *)

Source == IF pc = "take" THEN test ELSE SubFolder(store, name)

\* What the walker makes of an entry, with this content in a file.
Write(p, entry) ==
    IF pc = "take" THEN /\ store' = Put(store, name \o p, entry)
                        /\ UNCHANGED test
                   ELSE /\ test' = Put(test, p, entry)
                        /\ UNCHANGED store

\* An entry that cannot be copied: the source does not exist, or is not a
\* folder, or a file in it is irregular.
Unsupported(p) ==
    p \in DOMAIN Source =>
        \/ Source[p] = Irregular
        \/ p = <<>> /\ Source[p] # Dir

CopyEntry ==
    /\ pc \in {"take", "revert"} /\ todo # {}
    /\ LET p == Visited(todo) IN
       \/ /\ ~Unsupported(p)
          /\ Write(p, Source[p])
          /\ Goto(pc, name, todo \ {p})
          /\ UNCHANGED <<faults, last>>
       \/ /\ Unsupported(p)
          /\ Return(<<>>)
          /\ UNCHANGED <<test, store, faults>>
       \/ /\ ~Unsupported(p)
          /\ Fault
          /\ \/ UNCHANGED <<test, store>>
             \/ Source[p] # Dir /\ Write(p, File(Part))

CopyDone ==
    /\ pc \in {"take", "revert"} /\ todo = {}
    /\ pc' = "idle" /\ name' = <<>>
    /\ complete' = IF pc = "take" THEN complete \cup {name} ELSE complete
    /\ last' = IF pc = "take" THEN <<"TakeSnapshot", name>>
               ELSE <<"RevertToSnapshot", name>>
    /\ UNCHANGED <<test, store, testDir, snapshotDir, todo, faults>>

-----------------------------------------------------------------------------
(* Close removes one folder, then the other; it may be called again. *)

\* Mutant: the names are forgotten before the folders are removed.
CloseForgetting ==
    /\ pc = "idle" /\ testDir
    /\ testDir' = FALSE
    /\ \/ test' = Nothing /\ UNCHANGED faults
       \/ /\ faults < MaxFaults /\ faults' = faults + 1
          /\ UNCHANGED test
    /\ last' = <<>>
    /\ UNCHANGED <<store, snapshotDir, pc, name, todo, complete>>

CloseTestDir ==
    /\ pc = "idle" /\ testDir
    /\ \/ /\ test' = Nothing
          /\ testDir' = FALSE
          /\ pc' = "close"
          /\ UNCHANGED <<snapshotDir, name, todo, faults, complete>>
       \/ /\ test' \in Leftovers(test)
          /\ Fault
    /\ last' = <<>>
    /\ UNCHANGED store

\* Reached from CloseTestDir, or at once when an earlier Close got as far.
CloseSnapshotDir ==
    /\ pc = "close" \/ (pc = "idle" /\ ~testDir)
    /\ snapshotDir
    /\ \/ /\ store' = Nothing
          /\ snapshotDir' = FALSE
          /\ pc' = "idle"
          /\ complete' = {}
          /\ UNCHANGED <<testDir, name, todo, faults>>
       \/ /\ store' \in Leftovers(store)
          /\ faults < MaxFaults /\ faults' = faults + 1
          /\ pc' = "idle"
          /\ complete' = {}
          /\ UNCHANGED <<testDir, snapshotDir, name, todo>>
    /\ last' = <<>>
    /\ UNCHANGED test

Next ==
    \/ \E p \in Paths : \/ \E content \in Contents : WriteFile(p, content)
                        \/ MakeDir(p) \/ MakeLink(p) \/ Remove(p)
    \/ \E n \in Names : TakeSnapshot(n) \/ RevertToSnapshot(n)
    \/ MakeTestDir
    \/ CopyEntry
    \/ CopyDone
    \/ CloseTestDir
    \/ CloseSnapshotDir

Spec == Init /\ [][Next]_vars

-----------------------------------------------------------------------------
(* Properties *)

Entries == {Dir, Irregular} \cup {File(content) : content \in Contents \cup {Part}}

IsFolder(dir) ==
    \A p \in DOMAIN dir : /\ dir[p] \in Entries
                          /\ p # <<>> => IsDir(dir, Parent(p))

\* A folder's entries are in folders: the walk, stopped anywhere, and a
\* removal that failed leave a file tree behind.
TypeOK ==
    /\ IsFolder(test) /\ IsFolder(store)
    /\ testDir \in BOOLEAN /\ snapshotDir \in BOOLEAN
    /\ pc \in {"idle", "take", "make", "revert", "close"}
    /\ name \in Names \cup {<<>>}
    /\ faults \in 0 .. MaxFaults
    /\ complete \subseteq Names
    /\ pc # "idle" /\ pc # "close" => snapshotDir

\* A name that no other name continues: the folder of a/b is in that of a.
Separate(n) == \A m \in Names : ~Below(n, m)

Store == INSTANCE SnapshotStore WITH
    Names <- {n \in Names : Separate(n)},
    live <- test,
    saved <- [n \in {n \in complete : Separate(n)} |-> SubFolder(store, n)],
    last <- IF last # <<>> /\ Separate(last[2]) /\ last[2] \in complete
            THEN last ELSE <<>>

\* The snapshots under separate names are a store of the test folder: a
\* TakeSnapshot that returned nil has copied all of it, however the walk
\* went, no later call that failed in the middle reaches the copy, and a
\* revert that returned nil has brought all of it back and nothing else, also
\* after one that had failed.
IsStore == Store!Spec

\* When Close has returned nil, in whichever attempt, both folders are gone.
ClosedIsClean ==
    /\ ~testDir => DOMAIN test = {}
    /\ ~snapshotDir => DOMAIN store = {}

=============================================================================

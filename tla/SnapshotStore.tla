---------------------------- MODULE SnapshotStore ----------------------------
(***************************************************************************)
(* What every snapshot component of osha promises (the Beacon, Docker and  *)
(* filesystem managers have the same two methods): named copies of one     *)
(* value.  A call that returns nil takes effect in one step, whatever the  *)
(* steps of the code behind it; nothing but TakeSnapshot of its name       *)
(* touches a copy.                                                         *)
(***************************************************************************)
CONSTANT Names

VARIABLES
    live,    \* the value in use
    saved,   \* the copies, under the names that have been taken
    last     \* the snapshot call that returned nil in this step, if one did

vars == <<live, saved, last>>

Init == DOMAIN saved = {} /\ last = <<>>

\* The value in use changes in any way, a call that failed included.
Change == UNCHANGED saved /\ last' = <<>>

TakeSnapshot(n) ==
    /\ saved' = [m \in DOMAIN saved \cup {n} |->
                    IF m = n THEN live ELSE saved[m]]
    /\ last' = <<"TakeSnapshot", n>>
    /\ UNCHANGED live

RevertToSnapshot(n) ==
    /\ n \in DOMAIN saved
    /\ live' = saved[n]
    /\ last' = <<"RevertToSnapshot", n>>
    /\ UNCHANGED saved

\* The end of the store, with all its copies.
Close == DOMAIN saved' = {} /\ last' = <<>>

Next ==
    \/ Change
    \/ \E n \in Names : TakeSnapshot(n) \/ RevertToSnapshot(n)
    \/ Close

Spec == Init /\ [][Next]_vars

=============================================================================

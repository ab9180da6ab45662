---------------------------- MODULE BeaconServer ----------------------------
(***************************************************************************)
(* BeaconMockServer (beacon/server) and the osha-bn process around it      *)
(* (beacon/osha-bn.go): HTTP requests handled concurrently on one          *)
(* database, and the shutdown that runs beside them.                       *)
(*                                                                         *)
(* A Database method holds db.lock and is one step.  What a handler does   *)
(* after such a method returns is done without the lock: the *Validator    *)
(* that GetValidator found is read and written word by word while other    *)
(* handlers do the same, so every load and store of a field is a step.     *)
(* Status is a Go string of two words, its length and its text.  A reader  *)
(* that meets one word of each of two statuses of different length sees no *)
(* status the code knows.                                                  *)
(*                                                                         *)
(* No route takes or reverts snapshots, sets the database or adds pending  *)
(* deposits, so there is one database and it has none.  net/http is        *)
(* external: it recovers a handler's panic and closes the connection;      *)
(* Shutdown makes Serve return at once, then waits for running handlers.   *)
(***************************************************************************)
EXTENDS BeaconDatabase, FiniteSets

CONSTANTS
    Clients,        \* connections, each with one request at a time
    Indices,        \* validator indices that requests name
    Balances,       \* balances of setBalance requests
    Penalties,      \* penalties of slash requests
    NewStatuses,    \* statuses of setStatus requests
    HeadSlots,      \* slots of setHighestSlot requests
    Routes          \* the routes that the clients use

ASSUME RequestAssumption ==
    /\ Indices \subseteq Nat
    /\ Pubkeys \cap Nat = {}
    /\ Balances \subseteq Uint
    /\ Penalties \subseteq Uint
    /\ NewStatuses \subseteq Statuses
    /\ HeadSlots \subseteq Nat
    /\ Routes \subseteq STRING

VARIABLES
    db,         \* the manager's database
    size,       \* the length word of each validator's status
    pc,         \* the next step of each client's handler
    call,       \* the request, its local variables and its response
    reply,      \* how each client's request ended, until the next one arrives
    added,      \* history: the <<pubkey, index>> pairs answered by addValidator
    server,     \* new, listening, closing (Stop is waiting), stopped
    serving,    \* the goroutine of Start has not called wg.Done yet
    exited      \* the process is gone

handlers == <<pc, call, reply>>
process == <<server, serving, exited>>
vars == <<db, size, handlers, added, process>>

\* The validators requests can name: by pubkey or by index.
Ids == Pubkeys \union Indices

\* The ids of a getValidators request, from its query or its body, taken apart
\* at commas and without blanks.  No ids at all asks for every validator.
IdLists == (SUBSET Ids) \ {{}}

\* A request (handler, id, ids, amount, status), which no step changes, the
\* handler's variables (position, balance, loaded, left), its response (seen,
\* found), and history: the names answered by addValidator, the validators as
\* they could be read when the request arrived, and whether no other request
\* overlapped it.
NoCall == [handler |-> "none", id |-> 0, ids |-> {}, amount |-> 0,
           status |-> "exited", position |-> 0, balance |-> 0, loaded |-> 0,
           left |-> {}, found |-> {}, seen |-> <<>>, known |-> {},
           before |-> <<>>, alone |-> TRUE]

Handlers == {"addValidator", "commitBlock", "setHighestSlot", "setBalance",
             "setStatus", "slash", "getValidator", "getValidators",
             "getAllValidators", "getSyncStatus", "getFinalityCheckpoints",
             "getConfig"}
ValidatorSteps == {"SetBalance", "lowerTest", "lowerLoad", "lower", "raiseTest",
                   "raiseLoad", "raise", "SetStatus", "statusText", "Slash",
                   "exitingTest", "mark", "charge", "GetValidatorMeta"}

TypeOK ==
    /\ db \in Databases
    /\ size \in [Pubkeys -> Statuses]
    /\ pc \in [Clients -> {"idle"} \union Handlers \union ValidatorSteps]
    /\ \A c \in Clients :
          /\ DOMAIN call[c] = DOMAIN NoCall
          /\ call[c].position \in 0 .. Len(db.validators)
          /\ pc[c] \in ValidatorSteps => call[c].position # 0
          /\ call[c].amount \in Nat
          /\ call[c].balance \in Uint
          /\ call[c].loaded \in Uint
          /\ call[c].seen \in Seq(Nat)
    /\ reply \in [Clients -> {"none", "ok", "error", "aborted"}]
    /\ added \subseteq Pubkeys \X Nat
    /\ server \in {"new", "listening", "closing", "stopped"}
    /\ serving \in BOOLEAN
    /\ exited \in BOOLEAN

Init ==
    /\ db = NewDatabase
    /\ size = [pubkey \in Pubkeys |-> "pending_initialized"]
    /\ pc = [c \in Clients |-> "idle"]
    /\ call = [c \in Clients |-> NoCall]
    /\ reply = [c \in Clients |-> "none"]
    /\ added = {}
    /\ server = "new" /\ serving = FALSE /\ exited = FALSE

-----------------------------------------------------------------------------
(* What a load sees *)

\* The statuses of active validators have the same length.
SameSize(s, t) ==
    s = t \/ {s, t} \subseteq {"active_ongoing", "active_exiting", "active_slashed"}

\* The status a load sees: with the length of another one, no status Slash
\* accepts, for which "exited" stands.
StatusOf(validator) ==
    IF SameSize(validator.Status, size[validator.Pubkey])
    THEN validator.Status ELSE "exited"

Readable(validator) == [validator EXCEPT !.Status = StatusOf(validator)]

-----------------------------------------------------------------------------
(* Requests and replies *)

Known == {a[1] : a \in added} \union {a[2] : a \in added}

\* What is kept of the other clients when a request arrives: nothing of an
\* answered one, and that a running one is not alone any more.
Overlapped(d) ==
    IF pc[d] = "idle" THEN NoCall
    ELSE [call[d] EXCEPT !.alone = FALSE, !.before = <<>>]

\* A request arrives with well-formed arguments.
Accept(c, handler, request) ==
    LET alone == \A d \in Clients : pc[d] = "idle"
        now == [i \in 1 .. Len(db.validators) |-> Readable(db.validators[i])]
    IN  /\ handler \in Routes
        /\ server = "listening" /\ pc[c] = "idle"
        /\ pc' = [pc EXCEPT ![c] = handler]
        /\ call' = [d \in Clients |->
                      IF d # c THEN Overlapped(d)
                      ELSE [request EXCEPT
                              !.handler = handler, !.known = Known,
                              !.before = IF alone THEN now ELSE <<>>,
                              !.alone = alone]]
        /\ reply' = [d \in Clients |-> "none"]
        /\ UNCHANGED <<db, size, added, process>>

\* The slots that requests on their way will commit.
Committing == Cardinality({c \in Clients : pc[c] = "commitBlock"})

Request(c) ==
    \/ \E pubkey \in Pubkeys :
          Accept(c, "addValidator", [NoCall EXCEPT !.id = pubkey])
    \/ \E validated \in {0, 1} :
          /\ db.currentSlot + Committing < MaxSlot
          /\ Accept(c, "commitBlock", [NoCall EXCEPT !.amount = validated])
    \/ \E slot \in HeadSlots :
          Accept(c, "setHighestSlot", [NoCall EXCEPT !.amount = slot])
    \/ \E id \in Ids, balance \in Balances :
          Accept(c, "setBalance", [NoCall EXCEPT !.id = id, !.amount = balance,
                                                 !.balance = balance])
    \/ \E id \in Ids, status \in NewStatuses :
          Accept(c, "setStatus", [NoCall EXCEPT !.id = id, !.status = status])
    \/ \E id \in Ids, penalty \in Penalties :
          Accept(c, "slash", [NoCall EXCEPT !.id = id, !.amount = penalty])
    \/ \E id \in Ids : Accept(c, "getValidator", [NoCall EXCEPT !.id = id])
    \/ \E ids \in IdLists :
          Accept(c, "getValidators", [NoCall EXCEPT !.ids = ids, !.left = ids])
    \/ Accept(c, "getAllValidators", [NoCall EXCEPT !.ids = Ids])
    \/ \E handler \in {"getSyncStatus", "getFinalityCheckpoints", "getConfig"} :
          Accept(c, handler, NoCall)

\* A missing or malformed argument, or the wrong HTTP method.
Reject(c) ==
    /\ server = "listening" /\ pc[c] = "idle"
    /\ call' = [call EXCEPT ![c] = NoCall]
    /\ reply' = [reply EXCEPT ![c] = "error"]
    /\ UNCHANGED <<db, size, pc, added, process>>

Finish(c, code) ==
    /\ pc' = [pc EXCEPT ![c] = "idle"]
    /\ reply' = [reply EXCEPT ![c] = code]
    /\ UNCHANGED process

Goto(c, step) ==
    /\ pc' = [pc EXCEPT ![c] = step]
    /\ UNCHANGED <<reply, process>>

-----------------------------------------------------------------------------
(* Handlers that call one method of the database *)

\* Mutant: no test for a registered pubkey.
addAnyValidator(c) ==
    /\ pc[c] = "addValidator"
    /\ db' = WithValidator(db, call[c].id)
    /\ added' = added \union {<<call[c].id, Len(db.validators)>>}
    /\ Finish(c, "ok")
    /\ UNCHANGED <<size, call>>

addValidator(c) ==
    LET pubkey == call[c].id
    IN  /\ pc[c] = "addValidator"
        /\ \/ /\ ~HasPubkey(db, pubkey)
              /\ db' = WithValidator(db, pubkey)
              /\ added' = added \union {<<pubkey, Len(db.validators)>>}
              /\ Finish(c, "ok")
           \/ /\ HasPubkey(db, pubkey)
              /\ Finish(c, "error")
              /\ UNCHANGED <<db, added>>
        /\ UNCHANGED <<size, call>>

commitBlock(c) ==
    /\ pc[c] = "commitBlock"
    /\ db' = WithBlock(db, call[c].amount = 1)
    /\ Finish(c, "ok")
    /\ UNCHANGED <<size, call, added>>

setHighestSlot(c) ==
    /\ pc[c] = "setHighestSlot"
    /\ db' = WithHighestSlot(db, call[c].amount)
    /\ Finish(c, "ok")
    /\ UNCHANGED <<size, call, added>>

\* Genesis, deposit contract and spec come from the configuration, which
\* nothing changes, and there are no pending deposits.
getConfig(c) ==
    /\ pc[c] = "getConfig"
    /\ Finish(c, "ok")
    /\ UNCHANGED <<db, size, call, added>>

-----------------------------------------------------------------------------
(* Handlers that call several *)

See(c, slot) == call' = [call EXCEPT ![c].seen = Append(@, slot)]

\* Mutant: the highest slot is read before the current one.
getSyncStatusReversed(c) ==
    /\ pc[c] = "getSyncStatus"
    /\ \/ /\ call[c].seen = <<>>
          /\ call' = [call EXCEPT ![c].seen = <<db.highestSlot>>]
          /\ Goto(c, "getSyncStatus")
       \/ /\ call[c].seen # <<>>
          /\ call' = [call EXCEPT ![c].seen = <<db.currentSlot>> \o @]
          /\ Finish(c, "ok")
    /\ UNCHANGED <<db, size, added>>

\* Node_Syncing: the current slot, then the highest.
getSyncStatus(c) ==
    /\ pc[c] = "getSyncStatus"
    /\ \/ call[c].seen = <<>> /\ See(c, db.currentSlot) /\ Goto(c, "getSyncStatus")
       \/ call[c].seen # <<>> /\ See(c, db.highestSlot) /\ Finish(c, "ok")
    /\ UNCHANGED <<db, size, added>>

\* Mutant: the finalized epoch is read last.
getFinalityReversed(c) ==
    /\ pc[c] = "getFinalityCheckpoints"
    /\ call' = [call EXCEPT ![c].seen = <<db.currentSlot>> \o @]
    /\ \/ Len(call[c].seen) < 2 /\ Goto(c, "getFinalityCheckpoints")
       \/ Len(call[c].seen) = 2 /\ Finish(c, "ok")
    /\ UNCHANGED <<db, size, added>>

\* Beacon_FinalityCheckpoints: the current slot, three times: for the
\* finalized, the current justified and the previous justified epoch.
getFinalityCheckpoints(c) ==
    /\ pc[c] = "getFinalityCheckpoints"
    /\ See(c, db.currentSlot)
    /\ \/ Len(call[c].seen) < 2 /\ Goto(c, "getFinalityCheckpoints")
       \/ Len(call[c].seen) = 2 /\ Finish(c, "ok")
    /\ UNCHANGED <<db, size, added>>

\* GetValidators without ids.  Validators added later lie past the end of
\* the slice it returned.
getAllValidators(c) ==
    /\ pc[c] = "getAllValidators"
    /\ call' = [call EXCEPT ![c].found = 1 .. Len(db.validators)]
    /\ Finish(c, "ok")
    /\ UNCHANGED <<db, size, added>>

Position(id) ==
    IF id \in Pubkeys THEN PositionByPubkey(db, id) ELSE PositionByIndex(db, id)

\* Mutant: an unknown id ends the list.
getValidatorsUntilUnknown(c) ==
    /\ pc[c] = "getValidators"
    /\ \/ \E id \in call[c].left :
             /\ call' = [call EXCEPT
                          ![c].left = IF Position(id) = 0 THEN {} ELSE @ \ {id},
                          ![c].found = @ \union ({Position(id)} \ {0})]
             /\ Goto(c, "getValidators")
       \/ /\ call[c].left = {}
          /\ Finish(c, "ok")
          /\ UNCHANGED call
    /\ UNCHANGED <<db, size, added>>

\* GetValidators with ids: one lookup each; unknown ids are left out.
getValidators(c) ==
    /\ pc[c] = "getValidators"
    /\ \/ \E id \in call[c].left :
             /\ call' = [call EXCEPT ![c].left = @ \ {id},
                                     ![c].found = @ \union ({Position(id)} \ {0})]
             /\ Goto(c, "getValidators")
       \/ /\ call[c].left = {}
          /\ Finish(c, "ok")
          /\ UNCHANGED call
    /\ UNCHANGED <<db, size, added>>

-----------------------------------------------------------------------------
(* Handlers that go on with a *Validator *)

\* Mutant: the lookup's nil is used as a pointer.
FindAnything(c, handler, step) ==
    /\ pc[c] = handler
    /\ call' = [call EXCEPT ![c].position = Position(call[c].id)]
    /\ Goto(c, step)
    /\ UNCHANGED <<db, size, added>>

\* GetValidator, and the use of what it returns.  With nil that use panics,
\* which ends the request without a response.
Find(c, handler, step) ==
    /\ pc[c] = handler
    /\ LET position == Position(call[c].id)
       IN  \/ /\ position # 0
              /\ call' = [call EXCEPT ![c].position = position]
              /\ Goto(c, step)
           \/ /\ position = 0
              /\ Finish(c, "aborted")
              /\ UNCHANGED call
    /\ UNCHANGED <<db, size, added>>

getValidator(c) == Find(c, "getValidator", "GetValidatorMeta")
setBalance(c) == Find(c, "setBalance", "SetBalance")
setStatus(c) == Find(c, "setStatus", "SetStatus")
slash(c) == Find(c, "slash", "Slash")

Validator(c) == db.validators[call[c].position]

Store(c, validator) == db' = [db EXCEPT !.validators[call[c].position] = validator]

\* The loads of GetValidatorMeta: no property tells their order apart.
getMeta(c) ==
    /\ pc[c] = "GetValidatorMeta"
    /\ Finish(c, "ok")
    /\ UNCHANGED <<db, size, call, added>>

\* SetBalance(balanceGwei): the balance first.
SetBalance(c) ==
    /\ pc[c] = "SetBalance"
    /\ Store(c, [Validator(c) EXCEPT !.Balance = call[c].balance])
    /\ Goto(c, "lowerTest")
    /\ UNCHANGED <<size, call, added>>

\* SetBalance returns, with which its variables are gone; Slash goes on to set
\* the status.
AfterSetBalance(c) ==
    /\ call' = [call EXCEPT ![c].balance = 0, ![c].loaded = 0]
    /\ \/ call[c].handler # "slash" /\ Finish(c, "ok")
       \/ call[c].handler = "slash" /\ Goto(c, "SetStatus")

\* The two hysteresis tests of SetBalance.  Each loads the effective balance;
\* the decrement or increment loads it again and stores what it loaded, one
\* lower or one higher.
LowerTest(c) ==
    /\ pc[c] = "lowerTest"
    /\ Goto(c, IF call[c].balance < USub(Validator(c).EffectiveBalance, DownMargin)
               THEN "lowerLoad" ELSE "raiseTest")
    /\ UNCHANGED <<db, size, call, added>>

RaiseTest(c) ==
    LET bound == UAdd(Validator(c).EffectiveBalance, UpMargin)
    IN  /\ pc[c] = "raiseTest"
        /\ \/ call[c].balance > bound /\ Goto(c, "raiseLoad") /\ UNCHANGED call
           \/ call[c].balance <= bound /\ AfterSetBalance(c)
        /\ UNCHANGED <<db, size, added>>

LoadEffective(c, here, next) ==
    /\ pc[c] = here
    /\ call' = [call EXCEPT ![c].loaded = Validator(c).EffectiveBalance]
    /\ Goto(c, next)
    /\ UNCHANGED <<db, size, added>>

LowerLoad(c) == LoadEffective(c, "lowerLoad", "lower")
RaiseLoad(c) == LoadEffective(c, "raiseLoad", "raise")

Lower(c) ==
    /\ pc[c] = "lower"
    /\ Store(c, [Validator(c) EXCEPT !.EffectiveBalance = USub(call[c].loaded, 1)])
    /\ call' = [call EXCEPT ![c].loaded = 0]
    /\ Goto(c, "raiseTest")
    /\ UNCHANGED <<size, added>>

\* Mutant: both tests are repeated until neither applies.
RaiseAgain(c) ==
    /\ pc[c] = "raise"
    /\ Store(c, [Validator(c) EXCEPT !.EffectiveBalance = UAdd(call[c].loaded, 1)])
    /\ call' = [call EXCEPT ![c].loaded = 0]
    /\ Goto(c, "lowerTest")
    /\ UNCHANGED <<size, added>>

Raise(c) ==
    /\ pc[c] = "raise"
    /\ Store(c, [Validator(c) EXCEPT !.EffectiveBalance = UAdd(call[c].loaded, 1)])
    /\ AfterSetBalance(c)
    /\ UNCHANGED <<size, added>>

\* The argument of SetStatus, or the constant Slash assigns.
NewStatus(c) ==
    IF call[c].handler = "slash" THEN "active_slashed" ELSE call[c].status

\* SetStatus, and the last assignment of Slash: first the length, then the
\* text.
SetStatus(c) ==
    /\ pc[c] = "SetStatus"
    /\ size' = [size EXCEPT ![Validator(c).Pubkey] = NewStatus(c)]
    /\ Goto(c, "statusText")
    /\ UNCHANGED <<db, call, added>>

StatusText(c) ==
    /\ pc[c] = "statusText"
    /\ Store(c, [Validator(c) EXCEPT !.Status = NewStatus(c)])
    /\ Finish(c, "ok")
    /\ UNCHANGED <<size, call, added>>

\* Slash tests the status, which it loads once for each comparison, marks the
\* validator, loads its balance, and goes on with SetBalance.
Slash(c) ==
    /\ pc[c] = "Slash"
    /\ Goto(c, IF StatusOf(Validator(c)) = "active_ongoing"
               THEN "mark" ELSE "exitingTest")
    /\ UNCHANGED <<db, size, call, added>>

SlashExiting(c) ==
    /\ pc[c] = "exitingTest"
    /\ \/ StatusOf(Validator(c)) = "active_exiting" /\ Goto(c, "mark")
       \/ StatusOf(Validator(c)) # "active_exiting" /\ Finish(c, "error")
    /\ UNCHANGED <<db, size, call, added>>

Mark(c) ==
    /\ pc[c] = "mark"
    /\ Store(c, [Validator(c) EXCEPT !.Slashed = TRUE])
    /\ Goto(c, "charge")
    /\ UNCHANGED <<size, call, added>>

\* Mutant: the penalty becomes the balance.
ChargeAll(c) ==
    /\ pc[c] = "charge"
    /\ call' = [call EXCEPT ![c].balance = call[c].amount]
    /\ Goto(c, "SetBalance")
    /\ UNCHANGED <<db, size, added>>

Charge(c) ==
    /\ pc[c] = "charge"
    /\ call' = [call EXCEPT ![c].balance = USub(Validator(c).Balance, call[c].amount)]
    /\ Goto(c, "SetBalance")
    /\ UNCHANGED <<db, size, added>>

Handle(c) ==
    \/ addValidator(c) \/ commitBlock(c) \/ setHighestSlot(c) \/ getConfig(c)
    \/ getSyncStatus(c) \/ getFinalityCheckpoints(c)
    \/ getAllValidators(c) \/ getValidators(c)
    \/ getValidator(c) \/ setBalance(c) \/ setStatus(c) \/ slash(c) \/ getMeta(c)
    \/ SetBalance(c)
    \/ LowerTest(c) \/ LowerLoad(c) \/ Lower(c)
    \/ RaiseTest(c) \/ RaiseLoad(c) \/ Raise(c)
    \/ SetStatus(c) \/ StatusText(c)
    \/ Slash(c) \/ SlashExiting(c) \/ Mark(c) \/ Charge(c)

-----------------------------------------------------------------------------
(* The process *)

\* The process ends, with every handler that is still running in it.
Exit ==
    /\ exited' = TRUE
    /\ pc' = [c \in Clients |-> "idle"]
    /\ call' = [c \in Clients |-> NoCall]
    /\ reply' = [c \in Clients |-> "none"]
    /\ UNCHANGED <<server, serving>>

\* Start: the listener is open and a goroutine serves it; without a socket
\* the process ends.
Start ==
    /\ server = "new"
    /\ \/ server' = "listening" /\ serving' = TRUE /\ UNCHANGED <<handlers, exited>>
       \/ Exit
    /\ UNCHANGED <<db, size, added>>

\* A signal: Stop calls Shutdown, which closes the listener.
Stop ==
    /\ server = "listening"
    /\ server' = "closing"
    /\ UNCHANGED <<db, size, handlers, added, serving, exited>>

\* Mutant: Start's goroutine does not call wg.Done.
ServeReturnsOnly ==
    /\ server \in {"closing", "stopped"} /\ serving
    /\ UNCHANGED vars

\* Serve returns ErrServerClosed as soon as Shutdown is called; wg.Done.
ServeReturns ==
    /\ server \in {"closing", "stopped"} /\ serving
    /\ serving' = FALSE
    /\ UNCHANGED <<db, size, handlers, added, server, exited>>

\* Serve may also return an error of its own while the server is listening;
\* connections that are open stay open.
ServeFails ==
    /\ server = "listening" /\ serving
    /\ serving' = FALSE
    /\ UNCHANGED <<db, size, handlers, added, server, exited>>

\* Mutant: Stop closes the connections instead of waiting for the handlers.
StopAtOnce ==
    /\ server = "closing"
    /\ server' = "stopped"
    /\ UNCHANGED <<db, size, handlers, added, serving, exited>>

\* Shutdown returns, and Stop with it, once no handler is running: nil, or the
\* error of closing the listener, with which the process ends.
StopReturns ==
    /\ server = "closing"
    /\ \A c \in Clients : pc[c] = "idle"
    /\ \/ server' = "stopped" /\ UNCHANGED <<handlers, serving, exited>>
       \/ Exit
    /\ UNCHANGED <<db, size, added>>

\* wg.Wait returns in main, which prints "Server stopped." and returns.
MainReturns ==
    /\ server # "new" /\ ~serving
    /\ Exit
    /\ UNCHANGED <<db, size, added>>

Next ==
    /\ ~exited
    /\ \/ \E c \in Clients : Request(c) \/ Reject(c) \/ Handle(c)
       \/ Start \/ Stop \/ ServeReturns \/ ServeFails \/ StopReturns \/ MainReturns

Spec == Init /\ [][Next]_vars

\* Goroutines are scheduled: each handler, the serving one and the one that
\* called Stop go on.
FairSpec ==
    /\ Spec
    /\ \A c \in Clients : WF_vars(~exited /\ pc[c] # "idle" /\ Handle(c))
    /\ WF_vars(~exited /\ ServeReturns)
    /\ WF_vars(~exited /\ StopReturns)

-----------------------------------------------------------------------------
(* Properties *)

Answered(c) == pc[c] = "idle" /\ reply[c] = "ok"

\* The response to getSyncStatus: the uint64 difference of two slots that
\* were read one after the other is a distance, never a wrapped number,
\* whatever commits and head changes come in between.
SyncDistanceNeverWraps ==
    \A c \in Clients :
        Answered(c) /\ Len(call[c].seen) = 2 => call[c].seen[1] <= call[c].seen[2]

\* The response to getFinalityCheckpoints: the finalized epoch is not ahead
\* of either justified one, with commits between the three reads.
FinalizedNotAhead ==
    \A c \in Clients :
        Answered(c) /\ Len(call[c].seen) = 3 =>
            /\ call[c].seen[1] <= call[c].seen[2]
            /\ call[c].seen[1] <= call[c].seen[3]

\* Concurrent addValidator requests: no pubkey is added twice, no index is
\* answered twice, and the answered index finds the pubkey ever after.
IndicesStand ==
    /\ \A a, b \in added : a[1] = b[1] <=> a[2] = b[2]
    /\ \A a \in added : /\ PositionByIndex(db, a[2]) = PositionByPubkey(db, a[1])
                        /\ db.validators[a[2] + 1].Pubkey = a[1]

\* A validator whose addition was answered before a request arrived is found
\* by it: in the list of all validators, in a list of ids among unknown ones,
\* and by a request for it, which is never aborted.
AddedIsFound ==
    \A c \in Clients :
        /\ reply[c] = "aborted" => call[c].id \notin call[c].known
        /\ Answered(c) => \A id \in call[c].ids \intersect call[c].known :
                             Position(id) \in call[c].found

\* What a request leaves of a validator when the methods it calls run in one
\* piece, and what it answers.
Sequential(handler, v, amount, status) ==
    CASE handler = "setBalance" -> WithBalance(v, amount)
      [] handler = "setStatus" -> [v EXCEPT !.Status = status]
      [] handler = "slash" /\ Slashable(v) -> Slashed(v, amount)
      [] OTHER -> v

Answer(handler, v) ==
    IF handler = "slash" /\ ~Slashable(v) THEN "error" ELSE "ok"

\* A request that no other request overlapped leaves of its validator what
\* the method in one piece makes of the validator that could be read when it
\* arrived, whatever races came before, and answers accordingly: a slash
\* charges the penalty exactly when the status it met, torn ones included,
\* was slashable, and is refused exactly when it was not.
AloneIsSequential ==
    \A c \in Clients :
        LET k == call[c]
            before == k.before[k.position]
        IN  pc[c] = "idle" /\ k.alone /\ k.position # 0 =>
                /\ Readable(db.validators[k.position]) =
                      Sequential(k.handler, before, k.amount, k.status)
                /\ reply[c] = Answer(k.handler, before)

\* After Stop has returned nil no handler touches the database again.
NothingAfterStop == [][server = "stopped" => UNCHANGED <<db, size>>]_vars

\* Every request ends, with other requests coming in all the time.
RequestsEnd == \A c \in Clients : pc[c] # "idle" ~> pc[c] = "idle" \/ exited

\* Stop returns, although it has no timeout and waits for every handler, also
\* where main is not waiting to end the process (server_test.go).
StopEnds == server = "closing" ~> server = "stopped" \/ exited

\* A signal ends the process, once main is scheduled.
SignalEnds ==
    WF_vars(~exited /\ MainReturns) => (server = "closing" ~> exited)
=============================================================================

\* Races on one validator, and how requests and the process end: two clients,
\* balances that wrap at 3 as uint64 wraps at 2^64.  The process ends.
CONSTANTS
    Pubkeys = {pk1}
    Deposits = {}
    FirstBlock = 3
    StartingBalance = 2
    DownMargin = 1
    UpMargin = 1
    UintMod = 3
    MaxSlot = 0
    Clients = {c1, c2}
    Indices = {}
    Balances = {0}
    Penalties = {1}
    NewStatuses = {"active_exiting"}
    HeadSlots = {}
    Routes = {"addValidator", "setBalance", "setStatus", "slash"}
SPECIFICATION FairSpec
INVARIANTS
    TypeOK
    AloneIsSequential
PROPERTIES
    NothingAfterStop
    RequestsEnd
    StopEnds
    SignalEnds
CHECK_DEADLOCK FALSE

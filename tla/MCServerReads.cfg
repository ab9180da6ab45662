\* Concurrent additions, commits, head changes and lookups: two pubkeys, an
\* index that may not exist yet, slots up to 2.  The process ends.
CONSTANTS
    Pubkeys = {pk1, pk2}
    Deposits = {}
    FirstBlock = 3
    StartingBalance = 3
    DownMargin = 1
    UpMargin = 1
    UintMod = 8
    MaxSlot = 2
    Clients = {c1, c2}
    Indices = {1}
    Balances = {}
    Penalties = {}
    NewStatuses = {}
    HeadSlots = {2}
    Routes = {"addValidator", "commitBlock", "setHighestSlot", "getValidator",
        "getValidators", "getAllValidators", "getSyncStatus",
        "getFinalityCheckpoints", "getConfig"}
SYMMETRY Symmetry
SPECIFICATION Spec
INVARIANTS
    SyncDistanceNeverWraps
    FinalizedNotAhead
    IndicesStand
    AddedIsFound
CHECK_DEADLOCK FALSE

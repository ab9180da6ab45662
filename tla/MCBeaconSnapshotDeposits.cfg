\* Is a snapshot the whole database state?
CONSTANTS
    Pubkeys = {}
    Deposits = {d1}
    FirstBlock = 3
    StartingBalance = 3
    DownMargin = 1
    UpMargin = 1
    UintMod = 4
    MaxSlot = 1
    Names = {n1, n2}
    Callers = {}
    Balances = {}
    Penalties = {}
    NewStatuses = {}
    MaxDatabases = 3
SPECIFICATION Spec
INVARIANTS
    SnapshotIsWholeDatabase
CHECK_DEADLOCK FALSE

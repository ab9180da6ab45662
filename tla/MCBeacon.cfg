\* The whole Beacon mock: one pubkey, one caller that may hold on to its
\* pointer across snapshots and reverts, one deposit, one slot.  Balances take
\* two values; MCServerWrites has their arithmetic.  A panic ends the calling
\* test.
CONSTANTS
    Pubkeys = {pk1}
    Deposits = {d1}
    FirstBlock = 3
    StartingBalance = 3
    DownMargin = 1
    UpMargin = 1
    UintMod = 8
    MaxSlot = 1
    Names = {n1}
    Callers = {c1}
    Balances = {2}
    Penalties = {0}
    NewStatuses = {"active_ongoing"}
    MaxDatabases = 3
SPECIFICATION Spec
INVARIANTS
    TypeOK
    SnapshotsIsolated
    Unshared
    LookupsAlwaysAgree
    ChainAlwaysLinked
PROPERTIES
    RevertRestores
    IsStore
CHECK_DEADLOCK FALSE

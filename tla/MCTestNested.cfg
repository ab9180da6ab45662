\* Does a revert that returns nil revert Hardhat?  Three nested snapshots, no
\* failing call.
CONSTANTS
    Pubkeys = {}
    Deposits = {}
    FirstBlock = 3
    StartingBalance = 3
    DownMargin = 1
    UpMargin = 1
    UintMod = 4
    MaxSlot = 0
    ModuleNames = {}
    Versions = {v1}
    Contents = {0}
    Empty = 0
    NoValue = NoValue
    PartialCopy = PartialCopy
    MaxSnapshots = 3
    MaxHardhat = 6
    MaxFaults = 0
    MaxSent = 1
    MaxMined = 0
    MaxAdvance = 1
    TestBlocks = {}
SPECIFICATION Spec
INVARIANTS
    RevertRestoresHardhat
CHECK_DEADLOCK FALSE

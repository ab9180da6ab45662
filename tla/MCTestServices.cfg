\* The mocks, the files and the modules change, Hardhat's chain does not (no
\* slots, no transactions): two names, one failing call, one validator, one
\* module name with two instances.
CONSTANTS
    Pubkeys = {pk1}
    Deposits = {}
    FirstBlock = 3
    StartingBalance = 3
    DownMargin = 1
    UpMargin = 1
    UintMod = 4
    MaxSlot = 0
    ModuleNames = {m1}
    Versions = {v1, v2}
    Contents = {0, 1}
    Empty = 0
    NoValue = NoValue
    PartialCopy = PartialCopy
    MaxSnapshots = 2
    MaxHardhat = 4
    MaxFaults = 1
    MaxSent = 0
    MaxMined = 0
    MaxAdvance = 1
    TestBlocks = {TRUE}
SYMMETRY Symmetry
SPECIFICATION Spec
INVARIANTS
    TypeOK
    StoredIsComplete
    RevertRestores
    BaselineAlive
CHECK_DEADLOCK FALSE

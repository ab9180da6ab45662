\* The two chains and the ends of methods: up to two slots, a transaction,
\* interval mining, a block the test commits itself, a second snapshot, no
\* failing call.
CONSTANTS
    Pubkeys = {}
    Deposits = {}
    FirstBlock = 3
    StartingBalance = 3
    DownMargin = 1
    UpMargin = 1
    UintMod = 4
    MaxSlot = 2
    ModuleNames = {}
    Versions = {v1}
    Contents = {0}
    Empty = 0
    NoValue = NoValue
    PartialCopy = PartialCopy
    MaxSnapshots = 2
    MaxHardhat = 3
    MaxFaults = 0
    MaxSent = 1
    MaxMined = 1
    MaxAdvance = 2
    TestBlocks = {TRUE}
SPECIFICATION FairSpec
INVARIANTS
    ChainsAligned
    CopiesFaithful
PROPERTIES
    MethodsReturn
CHECK_DEADLOCK FALSE

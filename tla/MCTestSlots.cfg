\* Does a committed slot reference its block?  One slot, no failing call.
CONSTANTS
    Pubkeys = {}
    Deposits = {}
    FirstBlock = 3
    StartingBalance = 3
    DownMargin = 1
    UpMargin = 1
    UintMod = 4
    MaxSlot = 1
    ModuleNames = {}
    Versions = {v1}
    Contents = {0}
    Empty = 0
    NoValue = NoValue
    PartialCopy = PartialCopy
    MaxSnapshots = 1
    MaxHardhat = 2
    MaxFaults = 0
    MaxSent = 0
    MaxMined = 0
    MaxAdvance = 1
    TestBlocks = {}
SPECIFICATION Spec
INVARIANTS
    SlotReferencesItsBlock
CHECK_DEADLOCK FALSE

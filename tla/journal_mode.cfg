SPECIFICATION Spec
CONSTANTS
    HeaderSize = 2
    EntrySize = 2
    DataSize <- MCDataSize
    BatBytes = 1
    Radix = 4
    Locators = 2
    Blocks = {0, 1}
    UsedBlocks = {0}
    Faults = {}
    MaxCalls = 1
INVARIANTS
    ModeIsHonoured
CHECK_DEADLOCK FALSE

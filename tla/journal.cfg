\* Writers of a journal that stop anywhere: reads and writes fail, and writes of the
\* header are torn.
SPECIFICATION Spec
CONSTANTS
    HeaderSize = 2
    EntrySize = 2
    DataSize <- MCDataSize
    BatBytes = 1
    Radix = 4
    Locators = 2
    Blocks = {0, 1}
    UsedBlocks = {0}
    Faults = {"writeError", "tornHeader", "readError"}
    MaxCalls = 4
INVARIANTS
    TypeOK
    HeaderDescribesFile
    RecordsTile
    CreateIsComplete
    AckedIsDurable
PROPERTIES
    CountedBytesStay
    ImplementsAppendLog
    CallsReturn
CHECK_DEADLOCK FALSE

\* A release build on dynamic and differencing disks of two blocks of three
\* sectors, the second block cut short by the end of the disk; reads and writes of
\* the file may fail.  Offset 31 makes the sum of bound_to wrap.
SPECIFICATION Spec
CONSTANTS
    U64 = 32
    U32 = 12
    SectorSize = 2
    SectorsPerBlock = 3
    EntriesPerSector = 3
    Capacity = 11
    Slots = {6, 10}
    EndSector = 14
    Debug = FALSE
    Faults = {"readError", "writeError"}
    Offsets = {0, 2, 5, 6, 12, 31}
    Lengths = {0, 1, 4, 11}
INVARIANTS
    TypeOK
    CacheCoherent
    AlignedReadRight
    UnusedReadFailsOnlyWhenStale
    NothingToWrite
    WritesNeverLand
    FooterOnlyWrites
PROPERTIES
    BlocksStay
    ImplementsVirtualDisk

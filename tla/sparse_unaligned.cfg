\* Reads that start inside a sector.
SPECIFICATION Spec
CONSTANTS
    U64 = 32
    U32 = 12
    SectorSize = 2
    SectorsPerBlock = 3
    EntriesPerSector = 3
    Capacity = 11
    Slots = {6, 10}
    EndSector = 14
    Debug = FALSE
    Faults = {}
    Offsets = {0, 1, 3, 6}
    Lengths = {0, 1, 4, 11}
INVARIANTS
    UsedSectorsAreRead

\* Aligned reads after a read of a bitmap failed half-way.
SPECIFICATION Spec
CONSTANTS
    U64 = 32
    U32 = 12
    SectorSize = 2
    SectorsPerBlock = 3
    EntriesPerSector = 3
    Capacity = 11
    Slots = {6, 10}
    EndSector = 14
    Debug = FALSE
    Faults = {"tornBitmap"}
    Offsets = {0, 6}
    Lengths = {4, 11}
INVARIANTS
    AlignedReadRight

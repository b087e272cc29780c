\* A debug build in which reads of the file fail, tear the bitmap they were to fill
\* and come short; calls at every alignment.  A read of the whole disk asks for as
\* many bytes as a u32 has values, and the sum of bound_to wraps at offset 31.
SPECIFICATION Spec
CONSTANTS
    U64 = 32
    U32 = 12
    SectorSize = 2
    SectorsPerBlock = 3
    EntriesPerSector = 3
    Capacity = 12
    Slots = {6, 10}
    EndSector = 14
    Debug = TRUE
    Faults = {"readError", "tornBitmap", "shortRead"}
    Offsets = {0, 3, 6, 31}
    Lengths = {4, 12}
INVARIANTS
    NoForeignData
    PanicOnlyInUnused
PROPERTIES
    CallsReturn

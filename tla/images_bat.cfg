\* The writing of a BAT fails.
SPECIFICATION Spec
CONSTANTS
    Paths = {p}
    Handles = {h}
    Sizes = {1}
    MiBs = 16
    MaxBlocks = 2
    SectorsPerBlock = 2
    EntriesPerSector = 1
    DataSectors = {}
    Debug = TRUE
    Faults = {"writeError"}
    MaxImages = 1
SYMMETRY Symmetry
INVARIANTS
    UnusedEntriesAreMarked

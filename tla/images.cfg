\* Two processes and two files: fixed, dynamic and differencing disks, whose files are
\* truncated and written to while others hold or read them; writes fail after any
\* part, processes end anywhere.  A size of 5 MiB is three blocks, one too many;
\* of 19 the upper bits are lost, and 3 are left, two blocks; 31 makes the sum of math::ceil wrap.
SPECIFICATION Spec
CONSTANTS
    Paths = {p, q}
    Handles = {h, g}
    Sizes = {5, 19, 31}
    MiBs = 16
    MaxBlocks = 2
    SectorsPerBlock = 2
    EntriesPerSector = 1
    DataSectors = {0, 3}
    Debug = TRUE
    Faults = {"writeError", "crash"}
    MaxImages = 2
SYMMETRY Symmetry
INVARIANTS
    TypeOK
    WhatOpensIsWhole
    ReturnedStays
    OpenedIsOneImage
    SizesAreRight
PROPERTIES
    FootersSpareData
    ParentIsKept

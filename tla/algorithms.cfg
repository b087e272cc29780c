\* All pairs of short paths, sizes of disks on either side of every bound, tables of
\* none to three sectors, and structs with every one of their bytes damaged.
SPECIFICATION Spec
CONSTANTS
    U64 = 2147483647
    Roots = {"r", "s"}
    Paths <- MCPaths
    DiskSizes <- MCDiskSizes
    TableSizes = {0, 1, 2, 127, 128, 129, 255, 256, 257, 300}
    Fillings <- MCFillings
    Damages = {0, 1, 7, 63}
INVARIANTS
    RelativePathResolves
    GeometryFits
    GeometryLosesLess
    LayoutTiles
    StructsRoundTrip
    
    DamageIsRefused
    ChildNamesParent

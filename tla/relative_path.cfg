\* Paths that are equal again behind the place where they part.
SPECIFICATION Spec
CONSTANTS
    U64 = 2147483647
    Roots = {"r"}
    Paths <- MCPaths
    DiskSizes = {}
    TableSizes = {}
    Fillings = {}
    Damages = {}
INVARIANTS
    ReachesParent

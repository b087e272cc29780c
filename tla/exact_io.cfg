\* A file of three bytes; reads and writes before, at, over and behind its end, that
\* fail and come short.
SPECIFICATION Spec
CONSTANTS
    FileSize = 3
    Offsets = {0, 1, 3, 5}
    Lengths = {0, 1, 3, 4}
    Faults = {"readError", "shortRead", "writeError", "shortWrite"}
    MaxCalls = 2
INVARIANTS
    TypeOK
    OnlyPrefixLands
    ReadIsExact
PROPERTIES
    ImplementsFileAccess
    CallsReturn
CHECK_DEADLOCK FALSE

\* A read over the end of a file, without any fault.
SPECIFICATION Spec
CONSTANTS
    FileSize = 3
    Offsets = {0, 1, 3, 5}
    Lengths = {0, 1, 3, 4}
    Faults = {}
    MaxCalls = 2
INVARIANTS
    EndIsReported
CHECK_DEADLOCK FALSE

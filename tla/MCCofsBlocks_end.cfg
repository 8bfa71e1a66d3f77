CONSTANTS
    Files = {f1, f2}
    NUM_DIRECT = 1
    NUM_SIND = 2
    BLOCK_SIZE = 2
    Last = 10
    Blocks <- BlocksDef
    Meta <- MetaDef
    Offsets = {1}
    Counts = {5}
    MaxCuts = 1
    Aligned = TRUE
SYMMETRY Symmetry
SPECIFICATION Spec
CHECK_DEADLOCK FALSE
INVARIANT FreesAllocated

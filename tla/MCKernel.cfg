SPECIFICATION MCKernelSpec
CONSTANTS
    NoTask = NoTask
    DiskTasks = {t1, t2}
    DiskBlocks = {b1, b2, b3}
    DiskValues = {v1, v2}
    MAX_HD_BUFS = 2
    Files = {f1, f2}
    NUM_DIRECT = 1
    NUM_SIND = 2
    BLOCK_SIZE = 2
    Blocks <- MCBlocks
    Meta <- MCMeta
    Offsets = {1}
    Counts = {5}
    MaxCuts = 1
    Aligned = FALSE
    PageWords = 8
    MetaWords = 2
    MallocSizes = {1, 6, 20}
    MaxPtrs = 3
    MaxBreak = 48
    Procs = {1, 2, 3}
    FirstProc = 1
    NumFrames = 16
    TablePages = 2
    UHEAP_START = 2
    HEAP_START = 4
    HEAP_END = 8
    NumPages = 10
    Images <- MCImages
    SbrkPages <- MCSbrkPages
VIEW KernelView
SYMMETRY FileSymmetry
INVARIANTS
    HdSafety
    HdCoherent
    BlocksOwned
    BlocksHold
    HeapSafety
    MemSafety
CHECK_DEADLOCK FALSE

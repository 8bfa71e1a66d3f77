SPECIFICATION ProgramsSpec
CONSTANTS
    None = None
    Creator = t1
    Tasks = {t1, t2, t3}
    Slots = {1, 2, 3}
    Size = 1
    Word = 4
    Bytes = {0}
    Counts = {2}
    Does = {"fork", "dup", "exit"}
    BufSize = 2
    NumSlots = 3
    OpenMax = 3
    MaxFds = 4
    FileData <- MCFileData
    SignBits = 255
    MaxMoved = 3
    MaxOpened = 2
    MAX_ARGV = 4
    ShellLines <- MCShellLines
    OddLines <- MCOddLines
    GenBytes = 2
    PipeBytes = 1
    MaxLost = 1
    WordSize = 32
    PrintCases <- MCPrintCases
    ScanCases <- MCScanCases
    Ascii <- MCAscii
    ListNodes = {1, 2, 3}
    WordBits = 2
    BmapSize = 5
    TaskQueue <- MCTaskQueue
    Runnable = {1}
    DbgAddrs = {1, 2, 3}
    Mapped = {1, 2}
    MemBytes = {1, 2}
    MAX_BREAK_POINTS = 1
    MaxNoise = 1
    NoisyReplies = FALSE
VIEW ProgramsView
SYMMETRY Symmetry
INVARIANTS
    EndsSafety
    StdioSafety
    ShellParses
    ShellConnects
    PrintfSafety
    ScanfSafety
    ListsSafety
    KdbgSafety
PROPERTY EofMeansNoPeer
CHECK_DEADLOCK FALSE

SPECIFICATION StreamsSpec
CONSTANTS
    None = None
    Creator = t1
    Tasks = {t1, t2}
    Slots = {1}
    Size = 2
    Word = 4
    Bytes = {0, 1}
    Counts = {3}
    Does = {"fork", "exit", "kill"}
    TtyReaders = {t1}
    ReadSizes = {2, 9}
    TtyChars = {"a"}
    TTY_IN_BUF_SIZE = 2
    TTY_LN_BUF_SIZE = 4
    TtyWord = 4
    MaxHandlers = 2
    CRT_COLS = 2
    CRT_ROWS = 2
    TAB_SPACES = 2
    CrtWord = 32
    ANSI_MAX_CHARS = 4
    CrtGlyphs = {"a"}
    KBD_BUF_OUT_SZ = 3
    KbdWord = 10
    MaxScanCodes = 2
VIEW StreamsView
INVARIANTS
    Window
    
    CrtSafety
    KbdSafety
PROPERTY Fifo
CHECK_DEADLOCK FALSE

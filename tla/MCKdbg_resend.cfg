SPECIFICATION KdbgSpec
CONSTANTS
    TaskQueue <- KdbgQueue
    Runnable = {1}
    DbgAddrs = {1, 2, 3}
    Mapped = {1, 2}
    MemBytes = {1, 2}
    MAX_BREAK_POINTS = 1
    MaxNoise = 1
    NoisyReplies = TRUE
INVARIANT ReplyMatches
CHECK_DEADLOCK FALSE

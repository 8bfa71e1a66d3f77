SPECIFICATION MCFilesSpec
CONSTANTS
    Names = {"a", "b"}
    NUM_INODES = 4
    MAX_CACHED_NODES = 3
    TASK_INITIAL_NUM_FILES = 1
    MAX_OPEN_FILES = 2
    Modes = {0}
    FilePaths <- MCFilePaths
    FileCwds <- MCFileCwds
    MaxLeaks = 1
    MaxLinks = 2
    OpenStructs = {1, 2}
    Word = 32
    BlockBytes = 4
    MaxFileBytes = 12
    MappedBytes = 16
    Counts <- MCCounts
    Cwds <- MCCwds
    PathArgs <- MCPathArgs
VIEW MCFilesView
INVARIANTS
    ReferencesSafety
    NamesSafety
    OffsetsRight
    PathsSafety
CHECK_DEADLOCK FALSE

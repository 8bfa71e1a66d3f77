SPECIFICATION FairSpec
CONSTANTS
    None = None
    Creator = t1
    Tasks = {t1, t2}
    Slots = {1}
    Size = 1
    Word = 4
    Bytes = {0}
    Counts = {1}
    Does = {"fork"}
PROPERTY ReaderSeesEof
CHECK_DEADLOCK FALSE

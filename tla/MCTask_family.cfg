SPECIFICATION Spec
CONSTANTS
    MaxPid = 5
    MaxSigs = 1
    Sigs = {"KILL"}
    Chans = {}
    KillTargets <- OrdinaryTasks
    KillWindow = TRUE
    Ignorers = {}
INVARIANTS
    TypeOK
    ParentQueued
    ZombieOwned
\* halt() after a page fault of init
CHECK_DEADLOCK FALSE

SPECIFICATION Spec
CONSTANTS
    MaxPid = 4
    MaxSigs = 1
    Sigs = {}
    Chans = {}
    KillTargets <- OrdinaryTasks
    KillWindow = FALSE
    Ignorers = {}
INVARIANT
    NoSleepWithZombie
CHECK_DEADLOCK FALSE

SPECIFICATION Spec
CONSTANTS
    MaxPid = 4
    MaxSigs = 1
    Sigs = {"TERM"}
    Chans = {c1}
    KillTargets = {4}
    KillWindow = FALSE
    Ignorers = {4}
INVARIANTS
    SomeTaskRuns
    LockHeldByCurrent
PROPERTIES
    FreedByParent

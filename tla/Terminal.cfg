SPECIFICATION Spec
CONSTANTS
    Tabs = {t1, t2}
    MaxShells = 1
    Buffer = 1
    MaxOutput = 2
    MaxInput = 1
    MaxFaults = 1
INVARIANTS TypeOK EndedByExitOrFault EndedShowsTheRest
PROPERTY DestroyedTabEndsItsShell
CHECK_DEADLOCK FALSE

SPECIFICATION Spec
CONSTANTS
    Ops <- MCOps
    MaxOps = 3
    MaxFaults = 1
    MaxOutside = 1
INVARIANTS
    TypeOK
    FailedChangedNothing
    MarkersAgree
    AbortsOnlyItsOwn
    KilledIsNotFailed
    DropsTheNamedEntry
CHECK_DEADLOCK FALSE

SPECIFICATION Spec
CONSTANTS
    Ops = {"applyStash"}
    MaxOps = 1
    MaxFaults = 1
    MaxOutside = 0
INVARIANT CleanExitChangedNothing
CHECK_DEADLOCK FALSE

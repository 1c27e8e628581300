SPECIFICATION Spec
CONSTANTS
    Ops = {"revertCommit"}
    MaxOps = 1
    MaxFaults = 1
    MaxOutside = 1
INVARIANT EndsNothingForeign
CHECK_DEADLOCK FALSE

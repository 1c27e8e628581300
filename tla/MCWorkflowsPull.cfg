SPECIFICATION Spec
CONSTANTS
    Ops = {"pull"}
    MaxOps = 1
    MaxFaults = 1
    MaxOutside = 0
INVARIANT FailedPullKeptBranch
CHECK_DEADLOCK FALSE

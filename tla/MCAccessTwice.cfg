SPECIFICATION Spec
CONSTANTS
    Requests = {r1, r2}
    Paths <- MCPaths
    CommonOf <- MCCommonOf
    Within <- MCWithin
    Startup <- MCNothing
    Embedded = FALSE
    MaxTickets = 1
    MaxSessions = 1
    MaxCalls = 3
    MaxMints = 1
    MaxFaults = 0
INVARIANT OneRecordPerRepository
CHECK_DEADLOCK FALSE

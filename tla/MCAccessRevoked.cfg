SPECIFICATION Spec
CONSTANTS
    Requests = {r1, r2}
    Paths <- MCPaths
    CommonOf <- MCCommonOf
    Within <- MCWithin
    Startup <- MCStartup
    Embedded = FALSE
    MaxTickets = 1
    MaxSessions = 1
    MaxCalls = 3
    MaxMints = 1
    MaxFaults = 0
INVARIANT RevokedStaysRevoked
CHECK_DEADLOCK FALSE

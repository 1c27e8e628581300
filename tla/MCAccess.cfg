SPECIFICATION Spec
CONSTANTS
    Requests = {r1, r2}
    Paths <- MCPaths
    CommonOf <- MCCommonOf
    Within <- MCWithin
    Startup <- MCStartup
    Embedded = TRUE
    MaxTickets = 1
    MaxSessions = 1
    MaxCalls = 3
    MaxMints = 2
    MaxFaults = 1
INVARIANTS TypeOK OneSessionPerTicket NothingOutlivesItsRecord
PROPERTY AuditedWithdrawal
CHECK_DEADLOCK FALSE

SPECIFICATION Spec
CONSTANTS
    Logins <- MCLogins
    SessionIds <- MCSessionIds
    Tokens <- MCTokens
    Grace = 1
    Idle = 2
    Lifetime = 3
    Horizon = 1
    Rows <- MCRows
    Starts <- MCStarts
    Openings <- MCOpenings
    Requests <- MCRequests
    NoRequest = 0
INVARIANTS
    OpenSessionsRenew
    AnsweredMeansOver
    OneDeviceNeverDeadlocks
PROPERTIES
    ImplementsSessions

SPECIFICATION FairSpec
CONSTANTS
    c1 = c1
    c2 = c2
    Conns <- MCConns
    NoConn = NoConn
    timeOut = 1
    kCloseGraceSeconds = 1
    maxConnections = 0
    MaxStarts = 1
    MaxStops = 0
    MaxCalls = 1
    MaxErrors = 0
INVARIANTS
    NoEscape
PROPERTIES
    SessionsEnd
CHECK_DEADLOCK FALSE

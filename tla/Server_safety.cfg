SPECIFICATION Spec
CONSTANTS
    c1 = c1
    c2 = c2
    Conns <- MCConns
    NoConn = NoConn
    timeOut = 1
    kCloseGraceSeconds = 1
    maxConnections = 1
    MaxStarts = 2
    MaxStops = 1
    MaxCalls = 0
    MaxErrors = 1
INVARIANTS
    SrvTypeOK
    ConnectionLimit
    ClosingIsTimed
    OneAcceptLoop
CHECK_DEADLOCK FALSE

SPECIFICATION HttpServerSpec
CONSTANTS
    c1 = c1
    c2 = c2
    Conns <- MCConns
    NoConn = NoConn
    timeOut = 1
    kCloseGraceSeconds = 1
    maxConnections = 1
    MaxStarts = 2
    MaxStops = 1
    MaxCalls = 1
    MaxErrors = 1
SYMMETRY Peers
INVARIANTS
    HttpSrvTypeOK
    CloseIsPosted
    HttpLimit
    HttpNoEscape
    HttpLoops
CHECK_DEADLOCK FALSE

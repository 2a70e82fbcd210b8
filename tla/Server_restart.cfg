SPECIFICATION Spec
CONSTANTS
    c1 = c1
    c2 = c2
    Conns = {c1}
    NoConn = NoConn
    timeOut = 1
    kCloseGraceSeconds = 1
    maxConnections = 0
    MaxStarts = 2
    MaxStops = 1
    MaxCalls = 0
    MaxErrors = 0
INVARIANT RunningListens
CHECK_DEADLOCK FALSE

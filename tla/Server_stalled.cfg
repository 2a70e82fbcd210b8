SPECIFICATION FairSpec
CONSTANTS
    c1 = c1
    c2 = c2
    Conns = {c1}
    NoConn = NoConn
    timeOut = 1
    kCloseGraceSeconds = 1
    maxConnections = 0
    MaxStarts = 1
    MaxStops = 1
    MaxCalls = 1
    MaxErrors = 0
PROPERTY AskedCloses
CHECK_DEADLOCK FALSE

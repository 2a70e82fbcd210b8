SPECIFICATION HttpFairSpec
CONSTANTS
    HasHandler = TRUE
    httpTimeOut = 1
    httpSessionTimeOut = 1
    MaxRequests = 2
    MaxReplies = 1
    MaxCloses = 1
INVARIANTS
    HttpTypeOK
    OneResponse
    OneInput
    WritesApart
PROPERTIES
    NothingAfterClose
    ExchangeSafe
    HttpEnds
CHECK_DEADLOCK FALSE

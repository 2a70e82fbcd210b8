SPECIFICATION ClientFairSpec
CONSTANTS
    hello = hello
    Msgs <- MCMsgs
    Size <- MCSize
    startMsg = hello
    HEAD_LENGTH = 2
    MAX_LENGTH = 3
    MaxSendBufLen = 7
    MaxSends = 3
    MaxStops = 1
    MaxInbound = 2
    MaxStarts = 0
PROPERTY StopDisconnects
CHECK_DEADLOCK FALSE

SPECIFICATION ConnFairSpec
CONSTANTS
    short = short
    long = long
    Msgs <- MCMsgs
    Size <- MCSize
    HEAD_LENGTH = 2
    MAX_LENGTH = 3
    MaxSendBufLen = 8
    MaxSends = 3
    MaxStops = 2
    MaxInbound = 3
    MaxStarts = 2
INVARIANTS
    ConnTypeOK
    SingleWriter
    ClosedIsClean
    QueueAccounting
    CloseHasDriver
    ReaderAlive
PROPERTIES
    NoReadWhileClosing
    ChannelSafe
    StopCloses
    ChannelLive
CHECK_DEADLOCK FALSE

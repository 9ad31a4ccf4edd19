SPECIFICATION FairSpec
CONSTANTS
    Calls <- OneCall
    Pings <- OnePing
    MaxConns = 1
    ChanCap = 1
    ChunkSize = 2
    AsyncDial = TRUE
    WritePause = FALSE
    IOTimeout = TRUE
    Reconnect = TRUE
    AnswerKinds = {"reply", "loading"}
PROPERTIES
    EventuallyResolved
    CloseTakesEffect
    KeepsReconnecting

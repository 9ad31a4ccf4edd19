SPECIFICATION AcceptingSpec
CONSTANTS
    Calls <- OneCall
    Pings <- OnePing
    MaxConns = 1
    ChanCap = 1
    ChunkSize = 2
    AsyncDial = TRUE
    WritePause = FALSE
    IOTimeout = TRUE
    Reconnect = FALSE
    AnswerKinds = {"reply", "loading"}
PROPERTIES
    EventuallyResolved
CHECK_DEADLOCK FALSE

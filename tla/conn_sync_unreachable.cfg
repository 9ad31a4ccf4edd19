SPECIFICATION Spec
CONSTANTS
    Calls <- Batches
    Pings <- OnePing
    MaxConns = 0
    ChanCap = 1
    ChunkSize = 2
    AsyncDial = FALSE
    WritePause = FALSE
    IOTimeout = TRUE
    Reconnect = TRUE
    AnswerKinds = {"reply"}
PROPERTIES
    ImplementsSender

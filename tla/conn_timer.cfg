SPECIFICATION Spec
CONSTANTS
    Calls <- ManyAndTrans
    Pings <- NoCalls
    MaxConns = 1
    ChanCap = 1
    ChunkSize = 2
    AsyncDial = TRUE
    WritePause = TRUE
    IOTimeout = TRUE
    Reconnect = FALSE
    AnswerKinds = {"reply"}
INVARIANTS
    NoLostWakeup
    BatchesWhole
PROPERTIES
    ImplementsSender

SPECIFICATION Spec
CONSTANTS
    Calls <- TwoCalls
    Pings <- NoCalls
    MaxConns = 2
    ChanCap = 1
    ChunkSize = 2
    AsyncDial = TRUE
    WritePause = FALSE
    IOTimeout = TRUE
    Reconnect = TRUE
    AnswerKinds = {"reply", "loading"}
INVARIANTS
    TypeOK
    Conserved
    RightReply
    NotSentHonest
    NoSendOnClosedSignal
    CertainlyConnected
    NoLeakedSocket
PROPERTIES
    ClosedIsFinal

SPECIFICATION FairSpec
CONSTANTS
    SendWindowSize = 1
    MaxSendWindowSize = 1
    MaxSessions = 2
    MaxFrames = 2
    EarlyClose = {"server"}
    Copying = {"client"}
    SelfClosing = {}
    Sequential = {"server"}
    Timed = {"server"}
    MayAbort = {}
    UnflushedClose = FALSE
    ReadAfterClose = FALSE
INVARIANTS
    SessionIsolation
    FinalAckAnswers
PROPERTIES
    RecycledQuietly
    SessionEnds
    CloseUnblocks

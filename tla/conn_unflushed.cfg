SPECIFICATION FairSpec
CONSTANTS
    SendWindowSize = 2
    MaxSendWindowSize = 2
    MaxSessions = 1
    MaxFrames = 1
    EarlyClose = {"client", "server"}
    Copying = {}
    SelfClosing = {}
    Sequential = {}
    Timed = {"client", "server"}
    MayAbort = {}
    UnflushedClose = TRUE
    ReadAfterClose = FALSE
PROPERTIES
    SessionEnds
CHECK_DEADLOCK FALSE

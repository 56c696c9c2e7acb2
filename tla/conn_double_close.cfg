SPECIFICATION Spec
CONSTANTS
    SendWindowSize = 1
    MaxSendWindowSize = 2
    MaxSessions = 2
    MaxFrames = 1
    EarlyClose = {"server"}
    Copying = {}
    SelfClosing = {"server"}
    Sequential = {"client", "server"}
    Timed = {"server"}
    MayAbort = {}
    UnflushedClose = FALSE
    ReadAfterClose = FALSE
INVARIANTS
    NoPanic
CHECK_DEADLOCK FALSE

SPECIFICATION Spec
CONSTANTS
    SendWindowSize = 1
    MaxSendWindowSize = 2
    MaxSessions = 2
    MaxFrames = 1
    EarlyClose = {"client", "server"}
    Copying = {}
    SelfClosing = {}
    Sequential = {}
    Timed = {"server"}
    MayAbort = {}
    UnflushedClose = FALSE
    ReadAfterClose = FALSE
INVARIANTS
    NoPanic

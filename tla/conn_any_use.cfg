SPECIFICATION Spec
CONSTANTS
    SendWindowSize = 1
    MaxSendWindowSize = 1
    MaxSessions = 2
    MaxFrames = 1
    EarlyClose = {"client", "server"}
    Copying = {"server"}
    SelfClosing = {"server"}
    Sequential = {}
    Timed = {"server"}
    MayAbort = {"client", "server"}
    UnflushedClose = TRUE
    ReadAfterClose = TRUE
INVARIANTS
    TypeOK
    ConnInv
    SilentAfterFinal
    RecycleAllowed
PROPERTIES
    RecycledAfterFinals
CHECK_DEADLOCK FALSE

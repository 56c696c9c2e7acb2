SPECIFICATION Spec
CONSTANTS
    SendWindowSize = 2
    MaxSendWindowSize = 2
    MaxSessions = 1
    MaxFrames = 2
    EarlyClose = {"client", "server"}
    Copying = {}
    SelfClosing = {}
    Sequential = {}
    Timed = {"server"}
    MayAbort = {"client", "server"}
    UnflushedClose = FALSE
    ReadAfterClose = FALSE
INVARIANTS
    NoPanic
    WindowConserved
    PipeIntact
PROPERTIES
    ImplementsPipe
CHECK_DEADLOCK FALSE

SPECIFICATION FairSpec
CONSTANTS
    Waiter = {r, w}
    MaxChan = 4
INVARIANTS
    TimerOwnsChannel
    NoDoubleClose
    BlockedCallsFollow
PROPERTIES
    Expires
    SetReturns
CHECK_DEADLOCK FALSE

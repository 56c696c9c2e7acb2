SPECIFICATION Spec
CONSTANTS
    GroupBits = 2
    LastGroup = 2
    ID = {8190}
    StringLen = {0, 1, 3, 4, 31, 32}
    MaxFields = 1
    MaxBodies = 1
    MaxFrames = 2
    MaxRaw = 3
    FrameMaxPayload = 50
INVARIANTS
    FramesInSync
    KindsApart
    FieldsRoundTrip
    NoSilentWrap
    RecordIntact
CHECK_DEADLOCK FALSE

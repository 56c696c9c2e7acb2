SPECIFICATION Spec
CONSTANTS
    Request = {r1, r2}
    MaxLinks = 2
    MaxConnID = 2
    MaxMuxers = 1
    MaxFaults = 1
INVARIANTS
    CloseComplete

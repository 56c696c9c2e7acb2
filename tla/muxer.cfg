SPECIFICATION FairSpec
CONSTANTS
    MaxConnID = 1
    MaxData = 1
    BufCap = 1
INVARIANTS
    TypeOK
    NoNilConn
    FinalComplete
PROPERTIES
    CloseEnds
    ServeEnds

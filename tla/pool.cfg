SPECIFICATION FairSpec
CONSTANTS
    Caller = {g1, g2, g3}
    MaxConnID = 2
INVARIANTS
    OneOwner
    ReleaseFits
    AvailableExact
PROPERTIES
    NewConnReturns

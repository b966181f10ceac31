SPECIFICATION FairSpec
CONSTANTS
    NumEntities = 3
    Null = Null
    MaxRequests = 3
INVARIANTS
    Consistent
    CalledOnce
    StopsOnlyBy
PROPERTIES
    StaysUntilFrameEnd
    RemovalHappens
CHECK_DEADLOCK FALSE

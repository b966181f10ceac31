SPECIFICATION FairSpec
CONSTANTS
    f1 = f1
    f2 = f2
    f3 = f3
    gen = gen
    c1 = c1
    c2 = c2
    o1 = o1
    o2 = o2
    o3 = o3
    o4 = o4
    Files <- MCFiles
    Generated <- MCGenerated
    Clients <- MCClients
    Objects <- FourObjects
    Nothing = Nothing
    Uses <- MCUses
INVARIANTS
    Consistent
    AssertionsHold
PROPERTIES
    ImplementsResourceStore
    LoadsSettle
CHECK_DEADLOCK FALSE

SPECIFICATION Spec
CONSTANTS
    g1 = g1
    g2 = g2
    town = town
    cave = cave
    Guids <- MCGuids
    Levels <- MCLevels
    Numbers <- MCNumbers
    Absent = Absent
    NoLevel = NoLevel
    GameDb <- MCGameDb
    MaxRows = 3
INVARIANTS
    DeletedStaysDeleted
    Consistent
    CommitWritesRows
PROPERTIES
    LoadedOnce
CHECK_DEADLOCK FALSE

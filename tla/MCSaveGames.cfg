SPECIFICATION Spec
CONSTANTS
    quick = quick
    other = other
    Slots <- MCSlots
    Shipped = Shipped
    NoFile = NoFile
    NoGame = NoGame
    Unknown = Unknown
    MaxMoment = 3
INVARIANTS
    Consistent
    SavedIsKept
    LoadedAsKept
PROPERTIES
    ImplementsGameArchive

SPECIFICATION Spec
CONSTANTS
    MapSize = 5
    CacheSize = 16
    TileSize = 1600
    UnitSize = 3
    Places <- MCPlaces
    None = None
    MaxCrossings = 3
INVARIANTS
    Consistent
    GroundShown
    KeptShown

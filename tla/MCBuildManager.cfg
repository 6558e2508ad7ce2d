CONSTANTS
    Build = {b1, b2}
    NoBuild = NoBuild
    MaxChunks = 1
    Restart = TRUE
SPECIFICATION MCSpec
INVARIANTS
    OneBuildUntilShutdown
    TruthfulStatus
    OverlapIsNeeded
PROPERTIES
    ShutdownEnds
    ImplementsSlot

CONSTANTS
    Parts = {"executor", "grid", "word"}
    Tasks = {1, 2}
    Configurations <- Safe
    ChainLen = 2
    None = None
    MaxRuns = 2
    TookBits = 3
    IntBits = 5
SPECIFICATION MCSpec
INVARIANTS CyclesRecorded ErrorSurfaces FaultsRouted FaultsAnnounced EncodingsSound
PROPERTY GridKept

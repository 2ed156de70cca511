\* A second call of run on the same executor.
CONSTANTS
    Parts = {"grid"}
    Tasks = {1, 2}
    Configurations <- Safe
    ChainLen = 2
    None = None
    MaxRuns = 2
    TookBits = 3
    IntBits = 5
SPECIFICATION MCSpec
INVARIANT LatenessHonest

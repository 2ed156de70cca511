\* A graph with six vertices, one of which fails.
CONSTANTS
    Parts = {"graph"}
    Successors <- SuccFanIn
    AllPools <- TwoWorkers
    Outcomes = {"continue", "error"}
    Dispatches = 1
    Cap = 2
    Words = {1, 2}
    MaxPushes = 7
    None = None
    SENTINEL = SENTINEL
SPECIFICATION MCSpec
INVARIANT ReturnsComplete

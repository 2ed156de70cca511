\* The parts of the runtime that do not need each other.
CONSTANTS
    Parts = {"cycles", "ring", "graph", "stop", "loop", "log", "alloc", "stats", "build", "bucket"}
    Successors <- SuccJoin
    AllPools <- SmallPools
    Outcomes = {"continue", "stop", "error"}
    Dispatches = 2
    Cap = 2
    Words = {1, 2}
    MaxPushes = 7
    None = None
    SENTINEL = SENTINEL
SPECIFICATION MCSpec
INVARIANTS RecordsFaithful GraphSound HeartbeatKept NothingLost SlotsOwned
PROPERTIES ImplementsReadyQueue OperationsEnd

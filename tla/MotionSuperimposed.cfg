\* An axis with a superimposed offset is disabled and enabled again.
CONSTANTS
    Parts = {"axis"}
    AxisCommands = {"Power", "MoveAbsolute", "Superimpose"}
    Handlers = {"h1", "h2"}
    Clients = {"a", "b"}
    Keys = {"k"}
    Ttls = {1, 2}
    NoCall = NoCall
    MaxClock = 2
    MaxLocks = 2
    InFlight = InFlight
    None = None
SPECIFICATION MCSpec
PROPERTY BumplessStart
CHECK_DEADLOCK FALSE

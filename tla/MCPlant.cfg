\* The locks of the gateway, EtherCAT, motion control and event streams.
CONSTANTS
    Parts = {"locks", "ethercat", "walks", "config", "motion", "axis", "saw", "profile", "events"}
    AxisCommands = {"Power", "Reset", "Stop", "MoveVelocity", "MoveAbsolute", "MoveRelative", "GearIn", "FlyingSaw", "Superimpose"}
    Handlers = {"h1", "h2"}
    Clients = {"a", "b"}
    Keys = {"k"}
    Ttls = {1, 2}
    NoCall = NoCall
    MaxClock = 2
    MaxLocks = 2
    InFlight = InFlight
    None = None
SPECIFICATION MCSpec
INVARIANTS ProcessImage AxesHold FaultsFollowed
PROPERTIES AxesMove LiveLockIsKept OperationsEnd

\* The CAN connector, its filters and DBC messages.
SPECIFICATION MCSpec
CONSTANTS
    Ifaces = {"a", "b"}
    Ids = {p, q}
    MaxChannels <- Channels
    MaxSends <- Sends
INVARIANTS AggregateTruthful CanServed FramesAsDeclared
PROPERTY CanEnds

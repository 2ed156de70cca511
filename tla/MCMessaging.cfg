\* The channel of the executor, the messaging connectors, the user interface and the
\* views of the gateway.
CONSTANTS
    Parts = {"channel", "pump", "command", "iox", "query", "zenoh", "topic", "mqtt", "merge", "actions", "slot"}
    None = None
    Publishers = {"p1", "p2"}
    Items = {"single", "all", "deadline", "raw"}
    BufferSize = 2
    SocketCap = 2
    Deadline = 1
    MaxSends = 4
    MaxClock = 4
SPECIFICATION MCSpec
INVARIANTS NoSampleStranded PumpFaithful CommandsOnce LossCounted RightlyRouted ViewFaithful
PROPERTIES NeverAgain KeysIsolated 

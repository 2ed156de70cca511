CONSTANTS
    Parts = {"tp", "claim", "id"}
    Configurations <- Safe
    Nodes = {"a", "b"}
    Global = "all"
    MinTp = 2
    MaxTp = 3
    MaxEtp <- MaxEtpPerNode
    CtsWindow = 2
    NoLimit = NoLimit
    T1 = 1
    T2 = 1
    T3 = 1
SPECIFICATION MCSpec
INVARIANTS SessionBound Delivered OneOwner RoutedAsAddressed
PROPERTY ExchangesEnd

CONSTANTS
    Producers = {p1, p2}
    Values = {v1, v2}
    SENTINEL = SENTINEL
    None = None
    MinCapacity = 4
    Word = 8
    MaxPushes = 2
SPECIFICATION Spec
INVARIANT SizedPushNeverFails

CONSTANTS
    Workers = {w1, w2}
    Main = Main
    Nobody = Nobody
    MaxSubmits = 10
SPECIFICATION Spec
INVARIANTS BarrierQuiescent NoLostWakeup
PROPERTY PoolReturns

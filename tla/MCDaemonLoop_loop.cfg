SPECIFICATION LoopFairSpec
CONSTANTS
    Peers = {bob}
    Period = 6
    Tick = 2
    Interval <- RareFlush
    Budget = 2
    Cost = 2
INVARIANTS
    EdgeKept
PROPERTIES
    SyncOncePerEdge
    EveryTaskReached
    EdgeServed
    RecoveryFlushed

SPECIFICATION Spec
CONSTANTS
    NumPkts = 4
    SockMax = 2
    QueueMax = 3
INVARIANTS TypeOK HeldAccounted VerdictReachesHost
PROPERTIES ReaderStops

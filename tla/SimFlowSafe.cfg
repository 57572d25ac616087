\* A file of 5 bytes over 4 steps, replayed until step 5, in packets of 12 bits.
SPECIFICATION Spec
CONSTANTS
    Trace <- ShortTrace
    MaxClock = 5
    StepTimes = {1, 2}
    PktSize = 12
    MaxSize = 24
    Floats = {0, 4, 8, 12, 16, 20, 24, 32}
    Exact = 0
    Budget = 2
    Grants = {8, 16}
    Delays = {0, 3}
INVARIANTS TypeOK BitsConserved FateMatchesData TrafficFollowsFile
PROPERTY EveryPacketDecided

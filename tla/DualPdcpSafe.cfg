\* order_pkts off, three packets of any ECN codepoint.
SPECIFICATION Spec
CONSTANTS
    NumPkts = 3
    Size <- Sizes3
    OrderPkts = FALSE
    Ecns = {"not_ect", "ect0", "ect1"}
    Budget = 1
    Grants = {1, 3}
    Delays = {2}
    Floats = {0, 1, 2, 3, 6}
    Exact = 3
    Target = 0
    MinTh = 0
    Guard = 1
INVARIANTS TypeOK CeOnlyIfCapable FateMatchesData BitsConserved
PROPERTY EveryPacketDecided

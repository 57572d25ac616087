\* A mark that comes with a later fragment is lost.
SPECIFICATION Safety
CONSTANTS
    NumPkts = 2
    Size <- Sizes2
    OrderPkts = FALSE
    Ecns = {"ect1"}
    Budget = 2
    Grants = {1, 2, 4}
    Delays = {0}
    Floats = {0, 1, 2, 3, 4, 5, 6}
    Exact = 6
    Target = 1
    MinTh = 0
    Guard = 1
INVARIANT MarkReachesHost

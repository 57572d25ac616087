\* order_pkts on and a buffer that overflows: a tail drop closes the gate of
\* check_order for the packets before it.
SPECIFICATION Spec
CONSTANTS
    NumPkts = 4
    Size <- Sizes4
    MaxSize = 4
    Floats = {0, 1, 2, 3, 4, 6, 8}
    Exact = 4
    Budget = 2
    Grants = {1, 2, 4}
    Delays = {0, 2}
    OrderPkts = TRUE
PROPERTY CompleteLeaves

\* order_pkts on, and a buffer that overflows: 4 packets of 7 bits in all.
SPECIFICATION Spec
CONSTANTS
    NumPkts = 4
    Size <- Sizes4
    MaxSize = 6
    Floats = {0, 1, 2, 3, 4, 6, 8}
    Exact = 4
    Budget = 2
    Grants = {1, 2, 4}
    Delays = {0, 2}
    OrderPkts = TRUE
INVARIANTS TypeOK FateMatchesData BitsConserved SizeAccounted NoExpiredBuffered PipelineInOrder
PROPERTIES OneOrderedVerdict DecidedUnlessTailDropped

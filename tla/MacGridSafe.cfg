SPECIFICATION Spec
CONSTANTS
    NumUes = 2
    NumFreq = 3
    NumTime = 1
    Dirs = {"dl", "ul"}
    Tdd = TRUE
    DlSlots = 1
    UlSlots = 1
    Transition <- DlGuard
    SlotSyms = 2
    RbgSyms = 4
    RoundRobin = TRUE
    MaxBacklog = 2
    Rates = {0, 1}
    Metrics = {0}
INVARIANTS TypeOK SymsOfTheFrame ScheduledWereActive RoundRobinFair
PROPERTIES HighestMetricAssigned

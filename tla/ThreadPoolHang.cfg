\* One worker: the wake-up of do_jobs() can be lost.
SPECIFICATION PoolSpec
CONSTANTS
    Workers = {w1}
    NumJobs = 2
    FirstIndex = {2}
    Spurious = FALSE
PROPERTY PlacedJobGetsThread
CHECK_DEADLOCK FALSE

\* Three workers and two jobs, as mac_layer: more workers than jobs.  Stores
\* of do_jobs() in any order, spurious wake-ups, unboundedly many rounds.
SPECIFICATION PoolSpec
CONSTANTS
    Workers = {w1, w2, w3}
    NumJobs = 2
    FirstIndex = {2}
    Spurious = TRUE
INVARIANTS PoolTypeOK
PROPERTIES BarrierRound PlacedJobGetsThread AwakeRoundEnds DestructorEnds

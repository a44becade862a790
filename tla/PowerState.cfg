\* Overlapping requests of all kinds, a guest that acts by itself and a crash.
SPECIFICATION FairSpec
CONSTANTS
    MaxJobs = 3
    MaxAsks = 2
    MaxActs = 1
    MaxCrashes = 1
    Faults = {}
INVARIANTS
    TypeOK
    Exclusive
PROPERTIES
    Converges
    TakenUp
CHECK_DEADLOCK FALSE

SPECIFICATION FairSpec
CONSTANTS
    Instances = {i1, i2}
    Requests = {r1, r2, r3, r4}
    Users = {"attach", "detach", "terminate", "delete"}
    Overlap = TRUE
    Races = {}
    Faults = {"connect", "unplug", "driver"}
INVARIANTS
    NeverShared
    FreeIsFree
    Agree
PROPERTY
    Resolved
CHECK_DEADLOCK FALSE

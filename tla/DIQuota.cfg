SPECIFICATION Spec
CONSTANTS
    i1 = i1
    i2 = i2
    r1 = r1
    r2 = r2
    r3 = r3
    r4 = r4
    Instances = {i1, i2}
    Requests = {i1, i2, r1, r2, r3, r4}
    Limit = 1
    Deferred = TRUE
    MaxCrashes = 0
    Faults = {"create", "schedule", "build", "cleanup", "driver", "api"}
    Races = {"twice"}
CHECK_DEADLOCK FALSE
INVARIANTS WithinQuota UsageExact ReservedIsHeld
SYMMETRY Symmetry

SPECIFICATION FairSpec
CONSTANTS
    i1 = i1
    r1 = r1
    r2 = r2
    r3 = r3
    Instances = {i1}
    Requests = {i1, r1, r2, r3}
    Limit = 1
    Deferred = FALSE
    MaxCrashes = 2
    Faults = {"schedule", "build", "driver"}
    Races = {"heartbeat"}
CHECK_DEADLOCK FALSE
INVARIANTS TypeOK NeverUnder GuestHasHost
PROPERTIES DeletingEnds GuestReaped

SPECIFICATION Spec
CONSTANTS
    Instances = {i1, i2}
    Requests = {r1, r2, r3, r4}
    Users = {"attach", "detach", "terminate", "delete"}
    Overlap = FALSE
    Races = {"bdm", "reserve", "detach", "delete", "terminate"}
    Faults = {"cast", "connect", "plug", "unplug", "rollback", "terminate", "backend", "timeout", "driver"}
INVARIANTS
    TypeOK
    Recorded
SYMMETRY Symmetry
CHECK_DEADLOCK FALSE

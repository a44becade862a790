SPECIFICATION Spec
CONSTANTS
    Hosts = {a, b, c}
    MaxMigrations = 2
    MaxCrashes = 2
    Permits = 0
    SharedPath = TRUE
    ResumeOnBoot = FALSE
    Faults = {"crash", "timeout", "monitor", "post", "remove", "arrive"}
CHECK_DEADLOCK FALSE
SYMMETRY Symmetry
INVARIANTS AtMostOneGuest GuestAlive

SPECIFICATION Spec
CONSTANTS
    Hosts = {a, b}
    MaxMigrations = 2
    MaxCrashes = 0
    Permits = 1
    SharedPath = FALSE
    ResumeOnBoot = FALSE
    Faults = {}
CHECK_DEADLOCK FALSE
SYMMETRY Symmetry
INVARIANT GuestAlive

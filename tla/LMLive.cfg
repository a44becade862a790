SPECIFICATION FairSpec
CONSTANTS
    Hosts = {a, b, c}
    MaxMigrations = 2
    MaxCrashes = 1
    Permits = 1
    SharedPath = FALSE
    ResumeOnBoot = FALSE
    Faults = {"crash", "timeout", "remove"}
CHECK_DEADLOCK FALSE
INVARIANT CleanWhenIdle
PROPERTY Resolved

SPECIFICATION Spec
CONSTANTS
    Hosts = {a, b, c}
    MaxMigrations = 3
    MaxCrashes = 0
    Permits = 1
    SharedPath = TRUE
    ResumeOnBoot = FALSE
    Faults = {"post", "remove", "arrive"}
CHECK_DEADLOCK FALSE
SYMMETRY Symmetry
INVARIANTS TypeOK OneOwner NotForgotten GuestKeepsVolumes
PROPERTIES RecordedWhereItRuns Moves

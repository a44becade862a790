SPECIFICATION FromOneNode
CONSTANTS
    Nodes = {a, b}
    Instances = {i1}
    Watched = i1
    Flavors = {"small", "large"}
    Size <- MCSize
    MaxMigrations = 3
    AllowSameHost = TRUE
    Users = {"confirm", "revert", "poll"}
    Overlap = FALSE
    Audits = FALSE
    MaxCrashes = 1
    Faults = {"refuse", "cast", "error", "nohost"}
CHECK_DEADLOCK FALSE
PROPERTIES Moves Resolved
INVARIANTS NeverPreempted DiskSurvives DiskWhereItRuns Answerable

SPECIFICATION FromOneNode
CONSTANTS
    Nodes = {a, b}
    Instances = {i1}
    Watched = i1
    Flavors = {"small", "large"}
    Size <- MCSize
    MaxMigrations = 2
    AllowSameHost = TRUE
    Users = {"confirm", "revert"}
    Overlap = FALSE
    Audits = TRUE
    MaxCrashes = 1
    Faults = {"refuse", "error", "rollback", "timeout"}
CHECK_DEADLOCK FALSE
PROPERTY Settles
INVARIANTS TypeOK NoUnderflow

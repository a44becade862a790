\* The node that rotates and one that is copied to; one more key than the
\* default, and two rotations beyond the number of keys.
SPECIFICATION Spec
CONSTANTS
    Nodes = {n1, n2}
    Rotator = n1
    MaxActiveKeys = 4
    MaxRotations = 5
    MaxCrashes = 1
    Races = {}
INVARIANTS
    TypeOK
    PrimariesKnown
    NeverRefused
CHECK_DEADLOCK FALSE

SPECIFICATION Spec
CONSTANTS
    HashOf <- OneContent
    Instants = 4
    Devices = {d1, d2}
    SyncIds = {s1, s2}
    Keep = 1
    Expires = TRUE
    Modes = {"auto", "manual"}
    MaxTime = 12
    MaxRev = 2
    MaxSnapshots = 1
    MaxFailures = 0
INVARIANT NoReappearance
PROPERTY ImportKeepsPins
SYMMETRY FullSymmetry
CHECK_DEADLOCK FALSE

SPECIFICATION Spec
CONSTANTS
    HashOf <- OwnContent
    Instants = 2
    Devices = {d1, d2}
    SyncIds = {s1}
    Keep = 2
    Expires = TRUE
    Modes = {"auto", "manual"}
    MaxTime = 6
    MaxRev = 2
    MaxSnapshots = 4
    MaxFailures = 0
INVARIANT DeletionsAreFinal
SYMMETRY DeviceSymmetry
CHECK_DEADLOCK FALSE

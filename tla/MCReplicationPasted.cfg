SPECIFICATION Spec
CONSTANTS
    HashOf <- OwnContent
    Instants = 3
    Devices = {d1, d2}
    SyncIds = {s1}
    Keep = 1
    Expires = FALSE
    Modes = {"auto", "manual"}
    MaxTime = 9
    MaxRev = 3
    MaxSnapshots = 3
    MaxFailures = 0
PROPERTY PastesAreKept
SYMMETRY DeviceSymmetry
CHECK_DEADLOCK FALSE

SPECIFICATION FairSpec
CONSTANTS
    Devices = {d1, d2}
    Editors = {d1}
    Keep = 1
    HidesErrors = TRUE
    MaxChanges = 1
    MaxExports = 5
    MaxCommands = 1
    MaxFaults = 1
INVARIANT SyncedIsShared
PROPERTY OnlyTornFilesBlock
CHECK_DEADLOCK FALSE

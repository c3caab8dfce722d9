SPECIFICATION FairSpec
CONSTANTS
    HashOf <- OwnContent
    Instants = 3
    Devices = {d1, d2}
    SyncIds = {s1}
    Keep = 2
    Expires = FALSE
    Modes = {"auto"}
    MaxTime = 5
    MaxRev = 2
    MaxSnapshots = 6
    MaxFailures = 0
PROPERTY ExchangeEnds
CHECK_DEADLOCK FALSE

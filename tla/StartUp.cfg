SPECIFICATION StartUpSpec
CONSTANTS
    Keys = {"k1", "k2"}
    DefaultKey = "k1"
    MaxRequests = 2
    MaxChecks = 1
    MaxTaken = 2
    MaxFaults = 1
    MaxEnds = 1
    MaxSetups = 3
    MaxDownloads = 2
    Legacy = {"r1"}
    SampleCount = 2
    DeviceIds = {"d1", "d2"}
    MaxPicks = 1
INVARIANT InStep
INVARIANT NothingDangles
INVARIANT VerifiedIsLaunched
INVARIANT StartResumes
CHECK_DEADLOCK FALSE

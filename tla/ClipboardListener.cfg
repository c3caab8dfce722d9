SPECIFICATION FairSpec
CONSTANTS
    Copies = {c1, c2}
    Window = 3
    WriteTime = 2
    Lag = 1
    MaxClock = 6
    MaxChanges = 3
INVARIANT TypeOK
INVARIANT NoCopyMissed
INVARIANT OwnWriteHidden
PROPERTY StopReturns
PROPERTY StartReturns
CHECK_DEADLOCK FALSE

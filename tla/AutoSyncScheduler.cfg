SPECIFICATION FairSpec
CONSTANTS
    Intervals = {2, 5}
    MaxClock = 40
INVARIANT NoLostWakeup
PROPERTY NoNewCycle
PROPERTY StopEnds
PROPERTY BackoffWhileDue
CHECK_DEADLOCK FALSE

SPECIFICATION FairSpec
CONSTANTS
    Intervals = {5}
    MaxClock = 40
PROPERTY BackoffHolds
CHECK_DEADLOCK FALSE

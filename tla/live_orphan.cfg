SPECIFICATION LiveSpec
CONSTANTS
    Base = 2
    MinFill = 1
    MaxRetries = 2
    MaxFaults = 1
    MaxCrashes = 0
    MayLinger = FALSE
    MaySwallow = FALSE
INVARIANTS
    ClosedIsFlat

SPECIFICATION LiveSpec
CONSTANTS
    Base = 3
    MinFill = 2
    MaxRetries = 2
    MaxFaults = 2
    MaxCrashes = 1
    MayLinger = FALSE
    MaySwallow = FALSE
INVARIANTS
    LiveTypeOK
    HoldingIsSettled
    NeverOverHedged
    OnlyStraysRemain

SPECIFICATION LiveFairSpec
CONSTANTS
    Base = 2
    MinFill = 1
    MaxRetries = 2
    MaxFaults = 2
    MaxCrashes = 1
    MayLinger = TRUE
    MaySwallow = TRUE
PROPERTIES
    RecordIsResolved
    NoNakedLegStays

SPECIFICATION FairSpec
CONSTANTS
    btc = btc
    alt = alt
    worker = worker
    room = room
    Assets <- MCAssets
    Core = btc
    NoLedger = NoLedger
    NoFeed = NoFeed
    NoRevision = NoRevision
    MaxDay = 3
    MaxFaults = 1
    Worker = worker
    Children <- MCChildren
    MaxLaunches = 2
INVARIANTS
    WorkerTypeOK
    EveryDayIsJournalled
    PairsFollowTheLedger
    NoChildOutlives
PROPERTIES
    ProcessedDaysGrow
    StopsTogether
    CatchesUp
CHECK_DEADLOCK FALSE

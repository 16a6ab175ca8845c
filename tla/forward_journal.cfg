SPECIFICATION Spec
CONSTANTS
    btc = btc
    alt = alt
    worker = worker
    room = room
    Assets <- MCAssets
    Core = btc
    NoLedger = NoLedger
    NoFeed = NoFeed
    NoRevision = NoRevision
    MaxDay = 3
    MaxFaults = 0
    Worker = worker
    Children <- MCChildren
    MaxLaunches = 2
INVARIANT
    JournalStaysValid
CHECK_DEADLOCK FALSE

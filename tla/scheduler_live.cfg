SPECIFICATION SchedulerFairSpec
CONSTANTS
    Runners = {daemon}
    NoRunner = NoRunner
    Accounts <- MCAccounts
    NoAccount = NoAccount
    Requests <- MCRivals
    NoRequest = NoRequest
    NumArtifacts = 1
    MayTear = FALSE
    Daemon = daemon
    Envelopes <- MCOneExpires
    NoEnvelope = NoEnvelope
    MaxTime = 2
    MaxItems = 1
    MayReenqueue = FALSE
PROPERTIES
    EveryRequestIsArchived
    LongLivedCyclesTakeEffect

SPECIFICATION SchedulerSpec
CONSTANTS
    Runners = {daemon, operator}
    NoRunner = NoRunner
    Accounts <- MCAccounts
    NoAccount = NoAccount
    Requests <- MCRivals
    NoRequest = NoRequest
    NumArtifacts = 1
    MayTear = FALSE
    Daemon = daemon
    Envelopes <- MCSoon
    NoEnvelope = NoEnvelope
    MaxTime = 1
    MaxItems = 1
    MayReenqueue = TRUE
INVARIANTS
    CompletedIsBacked
PROPERTIES
    NeverSilentlyDeleted

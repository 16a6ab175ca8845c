SPECIFICATION SchedulerSpec
CONSTANTS
    Runners = {daemon}
    NoRunner = NoRunner
    Accounts <- MCAccounts
    NoAccount = NoAccount
    Requests <- MCRequests
    NoRequest = NoRequest
    NumArtifacts = 1
    MayTear = FALSE
    Daemon = daemon
    Envelopes <- MCLongLived
    NoEnvelope = NoEnvelope
    MaxTime = 2
    MaxItems = 2
    MayReenqueue = FALSE
INVARIANTS
    SchedulerTypeOK
    NoFork
    NoTelemetryHole
    CommitIsRecoverable
    ArchivesAreDisjoint

SPECIFICATION SchedulerSpec
CONSTANTS
    Runners = {daemon}
    NoRunner = NoRunner
    Accounts <- MCAccounts
    NoAccount = NoAccount
    Requests <- MCRequests
    NoRequest = NoRequest
    NumArtifacts = 1
    MayTear = FALSE
    Daemon = daemon
    Envelopes <- MCTwo
    NoEnvelope = NoEnvelope
    MaxTime = 2
    MaxItems = 1
    MayReenqueue = FALSE
INVARIANTS
    CommitIsRecoverable

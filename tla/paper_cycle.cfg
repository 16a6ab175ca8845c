SPECIFICATION Spec
CONSTANTS
    Runners = {w1, w2}
    NoRunner = NoRunner
    Accounts <- MCAccounts
    NoAccount = NoAccount
    Requests <- MCRequests
    NoRequest = NoRequest
    NumArtifacts = 2
    MayTear = TRUE
SYMMETRY MCRunnerSymmetry
INVARIANTS
    IInv
    EvidenceBeforeCommit
    AccountHasProvenance
    JournalVerifies
    SealedCycleIsRestorable
    TelemetryFollowsAccount
PROPERTIES
    AccountNeverRollsBack
    EvidenceIsImmutable
    ImplementsLedger

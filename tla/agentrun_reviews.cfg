\* One worker; every kind of review; fairness.
CONSTANTS
    Workers = {w1}
    Clis = {}
    Drifted = {}
    N = 2
    BeforeGated <- OneStep
    AfterGated <- SecondStep
    DegradeBlocked <- OneStep
    Interruptible <- SecondStep
    Outputs = {o1, o2}
    NoOutput = NoOutput
    NoProc = NoProc
    RetryAttempts = 1
    MaxInvocations = 2
    Stalls = FALSE
    MaxCrashes = 1
    MaxReconciles = 1
SPECIFICATION FairSpec
CHECK_DEADLOCK FALSE
INVARIANTS
    TypeOK
    NoUnreviewedEffect
    CommitsReviewedOutput
    RejectionIsFinal
    FlagTellsUnclear
PROPERTIES
    TerminalStays
    EventuallySettled

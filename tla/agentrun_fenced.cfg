\* Two polling workers and a command line; nobody stalls.
CONSTANTS
    Workers = {w1, w2}
    Clis = {c1}
    Drifted = {}
    N = 2
    BeforeGated = {}
    AfterGated = {}
    DegradeBlocked = {}
    Interruptible = {}
    Outputs = {o1}
    NoOutput = NoOutput
    NoProc = NoProc
    RetryAttempts = 2
    MaxInvocations = 2
    Stalls = FALSE
    MaxCrashes = 1
    MaxReconciles = 2
SPECIFICATION Spec
CHECK_DEADLOCK FALSE
SYMMETRY Symmetry
INVARIANTS
    NoBlindReexecution
    CommittedStays
    EffectsInLedger
    ExecutorHoldsLease
    RetryBudget

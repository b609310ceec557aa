\* Two workers, one of which may stall past its lease between reading and creating a record.
CONSTANTS
    Workers = {w1, w2}
    Clis = {}
    Drifted = {}
    N = 2
    BeforeGated = {}
    AfterGated = {}
    DegradeBlocked = {}
    Interruptible = {}
    Outputs = {o1}
    NoOutput = NoOutput
    NoProc = NoProc
    RetryAttempts = 1
    MaxInvocations = 3
    Stalls = TRUE
    MaxCrashes = 0
    MaxReconciles = 0
SPECIFICATION Spec
CHECK_DEADLOCK FALSE
INVARIANTS
    NoBlindReexecution

\* Two polling workers; either may stall.
CONSTANTS
    Workers = {w1, w2}
    Clis = {}
    Drifted = {}
    N = 2
    BeforeGated <- SecondStep
    AfterGated = {}
    DegradeBlocked = {}
    Interruptible = {}
    Outputs = {o1}
    NoOutput = NoOutput
    NoProc = NoProc
    RetryAttempts = 1
    MaxInvocations = 3
    Stalls = TRUE
    MaxCrashes = 0
    MaxReconciles = 1
SPECIFICATION Spec
CHECK_DEADLOCK FALSE
SYMMETRY Symmetry
INVARIANTS
    StepsInOrder
    SuccessIsComplete

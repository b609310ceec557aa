\* Two polling workers and a command line on a run of one reviewed step.
CONSTANTS
    Workers = {w1, w2}
    Clis = {c1}
    Drifted = {}
    N = 1
    BeforeGated = {}
    AfterGated <- OneStep
    DegradeBlocked = {}
    Interruptible = {}
    Outputs = {o1, o2}
    NoOutput = NoOutput
    NoProc = NoProc
    RetryAttempts = 1
    MaxInvocations = 1
    Stalls = FALSE
    MaxCrashes = 1
    MaxReconciles = 1
SPECIFICATION Spec
CHECK_DEADLOCK FALSE
PROPERTIES
    ImplementsContract

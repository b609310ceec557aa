\* Two workers that never stall; a late Conflict is written over a finished run.
CONSTANTS
    Workers = {w1, w2}
    Clis = {}
    Drifted = {}
    N = 2
    BeforeGated = {}
    AfterGated = {}
    DegradeBlocked = {}
    Interruptible = {}
    Outputs = {o1}
    NoOutput = NoOutput
    NoProc = NoProc
    RetryAttempts = 2
    MaxInvocations = 2
    Stalls = FALSE
    MaxCrashes = 0
    MaxReconciles = 0
SPECIFICATION Spec
CHECK_DEADLOCK FALSE
PROPERTIES
    TerminalStays

\* Evidence, manual conclusions, an archive and one round of dispatch.
CONSTANTS
    Keys = {"issues", "rectification", "report"}
    Required = {"report"}
    issue = issue
    found = found
    Findings <- MCFindings
    IssuesIn <- MCIssuesIn
    NoValue = NoValue
    Procs = {p1}
    Native = FALSE
    Disturbed = FALSE
    MaxRounds = 1
    MaxJobs = 3
    MaxEvidence = 2
    MaxManual = 1
    MaxDeaths = 0
    MaxReconciles = 0
    MaxArchives = 1
SPECIFICATION Spec
CHECK_DEADLOCK FALSE
INVARIANTS
    ActiveJobIsCurrent
    ConclusionsAreCurrent
    CompletedIsComplete
    ReviewStaysApplicable
PROPERTIES
    EvidenceFiledCurrent
    ClosedStays

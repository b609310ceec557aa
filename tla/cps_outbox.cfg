\* Two processes that deliver and project, one of them dying; runs are
\* crashed, cancelled, expired and reconciled.
CONSTANTS
    Keys = {"work_plan"}
    Required = {"work_plan"}
    issue = issue
    found = found
    Findings <- MCFindings
    IssuesIn <- MCIssuesIn
    NoValue = NoValue
    Procs = {p1, p2}
    Native = FALSE
    Disturbed = TRUE
    MaxRounds = 1
    MaxJobs = 2
    MaxEvidence = 1
    MaxManual = 0
    MaxDeaths = 1
    MaxReconciles = 1
    MaxArchives = 0
SPECIFICATION FairSpec
CHECK_DEADLOCK FALSE
INVARIANTS
    ProjectedOnce
    ConfirmedAsReviewed
PROPERTIES
    CaseSettles

\* Reviewers may also use the approval endpoint of the kernel.
CONSTANTS
    Keys = {"work_plan"}
    Required = {"work_plan"}
    issue = issue
    found = found
    Findings <- MCFindings
    IssuesIn <- MCIssuesIn
    NoValue = NoValue
    Procs = {p1}
    Native = TRUE
    Disturbed = TRUE
    MaxRounds = 1
    MaxJobs = 2
    MaxEvidence = 1
    MaxManual = 0
    MaxDeaths = 0
    MaxReconciles = 0
    MaxArchives = 0
SPECIFICATION Spec
CHECK_DEADLOCK FALSE
INVARIANTS
    ConfirmedAsReviewed

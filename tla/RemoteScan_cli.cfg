SPECIFICATION FairSpec
CONSTANTS
    None = None
    MaxAttempts = 2
    Ranks = {1, 2, 3}
    MaxFindings = 3
    PageSize = 2
    Timeout = 4
    PollInterval = 2
    Latency = 1
INVARIANTS
    ReportTellsTheOutcome
    DeadlineKept
PROPERTY EventuallyExits
CHECK_DEADLOCK FALSE

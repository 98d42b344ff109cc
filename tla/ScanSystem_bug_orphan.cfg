CONSTANTS
    MaxScans = 1
    MaxAttempts = 3
    Commits = {c1}
    Versions = {v1}
    Procs = {p1}
    MaxStops = 1
    MaxDbFaults = 0
    None = None
    SkipLocked = FALSE
    Requests = {r1}
    MaxInFlightScans = 1
    SubmitForms = {"full"}
SPECIFICATION FairSpec
PROPERTY RunningJobsEnd
CHECK_DEADLOCK FALSE

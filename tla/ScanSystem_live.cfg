CONSTANTS
    MaxScans = 2
    MaxAttempts = 3
    Commits = {c1}
    Versions = {v1}
    Procs = {p1,p2}
    MaxStops = 0
    MaxDbFaults = 0
    None = None
    SkipLocked = TRUE
    Requests = {r1,r2}
    MaxInFlightScans = 1
    SubmitForms = {"full"}
SPECIFICATION FairSpec
PROPERTIES
    AcceptedScansEnd
    RequestsAnswered
CHECK_DEADLOCK FALSE

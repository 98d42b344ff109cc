CONSTANTS
    MaxScans = 2
    MaxAttempts = 2
    Commits = {c1}
    Versions = {v1}
    Procs = {p1,p2}
    MaxStops = 1
    MaxDbFaults = 1
    None = None
    SkipLocked = TRUE
    Requests = {r1,r2}
    MaxInFlightScans = 1
    SubmitForms = {"full", "short"}
SPECIFICATION Spec
INVARIANTS
    StatusesAgree
    ExclusiveExecution
    FindingsAreOfTheScan
    IInv
PROPERTIES
    EndedIsForever
    ImplementsScanJobs
CHECK_DEADLOCK FALSE

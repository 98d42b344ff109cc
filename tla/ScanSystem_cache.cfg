CONSTANTS
    MaxScans = 3
    MaxAttempts = 1
    Commits = {c1}
    Versions = {v1,v2}
    Procs = {p1,p2}
    MaxStops = 1
    MaxDbFaults = 0
    None = None
    SkipLocked = TRUE
    Requests = {r1,r2}
    MaxInFlightScans = 1
    SubmitForms = {"full","short"}
SPECIFICATION HistorySpec
SYMMETRY Symmetry
INVARIANTS
    InFlightBound
    CachedAnswerIsRight
PROPERTIES
    CompletedCommitHits
    CanonicalOnlyGetsOlder
CHECK_DEADLOCK FALSE

SPECIFICATION Spec
CONSTANTS
    None = None
    NoName = NoName
    f = f
    Places <- MCPlaces
    MaxLines = 2
    Files <- MCFiles
    MaxCalls = 2
INVARIANTS
    CandidatesLead
    RowsAreRight
    DiffTellsTheEdit
    GuardrailsHold
    OfflineAdviceStands
CHECK_DEADLOCK FALSE

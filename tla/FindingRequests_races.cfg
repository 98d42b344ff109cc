CONSTANTS
    Requests = {r1, r2}
    Findings = {f1}
    Profiles = {p1}
    Models = {m1, m2}
    None = None
    Unset = Unset
    Targets = {"REVIEWED"}
    SingleWriter = TRUE
    MaxRows = 3
    MaxStops = 1
SPECIFICATION Spec
SYMMETRY Symmetry
INVARIANTS
    EventsMatchRows
    GeneratedAtMostPerCaller
    AnswersFit
    ItemsBound
PROPERTIES
    UnsentFieldsStay
CHECK_DEADLOCK FALSE

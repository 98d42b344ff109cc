CONSTANTS
    Queries = {q1, q2}
    Inspection = insp
    MaxChanges = 1
    MaxFailures = 2
SPECIFICATION FairSpec
INVARIANTS
    ShownIsAsked
PROPERTIES
    NothingGoesBack
    StatusCatchesUp
    FindingsCatchUp
CHECK_DEADLOCK FALSE

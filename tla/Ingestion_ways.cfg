SPECIFICATION LiveSpec
CONSTANTS
    None = None
    Ways = {"github", "git", "tree"}
    MaxFiles = 2
    MaxExtracted = 3
    MaxArchive = 1
    Sizes = {1, 2}
    MaxMembers = 3
    MaxRedirects = 5
INVARIANTS
    ExtractionInv
    ResultIsRight
    TokenStaysHome
    CleanUp
PROPERTY EventuallyOver
CHECK_DEADLOCK FALSE

SPECIFICATION Spec
CONSTANTS
    None = None
    NoClass = NoClass
    Names = {"k", "x"}
    Calls = {"PRIVATE", "PUBLIC", "CIPHER", "MARKER", "anything"}
    Layouts <- MCLayouts
    ImportLists <- MCImportLists
    MaxStatements = 3
INVARIANTS
    ScopesAreKept
    ClaimsAreEstablished
CHECK_DEADLOCK FALSE

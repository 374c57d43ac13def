SPECIFICATION Spec
CONSTANTS
    ApplyCall = {c1, c2, c3}
    Endpoint = {"sync", "header", "peaks"}
    Connections = 2
    MaxInvalid = 1
    MaxDbErrors = 1
    MaxSaveErrors = 1
    MaxCancelled = 0
    MaxCrashes = 1
SYMMETRY CallSymmetry
INVARIANTS
    MemoryMatchesDatabase
    ReplyMatchesState
    ReadersServed
    FilesMatchDatabase
CHECK_DEADLOCK FALSE

SPECIFICATION Spec
CONSTANTS
    ApplyCall = {c1, c2}
    Endpoint = {"sync"}
    Connections = 2
    MaxInvalid = 0
    MaxDbErrors = 0
    MaxSaveErrors = 0
    MaxCancelled = 1
    MaxCrashes = 0
INVARIANT
    MemoryMatchesDatabase

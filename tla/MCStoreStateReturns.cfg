SPECIFICATION FairSpec
CONSTANTS
    ApplyCall = {c1, c2}
    Endpoint = {"sync", "header", "block"}
    Connections = 2
    MaxInvalid = 1
    MaxDbErrors = 1
    MaxSaveErrors = 0
    MaxCancelled = 1
    MaxCrashes = 1
PROPERTIES
    ChainExtends
    ApplyReturns

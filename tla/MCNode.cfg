SPECIFICATION FairSpec
CONSTANTS
    Config <- MCConfig
    MaxAmount = 5
    MaxIssuance = 11
    AccountsDir = {d1, d2}
    Tx = {"t", "n", "late"}
    NetworkTx = {"n"}
    AcceptHeader <- MCAcceptHeader
    None = None
    Empty = Empty
    ShiftBits = 2
    MaxBlocks = 2
    MaxCrashes = 2
    MaxPortsTaken = 1
    MaxOverflows = 1
INVARIANTS
    GenesisSound
    RestartAccepted
    ComponentsInSync
PROPERTY
    NodeComesUp

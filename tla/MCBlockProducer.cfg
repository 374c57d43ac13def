SPECIFICATION Spec
CONSTANTS
    alice = alice
    bob = bob
    note = note
    Account <- MCAccount
    Note <- MCNote
    Transactions <- MCFamily
    GenesisAccounts <- MCGenesisAccounts
    GenesisNotes = {}
    num_retained_blocks = 1
    expiration_slack = 0
    batch_budget <- MCBatchOf2
    block_budget = 1
    min_capacity = 2
    Worker = {w1}
    MaxHeight = 3
    MaxRequests = 1
    MaxBatchFailures = 1
    MaxBlockFailures = 1
    MaxLostReplies = 0
    MaxRestarts = 1
    MaxSubscriptions = 0
    MaxFaults = 3
INVARIANTS
    NoPanic
    PartsAgree
    InflightExact
    NotExpired
    BlockAcceptedIfOverlapping
PROPERTY
    NothingLost

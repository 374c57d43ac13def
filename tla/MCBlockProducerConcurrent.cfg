SPECIFICATION FairSpec
CONSTANTS
    alice = alice
    bob = bob
    note = note
    Account <- MCAccount
    Note <- MCNote
    Transactions <- MCPair
    GenesisAccounts <- MCGenesisAccounts
    GenesisNotes = {}
    num_retained_blocks = 1
    expiration_slack = 0
    batch_budget <- MCBatchOf1
    block_budget = 2
    min_capacity = 2
    Worker = {w1, w2}
    MaxHeight = 2
    MaxRequests = 1
    MaxBatchFailures = 1
    MaxBlockFailures = 0
    MaxLostReplies = 1
    MaxRestarts = 0
    MaxSubscriptions = 1
    MaxFaults = 1
INVARIANTS
    ConsistentUnlessReused
    SubscriberInSync
PROPERTY
    EveryTransactionResolved

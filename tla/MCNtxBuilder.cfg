SPECIFICATION FairSpec
CONSTANTS
    a = a
    u = u
    v = v
    Account <- MCAccount
    Note = {1, 2}
    Transactions <- MCConsumersFirst
    NetworkAccounts <- MCNetwork
    NoteTarget <- MCTargets
    GenesisAccounts <- MCExisting
    GenesisNotes = {}
    UnviableNotes = {}
    MAX_IN_PROGRESS_TXS = 1
    MAX_NOTES_PER_TX = 2
    Revertible <- MCAllButCreation
    MaxReverts = 1
    MaxTaskFailures = 1
    MaxLostReplies = 1
INVARIANTS
    ViewMatchesEvents
    SelectionSound
PROPERTY
    EveryNoteConsumed
CHECK_DEADLOCK FALSE

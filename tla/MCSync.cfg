SPECIFICATION Spec
CONSTANTS
    Items = {"slot"}
    Faucets = {"faucet"}
    Nfts = {"nft"}
    Limit = 2
    MaxBlocks = 4
    GenesisAccounts <- MCGenesisAccounts
    Contents <- MCContents
    Readers <- MCReaders
INVARIANTS
    ClientFollowsChain
    DeltaExact
    MemoryReloads
    AnswersFit
PROPERTY
    ReadersFinish
CHECK_DEADLOCK FALSE

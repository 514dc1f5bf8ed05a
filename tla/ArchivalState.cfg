SPECIFICATION Spec
CONSTANTS
    g = g a1 = a1 a2 = a2 a3 = a3 b1 = b1 c2 = c2
    NoBlock = NoBlock
    Genesis = g
    Blocks <- MCBlocks
    Chain <- MCChain
    FileCapacity = 3
    MaxFile = 3
    SearchDepth = 2
    MaxKills = 2
    KillPoints = {"check", "idle", "store", "index", "mmr", "ams", "wallet", "flush_ams", "flush_mmr", "search"}
    CancelSearch = TRUE
INVARIANTS
    ServesOneTip
    MmrIsPathToKnownBlock
    PanicOnlyAfterTornUpdate
    IndexIsComplete
    FindPathWalksTheFork
PROPERTIES
    NewTipMendsBlockMmr

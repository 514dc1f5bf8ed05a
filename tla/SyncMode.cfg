SPECIFICATION Spec
CONSTANTS
    Blocks <- MCBlocks
    Genesis = "g"
    Chain <- MCChain
    Work <- MCWork
    Utxos <- MCUtxos
    Spends <- MCSpends
    Valid <- MCBlocks
    pa = pa
    pb = pb
    Peers <- MCPeers
    Claims <- MCClaims
    Relays <- MCRelays
    Batches <- MCBatches
    Mined = {"b2"}
    None = None
    Threshold = 3
    MinBatch = 1
    Capacity = 1
INVARIANTS
    NoOrphans
PROPERTIES
    TipNeverWorse
    SyncEnds
CHECK_DEADLOCK FALSE

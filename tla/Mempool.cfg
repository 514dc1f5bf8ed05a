SPECIFICATION Spec
CONSTANTS
    g = g  a1 = a1  a2 = a2  b1 = b1
    c1 = c1  c2 = c2
    pay1 = pay1  pay2 = pay2  both = both  free = free
    Blocks <- MCBlocks
    Genesis = g
    Chain <- MCChain
    Utxos = {c1, c2}
    Spends <- MCSpends
    Work <- MCWork
    Txs <- MCTxs
    OwnTxs = {pay1}
    PeerTxs = {pay2, free}
    NoTx = NoTx
    FewProofs = {pay1, pay2}
    Inputs <- MCInputs
    Fee <- MCFee
    Size <- MCSize
    Gobbled <- MCGobbled
    Merged <- MCMerged
    MaxLength = 2
    MaxSize = 3
    Composing = FALSE
    SingleProver = TRUE
    SearchDepth = 2
    MaxBatch = 2
    MaxUpgrades = 1
INVARIANTS
    NoConflicts
    
    WalletKnowsMempool
